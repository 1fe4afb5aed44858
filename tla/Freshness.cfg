SPECIFICATION Spec
CONSTANTS
  t1 = t1
  t2 = t2
  t3 = t3
  Tasks = {t1, t2, t3}
  Configurations <- MCConfigurations
  Concurrency = 1
  JitterPart = 3
  LongestJitter = 2
  RetryDelay = 1
  MaxFailures = 1
INVARIANTS
  NoCheckFallsBehind
  ReadyAfterFirstRound
