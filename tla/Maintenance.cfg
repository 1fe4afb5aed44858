SPECIFICATION FairSpec
CONSTANTS
  Jobs = {1, 2}
  Policies <- TwoPolicies
  MoreDelay = 1
  RetryDelay = 2
  MaxDoublings = 1
  LongestDelay = 3
  RetryDelays <- Doubling
  MaxTime = 5
  MaxStarts = 2
  MaxReloads = 1
  MaxErrors = 2
INVARIANTS
  ClaimIsStored
  OvertakenOnce
  NeverPostponed
PROPERTIES
  DueJobsRun
  ClaimsEnd
CHECK_DEADLOCK FALSE
