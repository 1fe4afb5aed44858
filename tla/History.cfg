SPECIFICATION Spec
CONSTANTS
  Signatures = {s1, s2}
  NoCheck = NoCheck
  Freshness <- FreshnessOf
  Observations = {"up", "down"}
  Tiers = {1, 2}
  Retention <- KeptFor
  RawRetention = 2
  EventRetention = 2
  BatchSize = 2
  Points = {1, 9}
  MaxRows = 4
  RequestTimes = {1, 3, 9}
  MaxTime = 5
  MaxEpochs = 2
  MaxRecords = 2
  MaxStepBacks = 0
INVARIANTS
  EpochsDisjoint
  QueryShowsTimeline
  ShownFitsEligible
  EveryRowHasItsEpoch
  EventsChain
PROPERTY PruneFinishes
SYMMETRY Symmetry
CHECK_DEADLOCK FALSE
