SPECIFICATION Spec
CONSTANTS
  Addresses = {a1, a2}
  Users = {"failed", "nobody", "remote"}
  MaxAge = 2
  Retentions = {1, 2}
  Durations = {1, 4}
  BatchSize = 1
  MaxTime = 4
  MaxChanges = 4
INVARIANTS
  ReportedHostsWereInactive
  InactiveHostsAreReported
  HistoryTellsObservations
SYMMETRY Symmetry
CHECK_DEADLOCK FALSE
