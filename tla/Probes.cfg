SPECIFICATION FairSpec
CONSTANTS
  i1 = i1
  i2 = i2
  i3 = i3
  Tasks = {i1, i2, i3}
  NamedTasks = {i1, i2}
  DnsAdmission = 1
  Space = 2
  MaxReloads = 1
INVARIANTS
  IdentifiersInUse
  ResolverIsBounded
PROPERTIES
  EveryTaskReports
