SPECIFICATION Spec
CONSTANTS
  a1 = a1
  a2 = a2
  p1 = p1
  p2 = p2
  HostIds = {1, 2, 3}
  Addresses = {a1, a2}
  Ports = {p1, p2}
  Configurations <- MCConfigurations
  Clients = {c1}
  PageSize = 1
  PoolSize = 1
  MaxGenerations = 2
  MaxOrphans = 1
  MaxObservations = 2
  MaxFailures = 1
INVARIANTS
  RowsAreCurrent
  TcpResultsFitTheirChecks
  MixedRepliesWereOvertaken
  PagesCoverSteadyHosts
  AdmittedReadsHaveConnections
