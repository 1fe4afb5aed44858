SPECIFICATION FairSpec
CONSTANTS
  h1 = h1
  h2 = h2
  a1 = a1
  NoAddress = NoAddress
  Hosts = {h1, h2}
  Addresses = {a1}
  SuccessThreshold = 1
  FailureThreshold = 1
  CounterMax = 1
  Instants = {1, 2}
  Configs <- AddAndRemove
  Concurrency = 1
  MaxReloads = 1
  MaxStarts = 1
  MaxStoreErrors = 1
  MaxLoadErrors = 0
  MaxRejected = 0
PROPERTIES
  ChecksSettle
  ReloadCompletes
  ReplacedTasksEnd
