SPECIFICATION Spec
CONSTANTS
  NoToken = NoToken
  NoConfig = NoConfig
  NoAnswer = NoAnswer
  Unset = Unset
  Identifiers = {"a", "b", "c", "-o", "lab", "it", "ssh", "web", "dns"}
  WellFormed = {"a", "b", "c", "lab", "it", "ssh", "web", "dns"}
  Addresses = {"x", "y", "z", "-o"}
  Destinations = {"x", "y", "z"}
  Tokens = {"t1", "t2"}
  MaxDuration = 4
  Second = 2
  Day = 2
  MaxConcurrency = 1
  MaxWorkers = 1
  MaxChecks = 2
  MaxBatch = 1
  MaxPages = 1
  MaxPercent = 1
  MaxBytes = 1
  Files <- MCFiles
  Clients = {1}
INVARIANTS
  ListenerGuarded
  OneConfigurationInForce
  EnabledHostsAreMonitored
  StorageTakesAcceptedFiles
PROPERTY ContractSpec
