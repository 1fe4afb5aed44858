SPECIFICATION Spec
CONSTANTS
  h1 = h1
  a1 = a1
  a2 = a2
  NoAddress = NoAddress
  Hosts = {h1}
  Addresses = {a1, a2}
  SuccessThreshold = 1
  FailureThreshold = 2
  CounterMax = 2
  Instants = {1, 2, 3}
  Configs <- AllConfigs
  Concurrency = 1
  MaxReloads = 2
  MaxStarts = 2
  MaxStoreErrors = 1
  MaxLoadErrors = 0
  MaxRejected = 0
INVARIANTS
  RowsBelongToIdentity
  TransitionsChain
PROPERTIES
  LedgerSpec
SYMMETRY Symmetry
CONSTRAINTS
  ThreeBeginnings
  OneFault
