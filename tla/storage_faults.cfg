SPECIFICATION Spec
CONSTANTS
  i1 = i1
  i2 = i2
  a1 = a1
  b1 = b1
  g2 = g2
  l2 = l2
  Header = Header
  Junk = Junk
  NoAsset = NoAsset
  Ids = {i1, i2}
  Assets <- AllAssets
  Uuid <- MCUuid
  Locals <- MCLocals
  MaxPrefix = 0
  PrefixOf <- SamePrefix
  Threads = {"asio", "repl"}
  Faults = {"open", "write", "insert", "list", "remove"}
  Operations = {"get", "put"}
  MaxCalls = 3
  MaxPurges = 1
  MaxFaults = 1
  MaxCrashes = 1
  MaxStops = 0
SYMMETRY PairSymmetry
ACTION_CONSTRAINT TwoDisturbances
INVARIANTS RowsAreSound GetReturnsTheAsset AckedStored CallbackOnce
PROPERTIES GlobalsImmutable ImplementsWriteOnceStore OnlyStorageErrorsStrand
CHECK_DEADLOCK FALSE
