SPECIFICATION Spec
CONSTANTS
  i1 = i1
  i2 = i2
  a1 = a1
  b1 = b1
  g2 = g2
  l2 = l2
  Header = Header
  Junk = Junk
  NoAsset = NoAsset
  Ids = {i1}
  Assets <- OneGlobal
  Uuid <- MCUuid
  Locals <- MCLocals
  MaxPrefix = 0
  PrefixOf <- SamePrefix
  Threads = {"asio"}
  Faults = {}
  Operations = {"get", "put"}
  MaxCalls = 1
  MaxPurges = 0
  MaxFaults = 1
  MaxCrashes = 1
  MaxStops = 0
INVARIANTS StartSucceeds
CHECK_DEADLOCK FALSE
