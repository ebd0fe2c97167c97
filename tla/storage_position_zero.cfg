SPECIFICATION Spec
CONSTANTS
  i1 = i1
  i2 = i2
  a1 = a1
  b1 = b1
  g2 = g2
  l2 = l2
  Header = Header
  Junk = Junk
  NoAsset = NoAsset
  Ids = {i1, i2}
  Assets <- GlobalTwo
  Uuid <- MCUuid
  Locals <- MCLocals
  MaxPrefix = 0
  PrefixOf <- SamePrefix
  Threads = {"asio"}
  Faults = {"write"}
  Operations = {"get", "put"}
  MaxCalls = 2
  MaxPurges = 0
  MaxFaults = 1
  MaxCrashes = 0
  MaxStops = 0
INVARIANTS AckedReadable
CHECK_DEADLOCK FALSE
