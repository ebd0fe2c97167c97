SPECIFICATION FairSpec
CONSTANTS
  i1 = i1
  i2 = i2
  a1 = a1
  b1 = b1
  g2 = g2
  l2 = l2
  Header = Header
  Junk = Junk
  NoAsset = NoAsset
  Ids = {i1, i2}
  Assets <- GlobalAndLocal
  Uuid <- MCUuid
  Locals <- MCLocals
  MaxPrefix = 1
  PrefixOf <- TwoPrefixes
  Threads = {"asio"}
  Faults = {"query", "insert", "read", "list"}
  Operations = {"get", "put", "purge", "ids", "status"}
  MaxCalls = 2
  MaxPurges = 1
  MaxFaults = 1
  MaxCrashes = 0
  MaxStops = 1
INVARIANTS TypeOK AckedReadable
PROPERTIES EveryCallAnswered PurgeRemovesLocals
CHECK_DEADLOCK FALSE
