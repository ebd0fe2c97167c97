SPECIFICATION FairSpec
CONSTANTS
  i1 = i1
  i2 = i2
  i3 = i3
  i4 = i4
  Ids <- MCIds
  MaxPrefix = 1
  IdsAt <- MCIdsAt
  BatchSize = 2
  Masters = {m1, m2}
  None = None
  MaxFaults = 1
  Faulty = {"connect", "handshake", "write", "header", "data", "errorData", "response", "store"}
  MaxRounds = 1
  MaxReloads = 1
  MaxStops = 1
INVARIANTS OneDriver FetchedOnce ResponseMatchesRequest NoHandlerOfDeadService
PROPERTIES RoundIsComplete EventuallyReplicated
CHECK_DEADLOCK FALSE
