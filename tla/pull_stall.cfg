SPECIFICATION Spec
CONSTANTS
  i1 = i1
  i2 = i2
  i3 = i3
  i4 = i4
  Ids <- MCIds
  MaxPrefix = 1
  IdsAt <- MCIdsAt
  BatchSize = 2
  Masters = {m1}
  None = None
  MaxFaults = 1
  Faulty = {"connect", "handshake", "write", "header", "data", "errorData", "response", "store"}
  MaxRounds = 1
  MaxReloads = 0
  MaxStops = 0
INVARIANT NotStalled
CHECK_DEADLOCK FALSE
