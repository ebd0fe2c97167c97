SPECIFICATION FairSpec
CONSTANTS
  Assets = {a1, a2}
  Slaves = {s1, s2}
  None = None
  MAX_QUEUE_SIZE = 0
  MaxFaults = 2
  Faulty = {"connect", "handshake", "write", "header", "data", "errorData", "response"}
  MaxReloads = 1
  MaxStops = 1
INVARIANTS OneInFlight WaitingBehindASend NoHandlerOfDeadService ResponseMatchesRequest
PROPERTIES FollowsTheSetting SendEnds StopFinishes
CHECK_DEADLOCK FALSE
