SPECIFICATION FairSpec
CONSTANTS
  user = user
  peer = peer
  i1 = i1
  i2 = i2
  bad = bad
  a1 = a1
  m1 = m1
  b2 = b2
  c2 = c2
  v = v
  NoAsset = NoAsset
  Ids = {i1, i2}
  Assets = {a1, m1, b2, c2, v}
  Uuid <- MCUuid
  SizeOf <- MCSize
  MaxSize = 2
  PeerHas <- MCPeerHas
  Clients = {user, peer}
  Menus <- AllMenus
  MaxAsked = 2
  MaxFaults = 1
INVARIANTS OneOperation CacheSound ServedIsStored AcknowledgedIsServed
PROPERTIES RequestsAnswered
CHECK_DEADLOCK FALSE
