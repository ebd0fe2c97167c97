SPECIFICATION FairSpec
CONSTANTS
  p1 = p1
  p2 = p2
  x1 = x1
  x2 = x2
  x3 = x3
  i1 = i1
  i2 = i2
  Peers = {p1, p2}
  Searches = {x1, x2, x3}
  Ids = {i1, i2}
  IdOf <- MCIdOf
  Scenarios <- RaceOfServers
  MaxServers = 3
  Faulty = {p1}
  Late = {}
INVARIANT NoResultAfterFound
CHECK_DEADLOCK FALSE
