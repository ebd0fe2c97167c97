SPECIFICATION FairSpec
CONSTANTS
  asking = asking
  quiet = quiet
  Clients = {asking, quiet}
  Ids = {i1, i2}
  MaxQueries <- MCQueries
  MaxPending = 1
  MaxFaults = 1
INVARIANTS FlagsCountOperations AnswersInOrder
PROPERTIES ClosedIsRemoved QueriesAnswered
CHECK_DEADLOCK FALSE
