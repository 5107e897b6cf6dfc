SPECIFICATION FairSpec
CONSTANTS
  a = a
  b = b
  w1 = w1
  w2 = w2
  Tasks = {a, b}
  Workers = {w1, w2}
  None = None
  Cap <- Capacities
  Size <- Sizes
  MaxRetries = 2
  MaxStops = 1
  Worlds <- AllWorlds
INVARIANTS PendingIsQueued NoLeak OnePlace
PROPERTY TasksEnd
CHECK_DEADLOCK FALSE
