SPECIFICATION QueueSpec
CONSTANTS
  c1 = c1
  c2 = c2
  c3 = c3
  c4 = c4
  w1 = w1
  w2 = w2
  w3 = w3
  NoConn = NoConn
  Conns <- MCConns
  Workers <- MCWorkers
  Fragile <- MCFragile
  Capacity = 2
  RequestTimeout = 2
SYMMETRY MCSymmetry
INVARIANTS QueueBounded NoLostWakeup ClosedStaysEmpty
PROPERTIES PopLeavesNoneExpired ImplementsLine
