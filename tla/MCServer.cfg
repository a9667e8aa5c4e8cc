SPECIFICATION ServerSpec
CONSTANTS
  c1 = c1
  c2 = c2
  c3 = c3
  w1 = w1
  w2 = w2
  NoConn = NoConn
  Conns <- MCConns
  Workers <- MCWorkers
  Fragile <- MCFragile
  Capacity = 1
  RequestTimeout = 2
  Grace = 1
SYMMETRY MCSymmetry
INVARIANTS CleanStop JoinNeverBlocks
