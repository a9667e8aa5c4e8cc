SPECIFICATION FairServerSpec
CONSTANTS
  c1 = c1
  c2 = c2
  w1 = w1
  w2 = w2
  NoConn = NoConn
  Conns <- MCConns
  Workers <- MCWorkers
  Fragile <- MCFragile
  Capacity = 1
  RequestTimeout = 1
  Grace = 1
PROPERTIES ShutdownCompletes WorkersLeave ConnectionReleased
