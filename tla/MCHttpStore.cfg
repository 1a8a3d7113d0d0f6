\* Writers and readers of one file, and a request that fails.
CONSTANTS
  Conns = {3, 4, 5, 6, 7}
  Workers = {w1, w2, w3}
  a = a
  b = b
  d = d
  e = e
  Uris = {a, d}
  Request <- StoreRequests
  Kind0 <- StoreKinds
  Chunks = 2
  QueueSize = 2
  FdLimit = 9
  Word = 16
  Old = Old
  Hole = Hole
  NoConn = NoConn
  NoWorker = NoWorker
SPECIFICATION Spec
SYMMETRY WorkerSymmetry
INVARIANT AuditReplay
