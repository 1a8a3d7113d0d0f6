\* Creation by two clients, and every kind of file that cannot be served;
\* descriptors are scarce.
CONSTANTS
  Conns = {3, 4, 5, 6, 7}
  Workers = {w1, w2}
  a = a
  b = b
  d = d
  e = e
  Uris = {a, b, e}
  Request <- KindsRequests
  Kind0 <- KindsKinds
  Chunks = 1
  QueueSize = 1
  FdLimit = 3
  Word = 16
  Old = Old
  Hole = Hole
  NoConn = NoConn
  NoWorker = NoWorker
SPECIFICATION Spec
SYMMETRY WorkerSymmetry
INVARIANTS TypeOK CreationMutex ServedOnce FdAccounting
