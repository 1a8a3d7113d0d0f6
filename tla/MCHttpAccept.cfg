\* One descriptor, and two clients.
CONSTANTS
  Conns = {3, 4}
  Workers = {w1}
  a = a
  b = b
  d = d
  e = e
  Uris = {a}
  Request <- AcceptRequests
  Kind0 <- AcceptKinds
  Chunks = 1
  QueueSize = 2
  FdLimit = 1
  Word = 16
  Old = Old
  Hole = Hole
  NoConn = NoConn
  NoWorker = NoWorker
SPECIFICATION Spec
INVARIANT OnlySocketsServed
