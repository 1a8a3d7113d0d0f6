\* The ids of MCHttpTurn, and a third request with a higher one.
CONSTANTS
  Conns = {3, 4, 5}
  Workers = {w1, w2}
  a = a
  b = b
  d = d
  e = e
  Uris = {a, b}
  Request <- ThirdRequests
  Kind0 <- ThirdKinds
  Chunks = 1
  QueueSize = 2
  FdLimit = 9
  Word = 16
  Old = Old
  Hole = Hole
  NoConn = NoConn
  NoWorker = NoWorker
SPECIFICATION Spec
PROPERTY NotFoundRespectsIds
