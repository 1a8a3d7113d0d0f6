\* A GET of a missing file with an id that no other request reaches.
CONSTANTS
  Conns = {3}
  Workers = {w1}
  a = a
  b = b
  d = d
  e = e
  Uris = {a}
  Request <- LoneRequests
  Kind0 <- LoneKinds
  Chunks = 1
  QueueSize = 2
  FdLimit = 9
  Word = 16
  Old = Old
  Hole = Hole
  NoConn = NoConn
  NoWorker = NoWorker
SPECIFICATION FairSpec
PROPERTY EveryRequestAnswered
