\* Request ids: a file that is created, and one that stays missing; as many
\* workers as waiting GETs, and one more.
CONSTANTS
  Conns = {3, 4, 5, 6}
  Workers = {w1, w2, w3}
  a = a
  b = b
  d = d
  e = e
  Uris = {a, b}
  Request <- TurnRequests
  Kind0 <- TurnKinds
  Chunks = 1
  QueueSize = 2
  FdLimit = 9
  Word = 16
  Old = Old
  Hole = Hole
  NoConn = NoConn
  NoWorker = NoWorker
SPECIFICATION FairSpec
INVARIANT NotFoundInTurn
PROPERTIES NotFoundRespectsIds EveryRequestAnswered
