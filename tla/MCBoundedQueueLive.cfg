\* Liveness: one producer, as in the server's main(), and two consumers.
CONSTANTS
  Producers = {p1}
  Consumers = {c1, c2}
  Items = {x}
  Size = 2
  Junk = Junk
  NoThread = NoThread
SPECIFICATION FairSpec
PROPERTIES ElementsLeave PushReturns
