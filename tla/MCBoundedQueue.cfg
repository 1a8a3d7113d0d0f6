\* Safety: producers and consumers on both sides of a full and an empty queue.
CONSTANTS
  Producers = {p1, p2}
  Consumers = {c1, c2}
  Items = {x, y}
  Size = 2
  Junk = Junk
  NoThread = NoThread
SPECIFICATION Spec
SYMMETRY Symmetry
INVARIANTS TypeOK NoLostWakeup
PROPERTY ImplementsFifo
