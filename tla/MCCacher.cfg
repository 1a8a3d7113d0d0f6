\* The three policies, on all inputs.
CONSTANTS
  Items = {x, y, z, u}
  Size = 3
  Policies = {"FIFO", "LRU", "CLOCK"}
  Ptrs = {1, 2, 3, 4, 5, 6, 7, 8}
  MaxRequests = 8
  NoItem = NoItem
SPECIFICATION FairSpec
INVARIANTS TypeOK Ownership MissesCounted FIFOExplained LRUExplained
PROPERTIES ImplementsSecondChance ClockReturns
