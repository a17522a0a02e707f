SPECIFICATION FairSpec
CONSTANTS
  size = 4
  cycles = 2
  Orders <- BothOrders
INVARIANTS NeighboursApart OnlyTheCircleBlocks
PROPERTY SwappedDine
CHECK_DEADLOCK FALSE
