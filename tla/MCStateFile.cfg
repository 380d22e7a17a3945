CONSTANTS
  MaxSnapshot = 3
  Blocks <- MCBlocks
  MaxStarts = 1
SPECIFICATION Spec
CHECK_DEADLOCK FALSE
INVARIANTS TypeInv
PROPERTIES StoreIsAtomic
