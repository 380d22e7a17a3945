CONSTANTS
  MaxSnapshot = 2
  Blocks <- MCBlocks
  MaxStarts = 1
SPECIFICATION Spec
CHECK_DEADLOCK FALSE
INVARIANTS FileWhole
PROPERTIES NeverOlder
