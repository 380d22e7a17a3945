CONSTANTS
  MaxLines = 3
  MaxRotations = 1
  MaxTruncations = 1
SPECIFICATION CalmSpec
INVARIANTS TypeInv OnlyWholeLines FedOnce
PROPERTIES StandingLineFed
