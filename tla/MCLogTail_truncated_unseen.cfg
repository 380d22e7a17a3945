CONSTANTS
  MaxLines = 3
  MaxRotations = 0
  MaxTruncations = 1
SPECIFICATION FairSpec
PROPERTIES StandingLineFed
