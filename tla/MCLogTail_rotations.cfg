CONSTANTS
  MaxLines = 3
  MaxRotations = 2
  MaxTruncations = 0
SPECIFICATION Spec
INVARIANTS EnabledMeansTailing EachLineFed FedOnce
