CONSTANTS
  Node = {n1, n2}
  None = None
  Splits = {"segment"}
  ScrapeEvery = 2
  EvalEvery = 2
  For = 6
  Settle = 8
SYMMETRY Pair
SPECIFICATION Spec
INVARIANTS NoFalseAlarm SplitBrainRings
