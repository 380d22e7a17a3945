CONSTANTS
  Pid = {p1, p2, p3}
  Workers = {p1}
SPECIFICATION ServingSpec
INVARIANT NeverBlank
CHECK_DEADLOCK FALSE
