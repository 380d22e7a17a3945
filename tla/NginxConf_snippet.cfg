CONSTANTS
  Value = {v1}
  Up = {v1}
  Nothing = Nothing
  CatchAll = CatchAll
  Dumps = {"nginx -T"}
  Snippets = TRUE
  MaxIncludes = 1
  MaxItems = 8
SPECIFICATION ConfSpec
INVARIANTS TopologyAsMeant
