CONSTANTS
  Value = {v1}
  Up = {v1}
  Nothing = Nothing
  CatchAll = CatchAll
  Dumps = {"disk"}
  Snippets = TRUE
  MaxIncludes = 2
  MaxItems = 11
SPECIFICATION ConfSpec
INVARIANTS TopologyAsMeant
