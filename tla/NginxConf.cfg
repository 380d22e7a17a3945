CONSTANTS
  Value = {v1, v2}
  Up = {v1}
  Nothing = Nothing
  CatchAll = CatchAll
  Dumps = {"nginx -T", "disk", "main file"}
  Snippets = FALSE
  MaxIncludes = 2
  MaxItems = 8
SPECIFICATION ConfSpec
INVARIANTS ConfTypeInv TopologyAsMeant AttributedWhenPrinted IntentOnce
