CONSTANTS
  Value = {v1}
  Up = {v1}
  Nothing = Nothing
  CatchAll = CatchAll
  Dumps = {"disk"}
  Snippets = FALSE
  MaxIncludes = 1
  MaxItems = 8
SPECIFICATION ConfSpec
INVARIANTS AttributedToOwnFile NamesShown
