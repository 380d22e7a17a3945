CONSTANTS
  MaxDeploys = 1
  MaxFailures = 1
SPECIFICATION Spec
INVARIANTS ScrapeNeverBlocks LackShown
