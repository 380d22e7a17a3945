CONSTANTS
  MaxDeploys = 1
  MaxFailures = 1
  Pid = {p1, p2}
  Workers = {p1}
SPECIFICATION ScrapesFairSpec
PROPERTY AlwaysStops
