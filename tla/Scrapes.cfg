CONSTANTS
  MaxDeploys = 1
  MaxFailures = 1
  Pid = {p1, p2}
  Workers = {p1}
SPECIFICATION ScrapesFairSpec
INVARIANTS StandingWorkersShown
PROPERTIES StaleIsCounted ScrapeAnswered StopsOnSignal Converges
