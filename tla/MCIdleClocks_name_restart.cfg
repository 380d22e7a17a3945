CONSTANTS
  h1 = h1
  a1 = a1
  a2 = a2
  n1 = n1
  up1 = up1
  var1 = var1
  Host = {h1}
  Addr = {a1, a2, n1}
  Name = {n1}
  Dns <- MCDns
  Variable = {var1}
  NoHost = NoHost
  Other = Other
  NoAddr = NoAddr
  Dash = Dash
  NoConfig = NoConfig
  NoPass = NoPass
  MaxVhosts = 1
  Lines <- MCLines
  Seeds <- MCSeeds
  Topologies <- NameOnly
  MaxTime = 5
  MaxLives = 1
  MaxDeploys = 0
SPECIFICATION IdleSpec
INVARIANTS LoadedClockKept
