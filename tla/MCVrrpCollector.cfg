CONSTANTS
  VRID = {1}
  here = here
  there = there
  Addr = {here, there}
  NoAddr = NoAddr
  Adverts <- MCAdverts
  MaxTransitionKeys = 2
  MaxAdverts = 4
  Delays = {5, 12}
  MaxTime = 17
  Modes = {"on", "auto"}
  LocalIPs = {here}
SPECIFICATION CollectorSpec
INVARIANTS TransitionsMatchHistory RoutersMatchHistory ScrapeExplained MasterGaugeTimely ActiveWasMaster
PROPERTIES StaysEnabled
