\* One vhost may be tracked, and three show traffic: the later ones fold.
CONSTANTS
  h1 = h1
  h2 = h2
  h3 = h3
  a1 = a1
  a2 = a2
  Host = {h1, h2, h3}
  Addr = {a1, a2}
  NoHost = NoHost
  Other = Other
  NoAddr = NoAddr
  Dash = Dash
  MaxVhosts = 1
  Lines <- MCLines
  Seeds <- MCSeeds
  MaxTime = 5
  MaxLives = 1
SPECIFICATION Spec
INVARIANTS
  ObservedHaveClock
  CapExact
  VerdictIsLatestEvidence
  BooksBalance
PROPERTIES
  ObservedMonotone
