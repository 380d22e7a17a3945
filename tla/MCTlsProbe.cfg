CONSTANTS
  shop = shop
  blog = blog
  api = api
  Key = {shop, blog, api}
  VIP = VIP
  Loopback = Loopback
  Topologies <- MCTopologies
  MaxMoves = 2
  MaxRenewals = 1
  MaxReloads = 1
SPECIFICATION Spec
INVARIANTS OneProbe OwnCertificate
PROPERTIES SeriesFollow
