SPECIFICATION Spec
CONSTANTS
  api = api
  www = www
  blog = blog
  lab = lab
  shop = shop
  t1 = t1
  t2 = t2
  t3 = t3
  caddyTLS = caddyTLS
  caddyHTTP = caddyHTTP
  notFound = notFound
  docs = docs
  http2 = http2
  no = no
  a1 = a1
  a2 = a2
  Hostnames = {api, www, blog}
  NoHost = NoHost
  Rank <- MCRank
  Services = {caddyTLS, caddyHTTP, notFound}
  Https = {caddyTLS}
  DefaultService = notFound
  Paths = {docs}
  NoPath = NoPath
  Keys = {sni, http2}
  SNI = sni
  Values = {Yes, no}
  Yes = Yes
  Absent = Absent
  Undeclared = Undeclared
  Zones = {lab, shop}
  ZoneOf <- MCZoneOf
  ZoneRank <- MCZoneRank
  Accounts = {a1, a2}
  ZoneAccount <- MCZoneAccount
  TunnelAccount <- MCTunnelAccount
  Tunnels = {t1, t2, t3}
  NoTunnel = NoTunnel
  Address = Address
  Nothing = Nothing
  Configs <- PathConfigs
  InitDNS <- NoRecords
  Setups <- ForeignSetups
  MaxLoads = 1
  MaxFaults = 0
  MaxEdits = 0
CHECK_DEADLOCK FALSE
PROPERTIES
  ForeignPathsKept
