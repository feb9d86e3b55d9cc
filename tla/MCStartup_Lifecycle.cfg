SPECIFICATION FairSpec
CONSTANTS
  visible = visible
  hidden = hidden
  pub1 = pub1
  map1 = map1
  pub6 = pub6
  uuid = uuid
  UUID = UUID
  caddy = caddy
  tokA = tokA
  tokB = tokB
  edge = edge
  lost = lost
  laptop = laptop
  ours = ours
  Rejected = Rejected
  Empty = Empty
  Lower <- MCLower
  Matchers = {visible, hidden}
  IPv4 = {pub1}
  Mapped = {map1}
  IPv6 = {pub6}
  Uuid <- MCUuid
  Services = {caddy}
  Files <- LifecycleFiles
  Nothing = Nothing
  Machine = laptop
  DefaultTag = ours
  NoAnswer = NoAnswer
  MaxLoads = 2
CHECK_DEADLOCK FALSE
INVARIANTS
  TypeOK
  HostsDistinct
  OneDeclarationPerRecord
  EachHostInItsZone
  PassesInformed
  TunnelsResolved
PROPERTIES
  LinesCommute
  AnswerMatchesOutcome
  LoadAnswered
