SPECIFICATION FairSpec
CONSTANTS
  home = home
  office = office
  tagHome = tagHome
  tagOffice = tagOffice
  www = www
  db = db
  pub1 = pub1
  pub2 = pub2
  lan = lan
  pub6 = pub6
  t1 = t1
  t2 = t2
  Servers = {home}
  Tag <- MCTagAlone
  NoTag = NoTag
  Names = {www, db}
  Ids = {1, 2, 3, 4}
  PageSize = 2
  V4 = {pub1, pub2, lan}
  V6 = {pub6}
  Private = {lan}
  Tunnels = {t1, t2}
  Elsewhere = Elsewhere
  None = None
  IP6Auto = IP6Auto
  Unborn = Unborn
  Deleted = Deleted
  Configs <- AloneConfigs
  Detections <- DetectedOrNot
  InitZones <- AloneZones
  MaxLoads = 2
  MaxFaults = 2
  MaxEdits = 0
CHECK_DEADLOCK FALSE
INVARIANTS
  TypeOK
  CreationIsLegal
  FoundAsListed
PROPERTIES
  PassEnds
  DeclaredSpared
  FulfilledOrNoted
  NoOrphanAfterPrune
  WritesOnlyToSettle
  ReportExact
