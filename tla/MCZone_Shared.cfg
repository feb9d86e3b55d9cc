SPECIFICATION Spec
CONSTANTS
  home = home
  office = office
  tagHome = tagHome
  tagOffice = tagOffice
  www = www
  db = db
  pub1 = pub1
  pub2 = pub2
  lan = lan
  pub6 = pub6
  t1 = t1
  t2 = t2
  Servers = {home, office}
  Tag <- MCTag
  NoTag = NoTag
  Names = {www, db}
  Ids = {1, 2, 3, 4}
  PageSize = 2
  V4 = {pub1, pub2, lan}
  V6 = {pub6}
  Private = {lan}
  Tunnels = {t1, t2}
  Elsewhere = Elsewhere
  None = None
  IP6Auto = IP6Auto
  Unborn = Unborn
  Deleted = Deleted
  Configs <- SharedConfigs
  Detections <- DetectedOnly
  InitZones <- SharedZones
  MaxLoads = 3
  MaxFaults = 1
  MaxEdits = 1
CHECK_DEADLOCK FALSE
PROPERTIES
  OwnershipRespected
  ImplementsProtocol
