SPECIFICATION Spec
CONSTANTS
  home = home
  office = office
  tagHome = tagHome
  tagOffice = tagOffice
  www = www
  db = db
  pub1 = pub1
  pub2 = pub2
  lan = lan
  pub6 = pub6
  t1 = t1
  t2 = t2
  Servers = {home}
  Tag <- MCTagAlone
  NoTag = NoTag
  Names = {www, db}
  Ids = {1, 2, 3, 4}
  PageSize = 3
  V4 = {pub1, pub2, lan}
  V6 = {pub6}
  Private = {lan}
  Tunnels = {t1, t2}
  Elsewhere = Elsewhere
  None = None
  IP6Auto = IP6Auto
  Unborn = Unborn
  Deleted = Deleted
  Configs <- RevertConfigs
  Detections <- DetectedOnly
  InitZones <- RevertZones
  MaxLoads = 1
  MaxFaults = 1
  MaxEdits = 0
CHECK_DEADLOCK FALSE
PROPERTIES
  PruneNeverEmptiesAHost
