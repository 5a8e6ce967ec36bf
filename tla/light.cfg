\* Three chunks, three section rows; queues that must grow; one edit or restoration.
SPECIFICATION FairSpec
CONSTANTS
  NoCursor = NoCursor
  NoBlock = NoBlock
  Side = 2
  Chunks = {0, 1, 2}
  MinSection = 0
  MaxSection = 2
  Material <- MCMaterial
  Halves = {1, 2}
  BlockQueue = 2
  MaxQueue = 64
  SkyQueue = 4
  SkyPlan = 4
  MaxSkyQueue = 64
  MaxSkyPlan = 64
  Worlds <- MCWorlds
  EditMaterials = {"air", "lamp", "bedrock", "slab"}
  Saves <- MCSaves
  MaxTurns = 1
CHECK_DEADLOCK FALSE
INVARIANTS
  LightSound
PROPERTIES
  WorkEnds
