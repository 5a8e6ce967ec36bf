\* Two addresses, one read, two lighting jobs, one reload into another sky mode.
SPECIFICATION LightingSpec
CONSTANTS
  a1 = a1
  a2 = a2
  o1 = o1
  o2 = o2
  sunny = sunny
  dark = dark
  None = None
  Addresses = {a1, a2}
  Contexts = {sunny, dark}
  Reads = {r1}
  Drafts <- OneDraft
  Revisions = {1, 2, 3, 4, 5}
  MaxChunks = 2
  SlotsCharge = 1
  MetadataLimit = 3
  ResidentLimit = 3
  Permits = 1
  CpuSlots = 1
  MaxGeneration = 2
  MaxEpoch = 1
  Works = {o1, o2}
  Stamps = {1, 2, 3, 4}
  HasSky <- SkyOf
SYMMETRY Symmetries
CHECK_DEADLOCK FALSE
INVARIANTS
  LightIsCurrent
  LightingAccounting
PROPERTIES
  ChangesFenced
