\* Two addresses, two reads, one permit and one decode slot, two generations, one reload.
SPECIFICATION FairSpec
CONSTANTS
  a1 = a1
  a2 = a2
  r1 = r1
  r2 = r2
  None = None
  Addresses = {a1, a2}
  Contexts = {c1}
  Reads = {r1, r2}
  Drafts <- TwoDrafts
  Revisions = {1, 2}
  MaxChunks = 2
  SlotsCharge = 2
  MetadataLimit = 5
  ResidentLimit = 3
  Permits = 1
  CpuSlots = 1
  MaxGeneration = 2
  MaxEpoch = 1
CHECK_DEADLOCK FALSE
INVARIANTS
  LoadingAccounting
  NothingStale
PROPERTIES
  AbandonedReadEnds
