\* Two sections of two chunks, one cache place, two pool slots; the owner keeps driving.
SPECIFICATION FairSpec
CONSTANTS
  c1 = c1
  c2 = c2
  s1 = s1
  s2 = s2
  None = None
  Chunks = {c1, c2}
  Sections = {s1, s2}
  ChunkOf <- Apart
  Contents = {"x", "y"}
  Sizes = {1, 2}
  MaxChunks = 2
  MaxSections = 2
  MaxPending = 2
  MaxCached = 1
  HeapLimit = 3
  PoolSlots = 2
  MaxGeneration = 2
  MaxRevision = 3
  MaxEpoch = 1
CHECK_DEADLOCK FALSE
INVARIANTS
  CachedIsCurrent
  BookkeepingExact
  WorkCoalesces
PROPERTIES
  RequestsServed
