\* Six positions, seven heap entries, five index keys, four identities, a column
\* of five sections, views in a world 24 chunks wide, twelve blocks.
SPECIFICATION TablesSpec
CONSTANTS
  Keys = {1, 2, 3, 4, 5, 6}
  Hashes <- SomeHashes
  Limit = 6
  InitialBuckets = 4
  Centers <- SomeCenters
  Counts = {1, 2, 3}
  Factors = {1, 3}
  MinDistance <- Lowest
  HeapEntries <- SomeEntries
  HeapLimit = 7
  IndexKeys = {1, 2, 3, 4, 5}
  IndexMixes <- SomeMixes
  Times <- SomeTimes
  MaxKeys = 6
  InitialCapacity = 4
  NoEntry = NoEntry
  Idents = {1, 2, 3, 4}
  IdentHashes <- SomeIdentHashes
  IdentLimit = 4
  NoIdent = NoIdent
  DataSections = {1, 3}
  QueuedLayers <- SomeLayers
  LayerLimit = 7
  MaxSections = 5
  MaxNotices = 6
  MaxCalls = 6
  Half = 12
  MIN_VIEW_DISTANCE = 2
  MAX_VIEW_DISTANCE = 4
  ServerDistances <- ViewRequests
  ClientDistances <- ViewRequests
  ViewCenters <- SomeViewCenters
  NoView = NoView
  Columns = 3
  SectionSize = 2
  SectionCount = 2
  MinSection <- Below
  WordBits = 8
  StateFlags <- SomeFlags
  Air = "air"
  Terrains <- SomeTerrains
  StoredArrays <- SomeArrays
  AllocationLimit = 10
  MaxEdits = 2
  Unloaded = Unloaded
CHECK_DEADLOCK FALSE
INVARIANTS
  SelectionSound
  TickTablesSound
  StorageExact
  ViewExact
  HeightsExact
PROPERTIES
  ImplementsSet
  ReadersServed
  SupportKeepsLight
