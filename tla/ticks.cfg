\* Two chunks of two positions, queues of two ticks, phases of two.
SPECIFICATION Spec
CONSTANTS
  None = None
  Domains = {"block", "fluid"}
  ChunkWidth = 2
  Addresses = {0, 1}
  Types = {0}
  Eligibilities <- SomeEligibilities
  Requests <- SomeRequests
  Loads <- SomeLoads
  Clears <- SomeClears
  Copies <- SomeCopies
  ForeignCopies <- SomeForeign
  Caps = {1, 2}
  MaxChunks = 2
  QueuedPerChunk = 2
  SelectedPerPhase = 2
  AllocationBytes = 6
  ChunkBytes = 1
  DelayHalf = 2
  MaxTime = 1
  MaxOrder = 2
CHECK_DEADLOCK FALSE
INVARIANTS
  QueuesSound
  SaveKeepsOrder
PROPERTIES
  PhaseOrder
