\* Four jobs of the three control groups, two workers; slots, bytes and residents all bind.
SPECIFICATION Spec
CONSTANTS
  w1 = w1
  w2 = w2
  j1 = j1
  j2 = j2
  j3 = j3
  j4 = j4
  NoJob = NoJob
  Workers = {w1, w2}
  Jobs = {j1, j2, j3, j4}
  Kind <- KindMixed
  Bytes <- SizeMixed
  ResidentBytes <- OneEach
  MaxResident <- Residents
  MaxJobs = 2
  BufferBytes = 4
SYMMETRY WorkerSymmetry
CHECK_DEADLOCK FALSE
INVARIANTS
  PoolInv
  AccountingExact
  ChargedWhileOwned
  CapacityBound
  DrainedOnExit
PROPERTIES
  CancelSuppresses
