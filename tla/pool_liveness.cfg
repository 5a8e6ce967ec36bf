\* Two jobs, two workers, no symmetry (liveness): fair workers, free clients.
SPECIFICATION FairSpec
CONSTANTS
  w1 = w1
  w2 = w2
  j1 = j1
  j2 = j2
  j3 = j3
  j4 = j4
  NoJob = NoJob
  Workers = {w1, w2}
  Jobs = {j1, j2}
  Kind <- KindTwo
  Bytes <- SizeTwo
  ResidentBytes <- SizeTwo
  MaxResident <- Residents
  MaxJobs = 2
  BufferBytes = 2
CHECK_DEADLOCK FALSE
PROPERTIES
  PoolProgress
