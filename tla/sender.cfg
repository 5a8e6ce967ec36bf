\* A remote player, two positions, two centres, the slowest and the fastest rate.
SPECIFICATION FairSpec
CONSTANTS
  p1 = p1
  p2 = p2
  None = None
  NaN = NaN
  Positions = {p1, p2}
  Distances <- WestEast
  Size <- Sizes
  Memory = FALSE
  One = 2
  MinRate = 1
  MaxRate = 4
  InitialRate = 4
  Requests = {NaN, 9}
  Window = 2
  MaxPending = 2
  MaxGroups = 2
  MaxBytes = 3
  MaxStrays = 1
CHECK_DEADLOCK FALSE
INVARIANTS
  ClientConverges
  DeliveryBounded
PROPERTIES
  SettledViewArrives
