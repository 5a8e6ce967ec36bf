\* Online and offline, with and without compression; two login ticks, two registries.
SPECIFICATION FairSpec
CONSTANTS
  None = None
  Registries = 2
  TickLimit = 2
  Interval = 2
  MaxStrays = 1
CHECK_DEADLOCK FALSE
INVARIANTS
  FramesReadable
  WritesSound
  AnswersConserved
PROPERTIES
  ConnectionEnds
