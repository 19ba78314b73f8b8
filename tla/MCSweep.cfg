SPECIFICATION Spec

CONSTANTS
  NoPrice = 0
  Snapshots <- MCSnapshots
  Depths <- MCDepths
  Variants = 4
  Lookups = 2
  Offsets = {0, 1, 2, 3}
  Mid = 100
  Sizes = {1, 2}
  Cycles = {1, 2}
  NoReading = NoReading

INVARIANTS
  EveryTargetRests
  RealRowsAreReal
  CheapestIsLeast

PROPERTY
  AppendsOnly

CHECK_DEADLOCK FALSE
