SPECIFICATION FairCallsSpec

CONSTANTS
  o1 = o1
  o2 = o2
  o3 = o3
  o4 = o4
  o5 = o5
  kEmpty = kEmpty
  Ids = {o1, o2, o3, o4}
  Hint = 4
  Cap = 8
  MaxLive = 4
  Home <- MCHome

INVARIANTS
  TypeOK
  OneSlotEach
  LiveKept
  SizeCounts
  IntactFindable

PROPERTIES
  FindIsExact
  InsertKeepsFindable
  ShiftGoesRound
  ImplementsDegradedMap
  LoopsComputeCalls
  EveryCallReturns
