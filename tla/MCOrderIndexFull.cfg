SPECIFICATION FairSpec

CONSTANTS
  o1 = o1
  o2 = o2
  o3 = o3
  o4 = o4
  o5 = o5
  kEmpty = kEmpty
  Ids = {o1, o2, o3, o4, o5}
  Hint = 2
  Cap = 4
  MaxLive = 2
  Home <- MCHome

PROPERTY
  EveryCallReturns
