SPECIFICATION CallsSpec

CONSTANTS
  o1 = o1
  o2 = o2
  o3 = o3
  kEmpty = kEmpty
  NoPrice = NoPrice
  Ids = {o1, o2, o3}
  Hint = 2
  Cap = 4
  MaxHeld = 3
  Prices = {1, 2}
  Sizes = {0, 1, 2}
  Home <- MCHome

INVARIANTS
  TypeOK
  LevelsAreSums

PROPERTY
  ImplementsBook
