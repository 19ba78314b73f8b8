SPECIFICATION Spec

CONSTANTS
  kEmpty = kEmpty
  NoPrice = NoPrice
  Ids = {o1, o2, o3}
  Hint = 2
  Cap = 4
  MaxHeld = 3
  Prices = {1, 2, 3}
  Sizes = {0, 1}
  Searches = {"linear", "lower_bound", "branchless"}
  Home <- MCHome

SYMMETRY
  MCSymmetry

INVARIANTS
  Sorted
  SearchesAreShort
  SearchInBounds
  LocateIsExact
  SameReads

PROPERTY
  ImplementsBookMap
