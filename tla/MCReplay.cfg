SPECIFICATION ReplaySpec

CONSTANTS
  kEmpty = kEmpty
  NoPrice = NoPrice
  Ids = {1, 2, 3, 10}
  Hint = 3
  Cap = 8
  MaxHeld = 4
  Prices = {99, 101}
  Mid = 100
  Sizes = {0, 1, 2, 3}
  Sources = {"synthetic", "lobster"}
  MaxAdds = 3
  PreWindow = {10}
  Home <- MCHome

INVARIANTS
  ExactUntilMissed
  NeverUnderstates
  MeasuredIsWarm
  SyntheticPeak

CHECK_DEADLOCK FALSE
