SPECIFICATION ReplaySpec

CONSTANTS
  kEmpty = kEmpty
  NoPrice = NoPrice
  Ids = {1, 2, 3, 10}
  Hint = 3
  Cap = 8
  MaxHeld = 4
  Prices = {99, 101}
  Mid = 100
  Sizes = {1, 2}
  Sources = {"lobster"}
  MaxAdds = 3
  PreWindow = {10}
  Home <- MCHome

INVARIANT
  PeakIsUpperBound

CHECK_DEADLOCK FALSE
