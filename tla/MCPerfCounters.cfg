SPECIFICATION Spec

CONSTANTS
  Backends = {"linux", "apple"}
  MaxWork = 3
  MaxObjects = 2

INVARIANTS
  AllOrNothing
  NothingElseOutlives
  ReleasedInOrder

PROPERTY
  ReadingIsInterval

CHECK_DEADLOCK FALSE
