SPECIFICATION Spec

CONSTANTS
  Backends = {"linux", "apple"}
  MaxWork = 3
  MaxObjects = 2

PROPERTY
  AttributesExactly

CHECK_DEADLOCK FALSE
