CONSTANTS
  Elem = {p1, p2, p3}
  NULL = NULL
  Sizes <- MCSizes
  Key <- ClassKey
  Hash <- ClassHash
  Match <- ClassMatch
SPECIFICATION Spec
PROPERTIES ImplementsDictionary
CHECK_DEADLOCK FALSE
