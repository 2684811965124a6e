CONSTANTS
  Nodes = {n1, n2, n3, n4}
  NULL = NULL
  Data = {1, 2, 3, 4}
  Key <- MCKey
CHECK_DEADLOCK FALSE
SPECIFICATION Spec
INVARIANTS
  TypeOK
  LinksAgree
PROPERTIES
  ImplementsSequence
