CONSTANTS
  p1 = p1
  p2 = p2
  p3 = p3
  NULL = NULL
  Procs <- MCProcs
  Nodes <- MCNodes
  MEM_CAPACITY = 7
  Requirements <- MCRequirements
SYMMETRY MCSymmetry
SPECIFICATION Spec
INVARIANTS
  TypeOK
  ListInAddressOrder
  BlocksPartitionMemory
  BlocksOwned
  HoleListExact
  Coalesced
PROPERTY
  ImplementsAddressSpace
