CONSTANTS
  NULL = NULL
  Procs <- MCProcs
  Rank <- MCRank
  INIT_SIZE = 2
SPECIFICATION Spec
INVARIANTS
  TypeOK
  HeapOrder
PROPERTY
  ImplementsPriorityQueue
