CONSTANTS
  p1 = p1
  p2 = p2
  p3 = p3
  Procs <- MCProcs
  PARENT = PARENT
  Limits = {10, 12}
  MAX_ALIVE = 3
  FAULTS = TRUE
CHECK_DEADLOCK FALSE
SPECIFICATION FairSpec
INVARIANTS
  TypeOK
  DeathIsSeen
PROPERTIES
  ParentGoesOn
