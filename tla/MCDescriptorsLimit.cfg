CONSTANTS
  p1 = p1
  p2 = p2
  p3 = p3
  Procs <- MCProcs
  PARENT = PARENT
  Limits = {9, 10}
  MAX_ALIVE = 1
  FAULTS = FALSE
CHECK_DEADLOCK FALSE
SPECIFICATION FairSpec
INVARIANT
  EverybodyStarted
