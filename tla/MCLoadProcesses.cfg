CONSTANTS
  MAX_TOKENS = 9
  MAX_PROCESSES = 4
CHECK_DEADLOCK FALSE
SPECIFICATION Spec
INVARIANT
  LoadedExactly
