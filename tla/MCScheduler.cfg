CONSTANTS
  NULL = NULL
  Procs <- MCProcs
  MEM_CAPACITY = 5
  TIME_MODULUS = 64
  Args <- MCArgs
  Workloads <- MCWorkloads
SPECIFICATION Spec
INVARIANTS
  TypeOK
  InOnePlace
  ChildrenFollowQueues
  MemoryFollowsQueues
  NoFittingProcessWaits
  WorkConserving
  CrashOnlyAtStart
PROPERTIES
  ArrivalsInTime
  SJFIsNotPreemptive
  RRIsFair
