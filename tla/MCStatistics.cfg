CONSTANTS
  NULL = NULL
  Procs = {1, 2, 3, 4}
  MEM_CAPACITY = 8
  TIME_MODULUS = 300
  Args <- MCArgs
  Workloads <- MCWorkloads
  Transcripts <- MCTranscripts
SPECIFICATION FairSpec
INVARIANT
  TranscriptAsExpected
PROPERTIES
  FittingProcessesFinish
  Terminates
