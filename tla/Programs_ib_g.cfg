SPECIFICATION Spec
CONSTANTS
  num_pes = 4
  INT_WIDTH = 8
  SIZE_MAX = 255
  MIN_WRKDATA_SIZE = 6
  REDUCE_SYNC_SIZE = 8
  BARRIER_SYNC_SIZE = 4
  ATA_MAX_WRKDATA_SIZE = 4
  MAX_ATA_BUFF_SIZE = 9
  MAX_CHUNK = 4
  ATOMIC_FROM = 4
  A2A_HEURISTICS = TRUE
  A2A_GCEN_PES = 8
  A2A_GCEN_SIZE = 2
  MPI_MAX = 2
  Scripts <- GpuIbG
  Net <- MCNet
  Code <- MCCode
  Memory <- MCMemory
INVARIANT ResultExact
CHECK_DEADLOCK FALSE
