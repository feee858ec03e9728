SPECIFICATION Spec
CONSTANTS
  NumQueues = 2
  MAX_THREADS_PER_BLOCK = 2
  Addr <- AllBytes
  Cmd = {"PUT", "PUT_NBI", "CLUSTER_BARRIER", "AMO_FOP", "QUIET", "ALLTOALL_MPI"}
  TestWindow = 2
  MaxIssued = 3
INVARIANTS QuietHasReason QuietMeansDone EveryRequestAccounted
