SPECIFICATION FairSystemSpec
CONSTANTS
  NumQueues = 2
  QUEUE_SIZE = 1
  Handle = {0, 1}
  QueueOf <- OwnQueues
  NumWaves = 3
  WaveSize = 1
  HandleOf <- TwoHandles
  MAX_THREADS_PER_BLOCK = 3
  Cmd = {"PUT_NBI", "QUIET"}
  MaxOps = 1
  MaxCount = 2
  Null = Null
  TestWindow = 1
INVARIANTS ReturnMeansDone QuietReturnsLast
PROPERTIES SystemCallsReturn ImplementsTransport
