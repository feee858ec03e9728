SPECIFICATION Spec
CONSTANTS
  NumQueues = 1
  QUEUE_SIZE = 2
  Handle = {0, 1}
  QueueOf <- OneQueue
  NumWaves = 2
  WaveSize = 1
  HandleOf <- HandlePerWave
  MAX_THREADS_PER_BLOCK = 4
  Cmd = {"PUT_NBI"}
  MaxOps = 1
  MaxCount = 2
  Null = Null
INVARIANTS EveryCommandPresent
