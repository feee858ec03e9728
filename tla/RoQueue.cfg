SPECIFICATION Spec
CONSTANTS
  NumQueues = 1
  QUEUE_SIZE = 2
  Handle = {0}
  QueueOf <- OneQueue
  NumWaves = 2
  WaveSize = 2
  HandleOf <- OneHandle
  MAX_THREADS_PER_BLOCK = 4
  Cmd = {"PUT"}
  MaxOps = 2
  MaxCount = 2
  Null = Null
INVARIANTS IInv BlockingReturn
PROPERTIES NoOverwrite ImplementsFifo
