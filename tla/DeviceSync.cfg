CONSTANTS
  Block = {1, 2, 3}
  memory_channels = 2
  maximum_num_contexts_ = 2
  slab_size = 7
  WORD = 4
  Scripts <- MCScripts
  grid_size = 2
  block_size = 4
  WARP_SIZE = 3
  Loops <- MCLoops
SPECIFICATION MCSpec
INVARIANTS MutualExclusion ContextsConserved SlabsDisjoint RoundsTogether
  EachIndexOnce CopyExact MessagesExact
PROPERTY AllReturn
CHECK_DEADLOCK FALSE
