CONSTANTS
  Block = {1, 2, 3}
  memory_channels = 2
  maximum_num_contexts_ = 2
  slab_size = 7
  WORD = 4
  Scripts <- NoScripts
  grid_size = 2
  block_size = 4
  WARP_SIZE = 3
  Loops <- OddCopying
SPECIFICATION MCSpec
INVARIANT CopyExact
CHECK_DEADLOCK FALSE
