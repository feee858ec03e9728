CONSTANTS
  num_pes = 3
  heap_ptr = 3
  heap_size = 31
  ALIGNMENT = 2
  Plans <- MCPlans
  n_pes = 5
  MaxRounds = 3
  Layouts <- MCLayouts
SPECIFICATION MCSpec
INVARIANTS PoolExclusive TeamsAgree AddressUsable HeapTiled InitMeansReady
  IInv CounterExact OpensOnlyWhenAllReach
PROPERTIES ImplementsBarrier EveryoneLeaves AtomicImplementsBarrier AtomicEveryoneLeaves
