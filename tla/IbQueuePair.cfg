SPECIFICATION MCSpec
CONSTANTS
  Wave = {1, 2}
  max_nwqe = 4
  cq_size = 4
  max_nb_atomic = 4
  WORD = 64
  Scripts <- Chosen
  Wirings <- ChosenWirings
INVARIANTS
  QuietMeansDone
  FetchesDiffer
  EntryReachesItsPE
PROPERTY
  AllReturn
CHECK_DEADLOCK FALSE
