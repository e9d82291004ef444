SPECIFICATION Spec
CONSTANTS
  Locks = {l1, l2, l3}
  LockIds = {"a", "b"}
  LockInputs <- HolderLocks
  UnlockInputs <- HolderUnlocks
  MaxLocked = 3
  MaxReentry = 2
  MaxWakers = 2
  DistinctWaits = TRUE
  LongTimeouts = FALSE
  LongLeases = FALSE
  NIL = NIL
SYMMETRY Symmetry
CHECK_DEADLOCK FALSE
INVARIANTS AofMatchesHolders
