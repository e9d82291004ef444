SPECIFICATION Spec
CONSTANTS
  Locks = {l1, l2}
  LockIds = {"a"}
  LockInputs <- ReentrantLocks
  UnlockInputs <- ReentrantUnlocks
  MaxLocked = 3
  MaxReentry = 2
  MaxWakers = 1
  DistinctWaits = TRUE
  LongTimeouts = FALSE
  LongLeases = FALSE
  NIL = NIL
SYMMETRY Symmetry
INVARIANTS AofMatchesHolders
