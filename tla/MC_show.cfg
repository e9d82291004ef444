SPECIFICATION Spec
CONSTANTS
  Locks = {l1, l2}
  LockIds = {"a", "b"}
  LockInputs <- ShowLocks
  UnlockInputs <- AllUnlocks
  MaxLocked = 3
  MaxReentry = 2
  MaxWakers = 1
  DistinctWaits = TRUE
  LongTimeouts = FALSE
  LongLeases = FALSE
  NIL = NIL
SYMMETRY Symmetry
INVARIANTS NoPanic
