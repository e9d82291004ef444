SPECIFICATION Spec
CONSTANTS
  Locks = {l1, l2, l3}
  LockIds = {"a", "b", "c"}
  LockInputs <- PersistedLocks
  UnlockInputs <- AllUnlocks
  MaxLocked = 3
  MaxReentry = 2
  MaxWakers = 1
  DistinctWaits = TRUE
  LongTimeouts = FALSE
  LongLeases = TRUE
  NIL = NIL
SYMMETRY Symmetry
INVARIANTS NoPanic
