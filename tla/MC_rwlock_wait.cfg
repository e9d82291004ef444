SPECIFICATION Spec
CONSTANTS
  Locks = {l1, l2, l3, l4}
  LockIds = {"w", "r", "s"}
  LockInputs <- ReadWriteLocks
  UnlockInputs <- ReadWriteUnlocks
  MaxLocked = 3
  MaxReentry = 2
  MaxWakers = 1
  DistinctWaits = TRUE
  LongTimeouts = FALSE
  LongLeases = FALSE
  NIL = NIL
SYMMETRY Symmetry
INVARIANTS NoLostWakeUp
