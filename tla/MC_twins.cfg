SPECIFICATION Spec
CONSTANTS
  Locks = {l1, l2, l3, l4}
  LockIds = {"w", "r", "s"}
  LockInputs <- ReadWriteLocks
  UnlockInputs <- ReadWriteUnlocks
  MaxLocked = 3
  MaxReentry = 2
  MaxWakers = 1
  DistinctWaits = FALSE
  LongTimeouts = FALSE
  LongLeases = FALSE
  NIL = NIL
SYMMETRY Symmetry
INVARIANTS HolderReachable
