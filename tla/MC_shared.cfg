SPECIFICATION Spec
CONSTANTS
  Locks = {l1, l2, l3}
  LockIds = {"w", "r", "s"}
  LockInputs <- ReadWriteLocks
  UnlockInputs <- ReadWriteUnlocks
  MaxLocked = 3
  MaxReentry = 2
  MaxWakers = 2
  DistinctWaits = TRUE
  LongTimeouts = TRUE
  LongLeases = FALSE
  NIL = NIL
SYMMETRY Symmetry
INVARIANTS SafetyInv WriterAlone HolderReachable
PROPERTIES GrantsInOrder
