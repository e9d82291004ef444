SPECIFICATION Spec
CONSTANTS
  Locks = {l1, l2, l3}
  LockIds = {"a", "b"}
  LockInputs <- ExclusiveLocks
  UnlockInputs <- ExclusiveUnlocks
  MaxLocked = 3
  MaxReentry = 2
  MaxWakers = 2
  DistinctWaits = TRUE
  LongTimeouts = TRUE
  LongLeases = TRUE
  NIL = NIL
SYMMETRY Symmetry
INVARIANTS TypeOK RefsCounted PoolClean ManagerRemovedClean LockedCounted NoLostWakeUp
PROPERTIES AnsweredOnce
