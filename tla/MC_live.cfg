SPECIFICATION WakeSpec
CONSTANTS
  Locks = {l1, l2}
  LockIds = {"a", "b"}
  LockInputs <- RenewingLocks
  UnlockInputs <- RenewingUnlocks
  MaxLocked = 3
  MaxReentry = 2
  MaxWakers = 2
  DistinctWaits = TRUE
  LongTimeouts = TRUE
  LongLeases = TRUE
  NIL = NIL
PROPERTIES AdmissibleIsGranted WaitsEnd LeasesEnd
