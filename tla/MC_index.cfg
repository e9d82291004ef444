SPECIFICATION Spec
CONSTANTS
  Keys = {k1, k2}
  Managers = {m1, m2, m3}
  Goroutines = {g1, g2}
  NIL = NIL
SYMMETRY Symmetry
INVARIANTS KeyHeldOnce HolderFound ManagersCounted
CHECK_DEADLOCK FALSE
