SPECIFICATION Spec
CONSTANTS
  Leases = {l1, l2}
  RewriteSize = 2
  BufferSize = 1
  FirstIndex = 8
  MaxIndex = 11
  MaxRestarts = 2
SYMMETRY Symmetry
INVARIANTS LoadReturnsWritten OpenFileNotRewritten AppendsToFreshFile
CHECK_DEADLOCK FALSE
