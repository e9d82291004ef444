SPECIFICATION Spec
CONSTANTS
  Locks = {l1, l2}
  NIL = NIL
  Uses = {"long"}
  base_node_size = 2
  InitNodeSize = 4
  base_queue_size = 1
  QUEUE_MAX_MALLOC_SIZE = 2
  ResizeAt = 3
  MaxNodes = 5
  MaxNodeIndex = 9
SYMMETRY Symmetry
INVARIANTS NodeIndexed
