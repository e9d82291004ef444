SPECIFICATION Spec
CONSTANTS
  Locks = {l1, l2, l3}
  NIL = NIL
  Uses = {"fifo", "pool", "wheel", "milli", "long"}
  base_node_size = 2
  InitNodeSize = 5
  base_queue_size = 1
  QUEUE_MAX_MALLOC_SIZE = 2
  ResizeAt = 3
  MaxNodes = 6
  MaxNodeIndex = 4
SYMMETRY Symmetry
PROPERTY ImplementsDeque
INVARIANTS InRange ShortQueueInv LongIndexed
