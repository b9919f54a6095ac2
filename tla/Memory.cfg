CONSTANTS
  Requests = {1, 2, 3, 5, 8, 13, 19}
  UINT_RANGE = 16
  blockQty = 7
  BLOCK_SIZE = 2
  HEAP_SIZE = 11
  MIN_ORDER = 1
  HEADER = 1
SPECIFICATION Spec
INVARIANTS Consistent BuddiesMerge
PROPERTIES RoomForRequest ImplementsAllocator
