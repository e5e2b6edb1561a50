SPECIFICATION Spec
CONSTANTS
  HEAP_START = 8
  HEAP_SIZE = 136
  HDR = 24
  HEAP_MIN_BLOCK = 32
  ALIGN = 8
  SIZE_MOD = 1024
  Sizes <- MixedSizes
  Counts = {2}
INVARIANTS TypeOK HeapTiled UsedIsHeld PayloadsAligned CoversRequest FillStaysInside
PROPERTY AllocatorSpec
