SPECIFICATION Spec
CONSTANTS
  HEAP_START = 8
  HEAP_SIZE = 160
  HDR = 24
  HEAP_MIN_BLOCK = 32
  ALIGN = 8
  SIZE_MOD = 1024
  Sizes <- MixedSizes
  Counts = {}
INVARIANT ReportedSizeIsGranted
