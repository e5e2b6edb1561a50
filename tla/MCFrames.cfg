SPECIFICATION Spec
CONSTANTS
  PAGE_SIZE = 4
  TOTAL_PAGES = 12
  KERNEL_BASE = 16
  BITMAP_ADDR = 20
  BOOT_TABLES = {1, 2}
  HEAP_FRAMES = {8, 9, 10}
INVARIANTS TypeOK CountersAgree UsedIsHeld BitmapNotGranted
PROPERTY AllocatorSpec
