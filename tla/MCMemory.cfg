CONSTANTS
  EVT_START = 4
  SYS_LIB = 8
  SYS_LIB_END = 12
  USER_BSS = 16
  USER_CONST = 20
  USER_DATA = 24
  USER_TEXT = 28
  USER_HEAP = 32
  USER_HEAP_END = 36
  USER_STACK = 40
  USER_STACK_END = 44
  KERN_DATA = 48
  KERN_TEXT = 52
  KERN_HEAP = 56
  KERN_STACK = 60
  MemTop = 64
  Data = {"d"}
  MaxAccess = 2
SPECIFICATION Spec
INVARIANTS TypeOK StoreVerdict LoadVerdict FetchIsCode WordReadBack
PROPERTY WriteContained
CHECK_DEADLOCK FALSE
