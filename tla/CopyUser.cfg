CONSTANTS
  NPages = 2
  PageSize = 4
  SZREG = 2
  DUFF = 2
  BLOCK = 2
  MemsetMin = 4
  MemcpyMin = 4
  NFrames = 6
  KSize = 28
  MaxOps = 2
  Calls <- MCCalls
SPECIFICATION MCSpec
INVARIANTS
  ResultIsWhatIsLeft
CHECK_DEADLOCK FALSE
