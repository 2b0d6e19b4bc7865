\* One task, memory that reads as zero, and a second request after a failed one.
CONSTANTS
  Task = {1}
  HDR = 1
  HEAP_START = 2
  HEAP_END = 6
  ADDRMOD = 16
  Size = {1, 2}
  Junk <- Zeroed
  Careless = FALSE
SPECIFICATION FairSpec
PROPERTIES MallocReturns
