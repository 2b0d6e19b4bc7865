\* Two tasks that ask for any size, also negative or huge, and may free pointers
\* twice; a heap of five words.
CONSTANTS
  Task = {1, 2}
  HDR = 1
  HEAP_START = 2
  HEAP_END = 7
  ADDRMOD = 16
  Size <- OddSizes
  Junk <- Whatever
  Careless = TRUE
SPECIFICATION FairSpec
CONSTRAINT Sound
INVARIANTS TypeOK LiveDisjoint UsedMeansHeld
PROPERTIES WalkEnds ServiceSpec
