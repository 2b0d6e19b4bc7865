\* source/chap16's proportions, more stack blocks than TCBs: creates past both,
\* and a switch that may be pushed at any time.
CONSTANTS
  MAXTASKNUM = 2
  MAXMEMBLK = 3
  MAXCREATE = 5
  Val = {0, 1}
  SYS_CALLSCHED = 255
  TICKMOD = 2
SPECIFICATION IrqSpec
INVARIANTS WildOnlyPastCapacity TaskIsCurrent StartsOnce
PROPERTIES VirtualCPUKept
