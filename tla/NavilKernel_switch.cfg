\* Up to three tasks, and two creates more than the pool and the blocks hold.
CONSTANTS
  MAXTASKNUM = 3
  MAXMEMBLK = 3
  MAXCREATE = 5
  Val = {0, 1}
  SYS_CALLSCHED = 255
  TICKMOD = 2
SPECIFICATION FairSpec
INVARIANTS TypeOK StacksDisjoint MainSetAside
PROPERTIES VirtualCPUSpec EveryTaskRuns
