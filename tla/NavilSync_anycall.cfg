\* Two tasks that make any call at any time, interrupted anywhere.
CONSTANTS
  MAXMSG = 6
  ITCSTART = 0
  ITCEND = 1
  SEMSTART = 2
  SEMEND = 3
  MUTEXSTART = 4
  MUTEXEND = 5
  NTASKS = 2
  Program <- AnyProgram
  SEMNUM = 1
  SEMVALUE = 1
  MAXSLEEP = 2
  MAXEXTRA = 1
  MINSLICE = 0
SPECIFICATION Spec
INVARIANTS TypeOK MutexOwnership MutualExclusion SemConserved SleepNotEarly
PROPERTIES ServiceSpec SelfWaitsForever
