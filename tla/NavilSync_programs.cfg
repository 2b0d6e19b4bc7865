\* The calls of user_task_2 to user_task_8 of source/chap16 in three tasks.
CONSTANTS
  MAXMSG = 6
  ITCSTART = 0
  ITCEND = 1
  SEMSTART = 2
  SEMEND = 3
  MUTEXSTART = 4
  MUTEXEND = 5
  NTASKS = 3
  Program <- UserProgram
  SEMNUM = 1
  SEMVALUE = 2
  MAXSLEEP = 3
  MAXEXTRA = 0
  MINSLICE = 12
SPECIFICATION FairSpec
INVARIANTS SemBound
PROPERTIES CallsReturn
