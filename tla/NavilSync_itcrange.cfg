\* Message numbers beyond ITCEND.
CONSTANTS
  MAXMSG = 6
  ITCSTART = 0
  ITCEND = 1
  SEMSTART = 2
  SEMEND = 3
  MUTEXSTART = 4
  MUTEXEND = 5
  NTASKS = 2
  Program <- WideProgram
  SEMNUM = 1
  SEMVALUE = 2
  MAXSLEEP = 1
  MAXEXTRA = 0
  MINSLICE = 0
SPECIFICATION FairSpec
PROPERTIES ItcInRange
