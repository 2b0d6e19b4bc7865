\* Two tasks, any driver call with any number: the driver, an unassigned entry,
\* the entry behind the table, and one out of range.
CONSTANTS
  Task = {1, 2}
  DRVLIMIT = 2
  Number = {0, 1, 2, 3}
  MAXOPEN = 2
  MAXEXTRA = 2
  MAXPUSH = 3
SPECIFICATION FairSpec
INVARIANTS TypeOK WildOnlyUnopened UseCountMatches PushesConserved
PROPERTIES ReaderServed
CHECK_DEADLOCK FALSE
