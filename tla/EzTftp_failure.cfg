\* One download, one repeated request.
CONSTANTS
  BLOCK = 4
  PAD = 2
  BLKMOD = 4
  File = {1, 2}
  Length <- Lengths
  MAXGET = 1
  MAXPORT = 2
  MAXDUP = 1
SPECIFICATION Spec
PROPERTIES FailureStops
