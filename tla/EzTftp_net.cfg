\* Two downloads of either of two files.
CONSTANTS
  BLOCK = 4
  PAD = 2
  BLKMOD = 4
  File = {1, 2}
  Length <- Lengths
  MAXGET = 2
  MAXPORT = 3
  MAXDUP = 1
SPECIFICATION FairSpec
INVARIANTS TypeOK PrefixStored AcksHonest SuccessComplete
PROPERTIES TransferSpec DownloadEnds
