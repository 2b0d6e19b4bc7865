\* Three commands, a power failure, a failing operation, a bad block or none.
CONSTANTS
  NBLOCK = 4
  SPB = 2
  Reserve <- Reserves
  Layout <- TwoLayouts
  Default <- First
  Image <- Images
  Worn <- NoneOrOne
  MAXFAIL = 1
  BLKADDR <- Blocks
  NORSIZE = 6
  BOOT = 3
  Loader = {2, 3}
  RETRIES = 1
  MAXOPS = 3
  MAXCUT = 1
SPECIFICATION FairSpec
INVARIANTS TypeOK ImageLoads LayoutKept
PROPERTIES StoresApart BadSpared CommandsEnd
