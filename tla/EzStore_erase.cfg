\* A loader of full length.
CONSTANTS
  NBLOCK = 4
  SPB = 2
  Reserve <- Reserves
  Layout <- TwoLayouts
  Default <- First
  Image <- Images
  Worn <- NoneOrOne
  MAXFAIL = 1
  BLKADDR <- Blocks
  NORSIZE = 6
  BOOT = 3
  Loader = {2, 3}
  RETRIES = 1
  MAXOPS = 1
  MAXCUT = 1
SPECIFICATION Spec
PROPERTIES ErasesItsSpace
