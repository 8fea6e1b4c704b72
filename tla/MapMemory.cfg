CONSTANTS
  Mod = 64
  Ptr = 2
  PageSize = 32
  NCpus = 3
  Attrs <- SomeAttrs
SPECIFICATION Spec
INVARIANTS BlocksFit EnoughBlocks FreesAreLive DestroyedIsFree
  BucketsAreUsed HashOfTheBytes ReadsStayInWords
PROPERTY FailedLeavesBlocks
CHECK_DEADLOCK FALSE
