SPECIFICATION Spec
CONSTANTS
  Writers = {"w1", "w2"}
  Readers = {}
  NCpus = 2
  CpuOf <- OwnCpu
  Preemptive = FALSE
  Keys = {"k1", "k2"}
  ZeroKey = "k0"
  ZeroValue = "v0"
  Updates <- ByKey
  Flags <- AnyFlag
  HashOf <- TwoChains
  NBuckets = 2
  MaxEntries = 1
INVARIANTS ExclusiveOwnership OwnershipInv NothingLost
PROPERTIES LinkedBlocksAreNotWritten ImplementsMap
