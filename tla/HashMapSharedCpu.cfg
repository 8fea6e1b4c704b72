SPECIFICATION Spec
CONSTANTS
  Writers = {"w1", "w2"}
  Readers = {}
  NCpus = 1
  CpuOf <- SameCpu
  Preemptive = TRUE
  Keys = {"k1", "k2"}
  ZeroKey = "k0"
  ZeroValue = "v0"
  Updates <- OneValue
  Flags <- AnyFlag
  HashOf <- TwoChains
  NBuckets = 2
  MaxEntries = 2
INVARIANTS ExclusiveOwnership
