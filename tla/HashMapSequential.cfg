SPECIFICATION Spec
CONSTANTS
  Writers = {"t1"}
  Readers = {"t1"}
  NCpus = 1
  CpuOf <- SameCpu
  Preemptive = TRUE
  Keys = {"k1", "k2", "k3"}
  ZeroKey = "k1"
  ZeroValue = "v0"
  Updates <- TwoForOne
  Flags <- AllFlags
  HashOf <- TwoChains
  NBuckets = 2
  MaxEntries = 2
INVARIANTS LookupIsExact NextKeyIsExact
PROPERTIES ImplementsMap
