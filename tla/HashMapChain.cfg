SPECIFICATION Spec
CONSTANTS
  Writers = {"w1", "w2"}
  Readers = {}
  NCpus = 1
  CpuOf <- SameCpu
  Preemptive = FALSE
  Keys = {"k1", "k2"}
  ZeroKey = "k0"
  ZeroValue = "v0"
  Updates <- OneValue
  Flags <- AnyFlag
  HashOf <- OneChain
  NBuckets = 1
  MaxEntries = 2
INVARIANTS OneElementPerKey LinksFollowLists LinksEnd DeinitIsSafe
