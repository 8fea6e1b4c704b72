SPECIFICATION Spec
CONSTANTS
  Writers = {"w1"}
  Readers = {"r1"}
  NCpus = 1
  CpuOf <- SameCpu
  Preemptive = TRUE
  Keys = {"k1", "k2"}
  ZeroKey = "k1"
  ZeroValue = "k1"
  Updates <- ByKey
  Flags <- AnyFlag
  HashOf <- OneChain
  NBuckets = 2
  MaxEntries = 2

INVARIANTS LookupReturnsItsKeysValue
