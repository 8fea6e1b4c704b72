SPECIFICATION LivenessSpec
CONSTANTS
  Writers = {"w1", "w2"}
  Readers = {"w1"}
  NCpus = 2
  CpuOf <- OwnCpu
  Preemptive = TRUE
  Keys = {"k1", "k2"}
  ZeroKey = "k1"
  ZeroValue = "v0"
  Updates <- OneValue
  Flags <- InsertOrReplace
  HashOf <- TwoChains
  NBuckets = 2
  MaxEntries = 1

PROPERTIES DestroyCompletes LocksAreReleased
\* A destroyed map stops; that nothing stops before is what the properties say.
CHECK_DEADLOCK FALSE
