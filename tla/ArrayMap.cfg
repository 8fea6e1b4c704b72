CONSTANTS
  u1 = u1
  p1 = p1
  p2 = p2
  Mod = 8
  NCpus = 2
  max_entries = 2
  value_size = 2
  Threads <- Three
  Users <- OneUser
  CpuOf <- Pinned
  Keys = {1, 2}
  Values = {v1, v2}
SPECIFICATION Spec
INVARIANTS ArraysOutliveCalls WordsStayInPlace QuietValuesAreWhole
PROPERTY WalkIsComplete
CHECK_DEADLOCK FALSE
