CONSTANTS
  k1 = k1
  k2 = k2
  k3 = k3
  u1 = u1
  p1 = p1
  Keys = {k1, k2, k3}
  Blocks = {b1, b2}
  Bucket <- Buckets2
  NCpus = 2
  Threads = {u1, p1}
  Users = {u1}
  CpuOf <- Pinned
SPECIFICATION MCSpec
INVARIANTS WrittenValuesAreOwn FoundStaysInPlace BlocksInOnePlace
PROPERTY LocksAreGivenBack
