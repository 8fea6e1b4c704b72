CONSTANTS
  Threads = {a, b, c}
  Readers = {a, c}
  Waiters = {a, b}
  MaxDepth = 2
  MaxEpoch = 1
SPECIFICATION FairSpec
INVARIANT SectionsLagByOne
PROPERTIES ImplementsEpoch WaitReturns
CHECK_DEADLOCK FALSE
