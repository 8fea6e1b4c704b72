CONSTANTS
  B = 1
  Families <- SomePrograms
  CtxBase = 8
  CtxSize = 8
  StackBase = 24
  EBPF_STACK_SIZE = 8
  HelperResults = {0, 200}
SPECIFICATION Spec
INVARIANT LoadsSeeStores
PROPERTY UpperHalfClear
CHECK_DEADLOCK FALSE
