CONSTANTS
  Clients = {c1, c2}
  Maps = {m1, m2}
  Progs = {p1, p2}
  MaxMaps = 2
SPECIFICATION FairSpec
INVARIANTS RefsAreCounted NoUseAfterFree EnvOutlivesObjects
PROPERTIES NoResurrection LastReleaseFrees
