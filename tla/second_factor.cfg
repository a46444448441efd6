SPECIFICATION Spec
CONSTANTS
  Job = {j1, j2}
  Secret = {k1, k2}
  Sheet = {s1, s2}
  Position = {p1, p2}
  MaxStep = 4
  Window = 1
  None = None
SYMMETRY Interchangeable
INVARIANTS
  FactorSound
  CodesAcceptedOnce
CHECK_DEADLOCK FALSE
