SPECIFICATION Spec
CONSTANTS
  Person = {a, b, c}
  Request = {r1, r2}
  NoPerson = NoPerson
  Job = {j1, j2}
  Project = {p, q}
  Name = {m, n}
  Provider = {x, y}
  x = x
  y = y
  x1 = x1
  x2 = x2
  y1 = y1
  Models <- MCModels
  DefaultModel <- MCDefaultModel
  Format = {f}
  MaxFormats = 1
  Lang = {t, u}
  NoRow = NoRow
SYMMETRY Interchangeable
CHECK_DEADLOCK FALSE
INVARIANT OwnerKept
