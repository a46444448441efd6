SPECIFICATION Spec
CONSTANTS
  Job = {j1, j2}
  Session = {s1, s2}
  Token = {t1, t2}
  Challenge = {c1}
  MaxFailed = 3
  MaxAttempts = 2
  MaxApi = 1
  MaxPassword = 1
  None = None
  Self = Self
  Other = Other
  Provider = {v}
  Identity = {x1, x2}
  Home <- OneProvider
  State = {f1, f2, f3}
SYMMETRY Interchangeable
INVARIANTS
  SignInSound
  EndedByChange
  LinkedByItsStarter
PROPERTIES
  CounterFallsOnlyByProof
  ImplementsOneTimeUse
CHECK_DEADLOCK FALSE
