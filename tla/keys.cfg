SPECIFICATION FairSpec
CONSTANTS
  Org = Org
  Person = {p, q}
  Key = {k1, k2, k3}
  Start = {k1, k2}
  Provider = {x, y}
  Job = {j1, j2}
  Walk = {w1}
  Mix = {"order", "failure"}
  Reply <- MCReply
  Put <- MCPut
  Odd <- MCOdd
  MaxRequests <- MCMaxRequests
  MaxKeys = 2
  MaxAttempts = 2
  BuiltIn = BuiltIn
  None = None
INVARIANTS
  KeysSound
  ReorderedAsAsked
  WalkIsFair
PROPERTY WalkEnds
CHECK_DEADLOCK FALSE
