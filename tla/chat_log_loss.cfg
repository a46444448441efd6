SPECIFICATION Spec
CONSTANTS
  Turn = {a, b}
  Session = {s}
  Capacity = 1
  MaxFailures = 0
  NoTurn = NoTurn
INVARIANT NeverLostQuietly
CHECK_DEADLOCK FALSE
