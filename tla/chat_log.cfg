SPECIFICATION FairSpec
CONSTANTS
  Turn = {a, b, c}
  Session = {s, r}
  Capacity = 2
  MaxFailures = 2
  NoTurn = NoTurn
INVARIANTS
  LogSound
  OrderKept
  NothingLostByFailures
PROPERTY EveryTurnIsWritten
CHECK_DEADLOCK FALSE
