SPECIFICATION UsageFairSpec
CONSTANTS
  Requests = 4
  MaxBuffered = 3
  BatchSize = 2
  Signal = {term, int}
  MaxFailures = 1
INVARIANTS
  UsageSound
  DrainedUnlessOverlapped
PROPERTY EntriesLeave
CHECK_DEADLOCK FALSE
