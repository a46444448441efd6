SPECIFICATION FairSpec
CONSTANTS
  Task = {1, 2, 3}
  Thread = {1, 2, 3, 4}
  Size = 2
  MaxCrashes = 1
  NoTask = NoTask
INVARIANTS
  TypeOK
  NoLostJob
  WorkConserving
  DispatchedOnce
  OneJobPerThread
  CapacityKept
PROPERTIES
  ImplementsService
  EveryJobSettles
CHECK_DEADLOCK FALSE
