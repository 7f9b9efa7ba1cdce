SPECIFICATION Spec
CONSTANTS
  Tasks = {1, 2, 3}
  Patches <- MCPatches
  Executors = {"e1"}
  MaxWorkers = 2
  Stops = {1, 2, NoStop}
  NoStop = NoStop
  SoundPlanner = TRUE
  MaxCalls = 3
  MaxCancels = 1
  MaxCrashes = 2
INVARIANTS
  RunningIsInFlight
  OneEventBehind
  ReturnIsClean
  NeverRaises
  CancelledNeverStarts
CHECK_DEADLOCK FALSE
