SPECIFICATION Spec
CONSTANTS
  Tasks = {1, 2}
  Patches <- FewPatches
  Executors = {"e1", "e2"}
  MaxWorkers = 2
  Stops = {NoStop}
  NoStop = NoStop
  SoundPlanner = TRUE
  MaxCalls = 3
  MaxCancels = 1
  MaxCrashes = 1
INVARIANTS
  RunningIsHeld
PROPERTIES
  StoreSpec
CHECK_DEADLOCK FALSE
