SPECIFICATION FairSpec
CONSTANTS
  Tasks = {1, 2, 3}
  Patches <- AnyPatches
  Executors = {"e1"}
  MaxWorkers = 2
  Stops = {NoStop}
  NoStop = NoStop
  SoundPlanner = FALSE
  MaxCalls = 2
  MaxCancels = 1
  MaxCrashes = 1
INVARIANTS
  RefusedPatchLeavesEvent
PROPERTIES
  RunEnds
CHECK_DEADLOCK FALSE
