SPECIFICATION Spec
CONSTANTS
  Tasks = {1, 2}
  Patches <- FewPatches
  Executors = {"e1", "e2"}
  MaxWorkers = 2
  Stops = {NoStop}
  NoStop = NoStop
  SoundPlanner = TRUE
  MaxCalls = 2
  MaxCancels = 0
  MaxCrashes = 0
PROPERTIES
  OnlyInterruptedRequeued
CHECK_DEADLOCK FALSE
