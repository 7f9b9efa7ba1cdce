SPECIFICATION FairSpec
CONSTANTS
  Breadth = 2
  MaxWorkers = 2
  MaxRestarts = 1
  Tasks <- MCTasks
  Patches <- MCPatches
INVARIANTS
  PlansAreAccepted
  SynthesisWaits
  NothingOutstanding
  RestIsExplained
PROPERTIES
  SuccessFinishes
CHECK_DEADLOCK FALSE
