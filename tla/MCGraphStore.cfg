SPECIFICATION MCSpec
CONSTANTS
  Tasks = {1, 2, 3}
  Patches <- MCPatches
  MaxEvents = 7
INVARIANTS
  FinishedIsQuiet
  NoMutualWait
  JournalMatchesGraph
  StartedAfterParents
CHECK_DEADLOCK FALSE
