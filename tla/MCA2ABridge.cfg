SPECIFICATION FairSpec
CONSTANTS
  Tasks = {1}
  Patches <- MCPatches
  Calls = {c1, c2}
  NoCall = NoCall
  MaxCrashes = 1
  MaxResumes = 1
  MaxEvents = 7
INVARIANTS
  NeverRefused
  AwakeHasResult
PROPERTIES
  ClientOfStore
  SubscribedStopsWaiting
CHECK_DEADLOCK FALSE
