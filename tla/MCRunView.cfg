SPECIFICATION FairSpec
CONSTANTS
  Tasks = {1, 2}
  Patches <- MCPatches
  Composer = 2
  Proposals <- MCProposals
  MaxEvents = 7
INVARIANTS
  HoldsAPrefix
  FinishedIsFinal
  ProgressIsWhole
  PoisonIsContained
PROPERTY ViewSettles
CHECK_DEADLOCK FALSE
