SPECIFICATION FairSpec
CONSTANTS
  Tasks = {t1, t2}
  PushAttempts = 2
  MaxRestarts = 1
INVARIANTS
  OneWorker
  QuietMeansTold
PROPERTIES
  NewsInOrder
  PromiseKept
CHECK_DEADLOCK FALSE
