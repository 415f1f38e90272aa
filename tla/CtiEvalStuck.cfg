CONSTANTS
  a1 = a1
  r1 = r1
  r2 = r2
  w1 = w1
  w2 = w2
  NoRun = NoRun
  Pairs <- OnePair
  Runs <- TwoRuns
  PairOf <- SamePair
  Items = {1, 2, 3, 4}
  Workers = {w1, w2}
  Drainers = {}
  Triggers = {t1}
  MaxAttempts = 2
  MaxItems = 3
  CommitEvery = 2
  DrainLimit = 3
  MaxFaults = 0
  MaxCrashes = 1
SPECIFICATION FairSpec
CHECK_DEADLOCK FALSE
PROPERTY InterruptedRunsEnd
