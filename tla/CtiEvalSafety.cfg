CONSTANTS
  a1 = a1
  r1 = r1
  r2 = r2
  w1 = w1
  w2 = w2
  NoRun = NoRun
  Pairs <- OnePair
  Runs <- TwoRuns
  PairOf <- SamePair
  Items = {1, 2, 3, 4}
  Workers = {w1}
  Drainers = {b1}
  Triggers = {t1}
  MaxAttempts = 2
  MaxItems = 3
  CommitEvery = 2
  DrainLimit = 3
  MaxFaults = 1
  MaxCrashes = 1
SPECIFICATION FairSpec
CHECK_DEADLOCK FALSE
INVARIANT ExclusiveRun
INVARIANT NoDuplicateResults
INVARIANT NoGap
INVARIANT AggregateIsWhole
INVARIANT LostWorkBounded
INVARIANT CallsBounded
INVARIANT OrphansBounded
PROPERTY ImplementsLedger
PROPERTY RunsEnd
