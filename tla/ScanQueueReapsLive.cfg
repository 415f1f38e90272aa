CONSTANTS
  m1 = m1
  r1 = r1
  r2 = r2
  w1 = w1
  w2 = w2
  NoRun = NoRun
  Models <- OneModel
  Runs <- TwoRuns
  ModelOf <- AllOfOneModel
  Probes = {p1, p2}
  Workers = {w1, w2}
  Schedulers = {s1}
  Operators = {}
  MaxAttempts = 4
  GarakTimeout = 1
  TimeoutSlack = 1
  RetryDelay = 0
  StaleSlack = 2
  ScanTTL = 2
  MaxOverwrites = 0
  MaxCrashes = 0
SYMMETRY Symmetry
SPECIFICATION Spec
INVARIANT NoLiveReap
