CONSTANTS
  m1 = m1
  m2 = m2
  r1 = r1
  r2 = r2
  r3 = r3
  r4 = r4
  pa = pa
  pb = pb
  pc = pc
  Models = {m1, m2}
  Runs = {r1, r2, r3, r4}
  ModelOf <- MCModelOf
  Keys = {1, 2}
  Foreign = {m2}
  Probes = {pa, pb, pc}
  CategoryOf <- MCCategoryOf
  ActiveRisks = {"dan"}
  Reports <- MCReports
  PageSize = 2
  TaskOf <- MCTaskOf
  TaskOrder <- MCTaskOrder
  Scores = {1, 3}
  Tabs = {"probes"}
  MaxRuns = 2
  MaxEvents = 2
  Parts = {"hub", "board", "bench", "dashboard"}
SPECIFICATION Spec
CHECK_DEADLOCK FALSE
INVARIANT PublishedWhole
INVARIANT ReplicaWhole
INVARIANT ViewsAgree
INVARIANT PagesCover
INVARIANT CtiViewsAgree
INVARIANT RowsAndRunAgree
INVARIANT ViewerOfClickedRun
