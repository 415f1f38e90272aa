------------------------------ MODULE MCViews ------------------------------
(* A small instance of the modules on published and displayed results for  *)
(* TLC. They do not interact, so each behaviour is of one part and leaves  *)
(* the variables of the others alone.                                      *)
EXTENDS Hub, Leaderboard, CtiBoard, Dashboard, TLC

CONSTANTS
  m1, m2, r1, r2, r3, r4, pa, pb, pc,
  Parts \* the parts to check

MCModelOf == [r \in {r1, r2, r3, r4} |-> IF r = r3 THEN m2 ELSE m1]
MCTaskOf  == [r \in {r1, r2, r3, r4} |-> IF r = r4 THEN "VSP" ELSE "TAA"]
MCTaskOrder == <<"RCM", "VSP", "TAA">>

MCCategoryOf == [p \in {pa, pb, pc} |-> IF p = pc THEN "encoding" ELSE "dan"]

Counts(p, f) == [pass |-> p, fail |-> f]
MCReports == {pa :> Counts(1, 1) @@ pb :> Counts(0, 3) @@ pc :> Counts(2, 1),
              pa :> Counts(0, 0)}

(* Bounds of the parts: the runs of the hub (and all its models before     *)
(* them), those of the leaderboard, and the models that get runs in the    *)
(* dashboard.                                                              *)
HubRuns == {r1}
BoardRuns == {r1, r2, r3}
DashboardModels == {m1}

VARIABLE part

Init ==
  /\ part \in Parts
  /\ HubInit
  /\ exporter \in IF part = "hub"
                  THEN {e \in [script : {"cti", "scans", "public"}, older : BOOLEAN] :
                          e.script = "cti" => ~e.older}
                  ELSE {[script |-> "cti", older |-> FALSE]}
  /\ BoardInit /\ BenchInit
  /\ DashboardInit /\ (part # "dashboard" => app = "glokta")

InHub ==
  /\ part = "hub" /\ HubNext
  /\ \A r \in Runs \ HubRuns : db'.runs[r] = AbsentRun
  /\ db'.models # db.models => db.runs = EmptyDb.runs
  /\ UNCHANGED <<part, boardVars, benchVars, dashboardVars>>

InBoard ==
  /\ part = "board" /\ BoardNext
  /\ \A r \in Runs \ BoardRuns : status'[r] = "absent"
  /\ UNCHANGED <<part, hubVars, benchVars, dashboardVars>>

InBench ==
  /\ part = "bench" /\ BenchNext
  /\ UNCHANGED <<part, hubVars, boardVars, dashboardVars>>

InDashboard ==
  /\ part = "dashboard" /\ DashboardNext
  /\ \A m \in Models \ DashboardModels : latest'[m] = 0 /\ m \in active'
  /\ UNCHANGED <<part, hubVars, boardVars, benchVars>>

Next == InHub \/ InBoard \/ InBench \/ InDashboard

vars == <<part, hubVars, boardVars, benchVars, dashboardVars>>
Spec == Init /\ [][Next]_vars
=============================================================================
