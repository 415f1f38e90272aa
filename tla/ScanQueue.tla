----------------------------- MODULE ScanQueue -----------------------------
(***************************************************************************)
(* The garak scan queue: rows of the table runs, created by the weekly     *)
(* trigger or by an operator's script, claimed with SKIP LOCKED by the     *)
(* flow scan-pending-runs, executed by the Prefect task                    *)
(* execute-garak-scan with retries, and reaped when they run for too long. *)
(*                                                                         *)
(* A worker is one slot of the deployment's concurrency limit.  It owns    *)
(* two database sessions: the flow's, whose copy of the run is loaded      *)
(* right after the claim and never refreshed, and the task attempt's,      *)
(* which reads the row again.  Every action is one transaction, or the     *)
(* step between two of them at which another process can be scheduled.     *)
(*                                                                         *)
(* Time is discrete.  Steps take no time except a garak attempt and the    *)
(* pause before a retry; ages saturate at the value that matters.          *)
(***************************************************************************)
EXTENDS Naturals, FiniteSets

CONSTANTS
  Models,        \* the active models
  Runs,          \* identifiers of run rows; bounds how many are ever created
  ModelOf,       \* the model a run row is created for
  Probes,        \* the garak probes the default categories select
  Workers,       \* concurrent flow runs of scan-pending-runs
  Schedulers,    \* concurrent flow runs of trigger-weekly-scans
  Operators,     \* processes running scripts/trigger_top_models.py
  NoRun,         \* a worker that holds no run
  MaxAttempts,   \* 1 + retries of the task
  GarakTimeout,  \* settings.garak_timeout_seconds
  TimeoutSlack,  \* what the task's timeout adds to it (300 s)
  RetryDelay,    \* the pause before each retry
  StaleSlack,    \* what the reaper's threshold adds (600 s)
  ScanTTL,       \* settings.scheduler_scan_ttl_days
  MaxOverwrites, \* bounds how many runs the operator queues with --overwrite
  MaxCrashes     \* bounds how often a worker dies or the database fails it

ASSUME ScanQueueAssumption ==
  /\ ModelOf \in [Runs -> Models]
  /\ Probes # {}
  /\ NoRun \notin Runs
  /\ IsFiniteSet(Schedulers \cup Operators)
  /\ {MaxAttempts, GarakTimeout, ScanTTL} \subseteq Nat \ {0}
  /\ {TimeoutSlack, RetryDelay, StaleSlack, MaxOverwrites, MaxCrashes} \subseteq Nat

(* The task's timeout, and the age at which the reaper takes a run to be   *)
(* stuck.                                                                  *)
AttemptLimit == GarakTimeout + TimeoutSlack
StaleAfter_OneTry == GarakTimeout + StaleSlack
StaleAfter   == MaxAttempts * GarakTimeout + (MaxAttempts - 1) * RetryDelay + StaleSlack

VARIABLES
  status,    \* runs.status, "absent" before the row is inserted
  age,       \* time since runs.started_at while "running", up to StaleAfter
  results,   \* number of times each probe was ingested for the run
  attempts,  \* whether the run has attempt rows
  dlq,       \* number of scan_dlq rows of the run
  scanAge,   \* time since models.last_scan_at, ScanTTL when null or past it
  step,      \* where each worker is in its flow
  run,       \* the run it holds, or NoRun
  attempt,   \* the attempt of the task it makes
  timer,     \* time spent in this garak call or pause
  todo,      \* the probes this garak call was given
  cached,    \* the flow session's copy of runs.status
  stale,     \* the runs the flow selected for reaping
  plan,      \* the models a scheduler or operator is about to queue
  overwrites, \* how many runs the operator has queued with --overwrite
  crashes    \* how often a worker has died or the database has failed it

db     == <<status, age, results, attempts, dlq, scanAge>>
task   == <<attempt, timer, todo>>
worker == <<step, run, attempt, timer, todo, cached, stale>>
env    == <<plan, overwrites, crashes>>
vars   == <<status, age, results, attempts, dlq, scanAge,
            step, run, attempt, timer, todo, cached, stale, plan, overwrites,
            crashes>>

Statuses == {"absent", "pending", "running", "complete", "failed"}
Terminal == {"complete", "failed"}

Steps == {"waiting", "due", "reap", "claim", "locked", "attempt", "garak",
          "ingested", "committed", "backoff", "returned", "raised", "dlq"}

Queuers == Schedulers \cup Operators
-----------------------------------------------------------------------------
Init ==
  /\ status   = [r \in Runs |-> "absent"]
  /\ age      = [r \in Runs |-> 0]
  /\ results  = [r \in Runs |-> [p \in Probes |-> 0]]
  /\ attempts = [r \in Runs |-> FALSE]
  /\ dlq      = [r \in Runs |-> 0]
  /\ scanAge  = [m \in Models |-> ScanTTL]
  /\ step     = [w \in Workers |-> "waiting"]
  /\ run      = [w \in Workers |-> NoRun]
  /\ attempt  = [w \in Workers |-> 0]
  /\ timer    = [w \in Workers |-> 0]
  /\ todo     = [w \in Workers |-> {}]
  /\ cached   = [w \in Workers |-> "absent"]
  /\ stale    = [w \in Workers |-> {}]
  /\ plan     = [q \in Queuers |-> {}]
  /\ overwrites = 0
  /\ crashes  = 0

(* What the actions of a worker have in common. *)
At(w, s)        == step[w] = s
Goto(w, s)      == step' = [step EXCEPT ![w] = s]
SetStatus(r, s) == status' = [status EXCEPT ![r] = s]
EndFlow(w) ==
  /\ Goto(w, "waiting")
  /\ run' = [run EXCEPT ![w] = NoRun]
  /\ attempt' = [attempt EXCEPT ![w] = 0]
  /\ timer' = [timer EXCEPT ![w] = 0]
  /\ todo' = [todo EXCEPT ![w] = {}]
  /\ cached' = [cached EXCEPT ![w] = "absent"]
  /\ stale' = [stale EXCEPT ![w] = {}]

RunsOf(m, states) == {r \in Runs : ModelOf[r] = m /\ status[r] \in states}
-----------------------------------------------------------------------------
(* Filling the queue *)

Due_NoPending(m) == RunsOf(m, {"running"}) = {} /\ scanAge[m] = ScanTTL
Due(m) == RunsOf(m, {"pending", "running"}) = {} /\ scanAge[m] = ScanTTL

(* trigger-weekly-scans reads which active models have neither an active   *)
(* run nor a recent scan ...                                               *)
ScheduleRead(q) ==
  /\ q \in Schedulers
  /\ plan[q] = {}
  /\ \E m \in Models : Due(m)
  /\ plan' = [plan EXCEPT ![q] = {m \in Models : Due(m)}]
  /\ UNCHANGED <<db, worker, overwrites, crashes>>

(* ... and the operator's script, one model at a time, whether the model   *)
(* has a run that did not fail ...                                         *)
OperatorRead(q, m) ==
  /\ q \in Operators
  /\ plan[q] = {}
  /\ RunsOf(m, {"pending", "running", "complete"}) = {}
  /\ plan' = [plan EXCEPT ![q] = {m}]
  /\ UNCHANGED <<db, worker, overwrites, crashes>>

(* ... unless it is run with --overwrite, when it reads nothing and queues *)
(* the model whatever runs it has.                                         *)
OperatorOverwrites(q, m) ==
  /\ q \in Operators
  /\ plan[q] = {}
  /\ overwrites < MaxOverwrites
  /\ plan' = [plan EXCEPT ![q] = {m}]
  /\ overwrites' = overwrites + 1
  /\ UNCHANGED <<db, worker, crashes>>

(* Both then insert one pending run per model they read as due, in one     *)
(* transaction, without reading again.                                     *)
Enqueue(q) ==
  /\ plan[q] # {}
  /\ \E new \in SUBSET {r \in Runs : status[r] = "absent"} :
       /\ {ModelOf[r] : r \in new} = plan[q]
       /\ \A r, s \in new : ModelOf[r] = ModelOf[s] => r = s
       /\ status' = [r \in Runs |-> IF r \in new THEN "pending" ELSE status[r]]
  /\ plan' = [plan EXCEPT ![q] = {}]
  /\ UNCHANGED <<age, results, attempts, dlq, scanAge, worker, overwrites, crashes>>
-----------------------------------------------------------------------------
(* The flow scan-pending-runs: reap, claim *)

StaleRunning_AnyStatus == {r \in Runs : age[r] >= StaleAfter}
StaleRunning == {r \in Runs : status[r] = "running" /\ age[r] >= StaleAfter}

(* The flow starts and selects the stale running rows, without locks.      *)
StartFlow(w) ==
  /\ At(w, "due")
  /\ Goto(w, "reap")
  /\ stale' = [stale EXCEPT ![w] = StaleRunning]
  /\ UNCHANGED <<db, run, task, cached, env>>

CommitReap_NoCommit(w) ==
  /\ At(w, "reap")
  /\ Goto(w, "claim")
  /\ stale' = [stale EXCEPT ![w] = {}]
  /\ UNCHANGED <<db, run, task, cached, env>>

(* It writes "failed" over whatever those rows are by now.                 *)
CommitReap(w) ==
  /\ At(w, "reap")
  /\ status' = [r \in Runs |-> IF r \in stale[w] THEN "failed" ELSE status[r]]
  /\ Goto(w, "claim")
  /\ stale' = [stale EXCEPT ![w] = {}]
  /\ UNCHANGED <<age, results, attempts, dlq, scanAge, run, task, cached, env>>

Claimable_NoLock(r) == status[r] = "pending"

Claimable(r) ==
  /\ status[r] = "pending"
  /\ ~ \E v \in Workers : At(v, "locked") /\ run[v] = r

(* SELECT ... FOR UPDATE SKIP LOCKED of any one pending row.               *)
Claim(w) ==
  /\ At(w, "claim")
  /\ \E r \in Runs :
       /\ Claimable(r)
       /\ run' = [run EXCEPT ![w] = r]
  /\ Goto(w, "locked")
  /\ UNCHANGED <<db, task, cached, stale, env>>

NothingPending(w) ==
  /\ At(w, "claim")
  /\ \A r \in Runs : ~Claimable(r)
  /\ EndFlow(w)
  /\ UNCHANGED <<db, env>>

(* The claim commits; the flow's session loads the row it has just         *)
(* written, and the task's first attempt starts.                           *)
CommitClaim(w) ==
  /\ At(w, "locked")
  /\ SetStatus(run[w], "running")
  /\ age' = [age EXCEPT ![run[w]] = 0]
  /\ cached' = [cached EXCEPT ![w] = "running"]
  /\ attempt' = [attempt EXCEPT ![w] = 1]
  /\ Goto(w, "attempt")
  /\ UNCHANGED <<results, attempts, dlq, scanAge, run, timer, todo, stale, env>>
-----------------------------------------------------------------------------
(* One attempt of the task execute-garak-scan *)

Remaining_All(r) == Probes
Remaining(r) == {p \in Probes : results[r][p] = 0}

(* The row is no longer "running": StaleRunError, which is not retried.    *)
AttemptStale(w) ==
  /\ At(w, "attempt")
  /\ status[run[w]] # "running"
  /\ Goto(w, "raised")
  /\ UNCHANGED <<db, run, task, cached, stale, env>>

(* Every probe has results already: the task returns without writing.      *)
AttemptSkip(w) ==
  /\ At(w, "attempt")
  /\ status[run[w]] = "running"
  /\ Remaining(run[w]) = {}
  /\ Goto(w, "returned")
  /\ UNCHANGED <<db, run, task, cached, stale, env>>

StartGarak(w) ==
  /\ At(w, "attempt")
  /\ status[run[w]] = "running"
  /\ Remaining(run[w]) # {}
  /\ todo' = [todo EXCEPT ![w] = Remaining(run[w])]
  /\ timer' = [timer EXCEPT ![w] = 0]
  /\ Goto(w, "garak")
  /\ UNCHANGED <<db, run, attempt, cached, stale, env>>

AfterIngest_NoCheck(got, logged) == "ingested"
AfterIngest(got, logged) == IF got = {} /\ ~logged THEN "raised" ELSE "ingested"

(* garak exits; its report, which may cover any part of what was asked,    *)
(* and last_scan_at are committed together.  Only then is an empty report  *)
(* turned into EmptyIngestError, which is not retried.                     *)
Ingest(w) ==
  /\ At(w, "garak")
  /\ \E got \in SUBSET todo[w], logged \in BOOLEAN :
       /\ results' = [results EXCEPT ![run[w]] =
                        [p \in Probes |-> @[p] + (IF p \in got THEN 1 ELSE 0)]]
       /\ attempts' = [attempts EXCEPT ![run[w]] = @ \/ logged]
       /\ Goto(w, AfterIngest(got, logged))
  /\ scanAge' = [scanAge EXCEPT ![ModelOf[run[w]]] = 0]
  /\ UNCHANGED <<status, age, dlq, run, task, cached, stale, env>>

(* The attempt writes "complete" over whatever the row is by now.          *)
CompleteRun(w) ==
  /\ At(w, "ingested")
  /\ SetStatus(run[w], "complete")
  /\ Goto(w, "committed")
  /\ UNCHANGED <<age, results, attempts, dlq, scanAge, run, task, cached, stale, env>>

ReturnTask(w) ==
  /\ At(w, "committed")
  /\ Goto(w, "returned")
  /\ UNCHANGED <<db, run, task, cached, stale, env>>

AttemptFails_OneMore(w) ==
  /\ step[w] \in {"attempt", "garak", "ingested", "committed"}
  /\ timer' = [timer EXCEPT ![w] = 0]
  /\ Goto(w, IF attempt[w] <= MaxAttempts THEN "backoff" ELSE "raised")
  /\ UNCHANGED <<db, run, attempt, todo, cached, stale, env>>

(* Any other exception, the task's timeout included, whatever the attempt  *)
(* has committed by then: retry after a pause, or give up.                 *)
AttemptFails(w) ==
  /\ step[w] \in {"attempt", "garak", "ingested", "committed"}
  /\ timer' = [timer EXCEPT ![w] = 0]
  /\ Goto(w, IF attempt[w] < MaxAttempts THEN "backoff" ELSE "raised")
  /\ UNCHANGED <<db, run, attempt, todo, cached, stale, env>>

RetryAttempt(w) ==
  /\ At(w, "backoff")
  /\ timer[w] = RetryDelay
  /\ attempt' = [attempt EXCEPT ![w] = @ + 1]
  /\ Goto(w, "attempt")
  /\ UNCHANGED <<db, run, timer, todo, cached, stale, env>>
-----------------------------------------------------------------------------
(* Back in the flow: process_pending_run's last part *)

FinishRun(w) ==
  /\ At(w, "returned")
  /\ SetStatus(run[w], "complete")
  /\ EndFlow(w)
  /\ UNCHANGED <<age, results, attempts, dlq, scanAge, env>>

FailRun_KeepsComplete(w) ==
  /\ At(w, "raised")
  /\ SetStatus(run[w], IF status[run[w]] = "complete" THEN "complete" ELSE "failed")
  /\ Goto(w, "dlq")
  /\ UNCHANGED <<age, results, attempts, dlq, scanAge, run, task, cached, stale, env>>

FailRun_NoDlq(w) ==
  /\ At(w, "raised")
  /\ SetStatus(run[w], "failed")
  /\ EndFlow(w)
  /\ UNCHANGED <<age, results, attempts, dlq, scanAge, env>>

(* find_by_id returns the object the flow's session already holds, so the  *)
(* test for "complete" is made on the status of the claim.                 *)
FailRun(w) ==
  /\ At(w, "raised")
  /\ cached[w] # "complete"
  /\ SetStatus(run[w], "failed")
  /\ Goto(w, "dlq")
  /\ UNCHANGED <<age, results, attempts, dlq, scanAge, run, task, cached, stale, env>>

WriteDlqEntry(w) ==
  /\ At(w, "dlq")
  /\ dlq' = [dlq EXCEPT ![run[w]] = @ + 1]
  /\ EndFlow(w)
  /\ UNCHANGED <<status, age, results, attempts, scanAge, env>>
-----------------------------------------------------------------------------
(* The environment *)

(* A worker's process dies, or the database fails its flow run where the   *)
(* flow catches nothing (a claim, an outcome or a dead letter that cannot  *)
(* be committed): its transaction is rolled back, its locks are released,  *)
(* and nothing records that its run has no owner any more.                 *)
Crash(w) ==
  /\ step[w] \notin {"waiting", "due"}
  /\ crashes < MaxCrashes
  /\ EndFlow(w)
  /\ crashes' = crashes + 1
  /\ UNCHANGED <<db, plan, overwrites>>

Timed(w) == step[w] \in {"garak", "backoff"}

MayWait(w) ==
  \/ step[w] \in {"waiting", "due"}
  \/ At(w, "garak")   /\ timer[w] < AttemptLimit
  \/ At(w, "backoff") /\ timer[w] < RetryDelay

(* Time passes while no worker has a step to take at once, and the         *)
(* schedule makes a new flow run due in every free slot.                   *)
Tick ==
  /\ \A w \in Workers : MayWait(w)
  /\ age' = [r \in Runs |-> IF status[r] = "running" /\ age[r] < StaleAfter
                            THEN age[r] + 1 ELSE age[r]]
  /\ scanAge' = [m \in Models |-> IF scanAge[m] < ScanTTL
                                  THEN scanAge[m] + 1 ELSE scanAge[m]]
  /\ timer' = [w \in Workers |-> IF Timed(w) THEN timer[w] + 1 ELSE timer[w]]
  /\ step' = [w \in Workers |-> IF Timed(w) THEN step[w] ELSE "due"]
  /\ UNCHANGED <<status, results, attempts, dlq, run, attempt, todo, cached, stale, env>>
-----------------------------------------------------------------------------
Flow(w) ==
  \/ StartFlow(w) \/ CommitReap(w) \/ Claim(w) \/ NothingPending(w) \/ CommitClaim(w)
  \/ AttemptStale(w) \/ AttemptSkip(w) \/ StartGarak(w) \/ Ingest(w)
  \/ CompleteRun(w) \/ ReturnTask(w) \/ AttemptFails(w) \/ RetryAttempt(w)
  \/ FinishRun(w) \/ FailRun(w) \/ WriteDlqEntry(w)

Next ==
  \/ \E q \in Queuers : ScheduleRead(q) \/ Enqueue(q)
  \/ \E q \in Queuers, m \in Models : OperatorRead(q, m) \/ OperatorOverwrites(q, m)
  \/ \E w \in Workers : Flow(w) \/ Crash(w)
  \/ Tick

Spec == Init /\ [][Next]_vars

(* Prefect keeps starting flow runs and a live worker keeps running its    *)
(* code; the garak call ends because the task's timeout stops the clock.   *)
FairSpec == Spec /\ WF_vars(Tick) /\ \A w \in Workers : WF_vars(Flow(w))
-----------------------------------------------------------------------------
(* Safety, whatever the timing *)

(* Every variable has its type. *)
TypeOK ==
  /\ status \in [Runs -> Statuses]
  /\ age \in [Runs -> 0..StaleAfter]
  /\ results \in [Runs -> [Probes -> Nat]]
  /\ attempts \in [Runs -> BOOLEAN]
  /\ dlq \in [Runs -> Nat]
  /\ scanAge \in [Models -> 0..ScanTTL]
  /\ step \in [Workers -> Steps]
  /\ run \in [Workers -> Runs \cup {NoRun}]
  /\ attempt \in [Workers -> 0..MaxAttempts]
  /\ timer \in [Workers -> Nat]
  /\ todo \in [Workers -> SUBSET Probes]
  /\ cached \in [Workers -> Statuses]
  /\ stale \in [Workers -> SUBSET Runs]
  /\ plan \in [Queuers -> SUBSET Models]
  /\ overwrites \in 0..MaxOverwrites
  /\ crashes \in 0..MaxCrashes

(* "SKIP LOCKED for safe concurrent workers": two flow runs never work on  *)
(* the same run, from the row lock of the claim to the end of the flow.    *)
ExclusiveRun ==
  \A v, w \in Workers : run[v] = run[w] /\ run[v] # NoRun => v = w

(* A retry resumes: no probe is ingested twice into a run, over all its    *)
(* attempts, partial reports and failures after a commit included, so the  *)
(* leaderboard's pass rates count every probe once.                        *)
NoDuplicateResults ==
  \A r \in Runs, p \in Probes : results[r][p] <= 1

(* A dead-letter entry and the run it names agree: at most one entry per   *)
(* run, and the run stays "failed" from then on.                           *)
DlqMeansFailed ==
  \A r \in Runs : dlq[r] > 0 => dlq[r] = 1 /\ status[r] = "failed"

(* What EmptyIngestError and the skip of a finished run promise together:  *)
(* a run the leaderboard counts has ingested something.                    *)
CompleteHasOutput ==
  \A r \in Runs : status[r] = "complete" =>
    attempts[r] \/ \E p \in Probes : results[r][p] > 0

(* The check for an active run and the insertion are two transactions: a   *)
(* model has at most one active run, or run about to be queued, for each   *)
(* process that queues, and one more for each --overwrite.                 *)
ActiveRunsBounded ==
  \A m \in Models :
    Cardinality(RunsOf(m, {"pending", "running"})) +
    Cardinality({q \in Queuers : m \in plan[q]}) <= Cardinality(Queuers) + overwrites

(* A run that nobody works on although it has not ended, or has failed     *)
(* without a dead letter and was not old enough for the reaper.            *)
Lost(r) ==
  /\ \A w \in Workers : run[w] # r
  /\ \/ status[r] = "running"
     \/ status[r] = "failed" /\ dlq[r] = 0 /\ age[r] < StaleAfter

(* Only the death of a worker, or a failure of the database outside the    *)
(* task, loses a run, and each at most one: whatever fails in the task,    *)
(* between its commits and the flow's, and whatever the reaper writes      *)
(* meanwhile.                                                              *)
LostRunsBounded == Cardinality({r \in Runs : Lost(r)}) <= crashes

(* The queue implements the ledger of runs: a claim hands a run over once, *)
(* its outcome changes only while its worker or a reaper has it in hand,   *)
(* and then stands.                                                        *)
Taken == {run[w] : w \in {v \in Workers : run[v] # NoRun /\ ~At(v, "locked")}}
Suspected == UNION {stale[w] : w \in Workers}
Ledger == INSTANCE RunLedger WITH taken <- Taken, suspected <- Suspected
ImplementsLedger == Ledger!Spec
-----------------------------------------------------------------------------
(* The reaper's threshold *)

(* The threshold has no room for the slack of every attempt, but it has    *)
(* for the slack of all attempts but the last: with the values of the code *)
(* 3 * 300 s < garak_timeout_seconds + 600 s.                              *)
LastAttemptTiming == (MaxAttempts - 1) * TimeoutSlack < GarakTimeout + StaleSlack

(* The reaper may select the run of a live worker, but only once its last  *)
(* attempt is under way: it never costs a run a retry.                     *)
OnlyLastAttemptReaped ==
  \A v, w \in Workers :
    run[w] # NoRun /\ run[w] \in stale[v] => attempt[w] = MaxAttempts

(* "Marks stuck running runs as failed": the reaper takes only runs that   *)
(* no live worker has.                                                     *)
NoLiveReap ==
  \A v, w \in Workers : run[w] # NoRun => run[w] \notin stale[v]

(* The comment on process_pending_run's handler: a run that the task has   *)
(* written "complete" is not overwritten when an exception arrives later.  *)
CompleteIsKept ==
  [][\A r \in Runs : status[r] = "complete" => status'[r] = "complete"]_vars
-----------------------------------------------------------------------------
(* Liveness *)

(* Every queued run ends, although workers die: the reaper ends the runs   *)
(* they leave behind.                                                      *)
RunsEnd ==
  \A r \in Runs : status[r] = "pending" ~> status[r] \in Terminal
=============================================================================
