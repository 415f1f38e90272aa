------------------------------ MODULE CtiEval ------------------------------
(***************************************************************************)
(* Evaluation runs of the CTI benchmark: rows of cti_runs, queued by the   *)
(* weekly trigger or by the one-shot bootstrap, executed by the flow       *)
(* cti-scan-pending (a Prefect task with retries, each attempt with a      *)
(* session of its own) or inline by the bootstrap's drain loop (no retry,  *)
(* one session for everything).  An attempt scores the oldest items that   *)
(* the run has no result for, at most MaxItems of them, one inference      *)
(* call each, and commits every CommitEvery results.                       *)
(*                                                                         *)
(* The slice of the task, the active items that are not withheld, is Items *)
(* and does not change; an item is its place in the order of               *)
(* first_available_date.                                                   *)
(***************************************************************************)
EXTENDS Naturals, FiniteSets

CONSTANTS
  Pairs,        \* the (active model, task) pairs
  Runs,         \* identifiers of cti_runs rows; bounds how many are created
  PairOf,       \* the pair a run row is created for
  Items,        \* the slice
  Workers,      \* concurrent flow runs of cti-scan-pending
  Drainers,     \* flow runs of cti-bootstrap
  Triggers,     \* concurrent flow runs of cti-trigger
  NoRun,        \* an actor that holds no run
  MaxAttempts,  \* 1 + retries of the task
  MaxItems,     \* settings.cti_max_items_per_run
  CommitEvery,  \* settings.cti_eval_commit_every, 0 to commit at the end only
  DrainLimit,   \* max_iterations of the drain loop
  MaxCrashes,   \* bounds how many actors die
  MaxFaults     \* bounds how often the database fails an actor between attempts

ASSUME CtiEvalAssumption ==
  /\ PairOf \in [Runs -> Pairs]
  /\ Items \subseteq Nat /\ IsFiniteSet(Items)
  /\ NoRun \notin Runs
  /\ Workers \cap Drainers = {}
  /\ {MaxAttempts, MaxItems, DrainLimit} \subseteq Nat \ {0}
  /\ {CommitEvery, MaxCrashes, MaxFaults} \subseteq Nat

VARIABLES
  status,   \* cti_runs.status, "absent" before the row is inserted
  old,      \* whether completed_at is older than the scan TTL
  results,  \* number of cti_results rows per run and item
  counted,  \* cti_runs.item_count
  calls,    \* inference calls made for a run
  step,     \* where each actor is
  run,      \* the run it holds, or NoRun
  attempt,  \* the attempt it makes
  page,     \* the items its attempt has still to score
  buffer,   \* results added to its session and not yet committed
  drained,  \* iterations of its drain loop
  plan,     \* the pairs a queuer found due, before it commits
  crashes,  \* how many actors have died
  faults    \* how often the database has failed one between attempts

db    == <<status, old, results, counted>>
env   == <<plan, crashes, faults>>
vars  == <<status, old, results, counted, calls,
           step, run, attempt, page, buffer, drained, plan, crashes, faults>>

Statuses == {"absent", "pending", "running", "complete", "failed"}
Terminal == {"complete", "failed"}
Steps    == {"waiting", "queued", "drain", "locked", "attempt", "eval",
             "aggregated", "committed", "returned", "raised"}

Actors  == Workers \cup Drainers
Queuers == Triggers \cup Drainers
-----------------------------------------------------------------------------
Init ==
  /\ status  = [r \in Runs |-> "absent"]
  /\ old     = [r \in Runs |-> FALSE]
  /\ results = [r \in Runs |-> [i \in Items |-> 0]]
  /\ counted = [r \in Runs |-> 0]
  /\ calls   = [r \in Runs |-> 0]
  /\ step    = [w \in Actors |-> "waiting"]
  /\ run     = [w \in Actors |-> NoRun]
  /\ attempt = [w \in Actors |-> 0]
  /\ page    = [w \in Actors |-> {}]
  /\ buffer  = [w \in Actors |-> {}]
  /\ drained = [w \in Actors |-> 0]
  /\ plan    = [q \in Queuers |-> {}]
  /\ crashes = 0
  /\ faults  = 0

(* What the actions of an actor have in common.  A claim starts from       *)
(* "waiting" in the flow, from "drain" in the bootstrap's loop, and a      *)
(* processed run leads back there.                                         *)
At(w, s)   == step[w] = s
Goto(w, s) == step' = [step EXCEPT ![w] = s]
Home(w)    == IF w \in Drainers THEN "drain" ELSE "waiting"
LeaveRun(w, s) ==
  /\ Goto(w, s)
  /\ run' = [run EXCEPT ![w] = NoRun]
  /\ attempt' = [attempt EXCEPT ![w] = 0]
  /\ page' = [page EXCEPT ![w] = {}]
  /\ buffer' = [buffer EXCEPT ![w] = {}]

RunsOf(p, states) == {r \in Runs : PairOf[r] = p /\ status[r] \in states}
Scored(r) == {i \in Items : results[r][i] > 0}

(* A commit of an actor's session inserts the results it has buffered.     *)
Inserted(w, new) ==
  [results EXCEPT ![run[w]] = [i \in Items |-> @[i] + (IF i \in new THEN 1 ELSE 0)]]
-----------------------------------------------------------------------------
(* queue_cti_runs: the trigger skips pairs with an active run or a recent  *)
(* complete one; the bootstrap calls it with a TTL of zero days.           *)

Active(p) == RunsOf(p, {"pending", "running"}) # {}
Due(p, ttl) ==
  /\ ~Active(p)
  /\ ttl => \A r \in RunsOf(p, {"complete"}) : old[r]

TriggerRead(q) ==
  /\ q \in Triggers
  /\ plan[q] = {}
  /\ \E p \in Pairs : Due(p, TRUE)
  /\ plan' = [plan EXCEPT ![q] = {p \in Pairs : Due(p, TRUE)}]
  /\ UNCHANGED <<db, calls, step, run, attempt, page, buffer, drained, crashes, faults>>

BootstrapRead(d) ==
  /\ d \in Drainers
  /\ At(d, "waiting")
  /\ plan' = [plan EXCEPT ![d] = {p \in Pairs : Due(p, FALSE)}]
  /\ Goto(d, "queued")
  /\ UNCHANGED <<db, calls, run, attempt, page, buffer, drained, crashes, faults>>

(* One pending run per due pair, inserted without reading again.           *)
Enqueue(q) ==
  /\ IF q \in Drainers THEN At(q, "queued") /\ Goto(q, "drain")
                       ELSE plan[q] # {} /\ UNCHANGED step
  /\ \E new \in SUBSET {r \in Runs : status[r] = "absent"} :
       /\ {PairOf[r] : r \in new} = plan[q]
       /\ \A r, s \in new : PairOf[r] = PairOf[s] => r = s
       /\ status' = [r \in Runs |-> IF r \in new THEN "pending" ELSE status[r]]
  /\ plan' = [plan EXCEPT ![q] = {}]
  /\ UNCHANGED <<old, results, counted, calls, run, attempt, page, buffer, drained, crashes, faults>>

(* A week passes since a run was completed. *)
Expire(r) ==
  /\ status[r] = "complete" /\ ~old[r]
  /\ old' = [old EXCEPT ![r] = TRUE]
  /\ UNCHANGED <<status, results, counted, calls, step, run, attempt, page, buffer,
                 drained, env>>
-----------------------------------------------------------------------------
(* process_pending_cti_run: claim *)

Pending == {r \in Runs : status[r] = "pending"}
Claimable_NoLock == Pending
Claimable == {r \in Pending : \A v \in Actors : At(v, "locked") => run[v] # r}

(* The loop goes round once more, up to its limit. *)
Iterate(w) ==
  IF w \in Drainers
  THEN drained[w] < DrainLimit /\ drained' = [drained EXCEPT ![w] = @ + 1]
  ELSE UNCHANGED drained

(* SELECT ... FOR UPDATE SKIP LOCKED of any one pending row.               *)
Claim(w) ==
  /\ At(w, Home(w))
  /\ Iterate(w)
  /\ \E r \in Claimable : run' = [run EXCEPT ![w] = r]
  /\ Goto(w, "locked")
  /\ UNCHANGED <<db, calls, attempt, page, buffer, env>>

(* Every pending row is locked by another claim: the loop only counts.     *)
DrainSpin(d) ==
  /\ d \in Drainers
  /\ At(d, "drain")
  /\ Pending # {} /\ Claimable = {}
  /\ Iterate(d)
  /\ UNCHANGED <<db, calls, step, run, attempt, page, buffer, env>>

DrainEnd(d) ==
  /\ d \in Drainers
  /\ At(d, "drain")
  /\ Pending = {} \/ drained[d] = DrainLimit
  /\ Goto(d, "waiting")
  /\ drained' = [drained EXCEPT ![d] = 0]
  /\ UNCHANGED <<db, calls, run, attempt, page, buffer, env>>

CommitClaim(w) ==
  /\ At(w, "locked")
  /\ status' = [status EXCEPT ![run[w]] = "running"]
  /\ attempt' = [attempt EXCEPT ![w] = 1]
  /\ Goto(w, "attempt")
  /\ UNCHANGED <<old, results, counted, calls, run, page, buffer, drained, env>>
-----------------------------------------------------------------------------
(* execute_cti_run *)

Unscored_ByCalls(r) == {i \in Items : i > calls[r]}
Unscored(r) == Items \ Scored(r)

(* The page of an attempt: the oldest items without a result, up to the    *)
(* cap.                                                                    *)
Page_AllItems(r) ==
  {i \in Items : Cardinality({j \in Items : j < i}) < MaxItems}
Page(r) ==
  {i \in Unscored(r) : Cardinality({j \in Unscored(r) : j < i}) < MaxItems}

(* The task checks that the row is "running", the drain loop does not.     *)
StartAttempt(w) ==
  /\ At(w, "attempt")
  /\ w \in Workers => status[run[w]] = "running"
  /\ page' = [page EXCEPT ![w] = Page(run[w])]
  /\ buffer' = [buffer EXCEPT ![w] = {}]
  /\ Goto(w, "eval")
  /\ UNCHANGED <<db, calls, run, attempt, drained, env>>

CommitsNow_Never(new) == FALSE
CommitsNow(new) == Cardinality(new) = CommitEvery

(* One item: inference, scoring, a result, a commit when a batch is full.  *)
ScoreItem(w) ==
  /\ At(w, "eval")
  /\ \E i \in page[w] :
       /\ \A j \in page[w] : i <= j
       /\ page' = [page EXCEPT ![w] = @ \ {i}]
       /\ LET new == buffer[w] \cup {i} IN
          IF CommitsNow(new)
          THEN results' = Inserted(w, new) /\ buffer' = [buffer EXCEPT ![w] = {}]
          ELSE buffer' = [buffer EXCEPT ![w] = new] /\ UNCHANGED results
  /\ calls' = [calls EXCEPT ![run[w]] = @ + 1]
  /\ UNCHANGED <<status, old, counted, step, run, attempt, drained, env>>

CountAfter_PageOnly(w) == Cardinality(buffer[w])
CountAfter(w) == Cardinality(Scored(run[w]) \cup buffer[w])

(* The rest of the results and the aggregate over all of the run's         *)
(* results, those of earlier attempts included, in one commit.             *)
Aggregate(w) ==
  /\ At(w, "eval")
  /\ page[w] = {}
  /\ results' = Inserted(w, buffer[w])
  /\ counted' = [counted EXCEPT ![run[w]] = CountAfter(w)]
  /\ buffer' = [buffer EXCEPT ![w] = {}]
  /\ Goto(w, IF w \in Drainers THEN "returned" ELSE "aggregated")
  /\ UNCHANGED <<status, old, calls, run, attempt, page, drained, env>>
-----------------------------------------------------------------------------
(* The task execute-cti-run around it *)

CompleteRun(w) ==
  /\ At(w, "aggregated")
  /\ status' = [status EXCEPT ![run[w]] = "complete"]
  /\ old' = [old EXCEPT ![run[w]] = FALSE]
  /\ Goto(w, "committed")
  /\ UNCHANGED <<results, counted, calls, run, attempt, page, buffer, drained, env>>

ReturnTask(w) ==
  /\ At(w, "committed")
  /\ Goto(w, "returned")
  /\ UNCHANGED <<db, calls, run, attempt, page, buffer, drained, env>>

Attempts_OneMore(w) == IF w \in Drainers THEN 1 ELSE MaxAttempts + 1
Attempts(w) == IF w \in Drainers THEN 1 ELSE MaxAttempts

AttemptFails_SameAttempt(w) ==
  /\ step[w] \in {"attempt", "eval", "aggregated", "committed"}
  /\ page' = [page EXCEPT ![w] = {}]
  /\ buffer' = [buffer EXCEPT ![w] = {}]
  /\ Goto(w, "attempt")
  /\ UNCHANGED <<db, calls, run, attempt, drained, env>>

(* An exception, in the inference call or anywhere else, the task's        *)
(* timeout and its own complaint that the row is not "running" included.   *)
(* Every one is retried.  The attempt's session is closed; the drain       *)
(* loop's session stays, with what it has buffered.                        *)
AttemptFails(w) ==
  /\ step[w] \in {"attempt", "eval", "aggregated", "committed"}
  /\ \/ UNCHANGED calls
     \/ page[w] # {} /\ calls' = [calls EXCEPT ![run[w]] = @ + 1]
  /\ page' = [page EXCEPT ![w] = {}]
  /\ buffer' = [buffer EXCEPT ![w] = IF w \in Drainers THEN @ ELSE {}]
  /\ IF attempt[w] < Attempts(w)
     THEN Goto(w, "attempt") /\ attempt' = [attempt EXCEPT ![w] = @ + 1]
     ELSE Goto(w, "raised") /\ UNCHANGED attempt
  /\ UNCHANGED <<db, run, drained, env>>
-----------------------------------------------------------------------------
(* process_pending_cti_run: the outcome *)

(* What find_by_id shows of the row: the flow's session still holds the    *)
(* object it loaded after the claim, the drain loop's has just committed.  *)
Known(w) == IF w \in Drainers THEN status[run[w]] ELSE "running"

FinishRun(w) ==
  /\ At(w, "returned")
  /\ IF Known(w) # "complete"
     THEN /\ status' = [status EXCEPT ![run[w]] = "complete"]
          /\ old' = [old EXCEPT ![run[w]] = FALSE]
     ELSE UNCHANGED <<status, old>>
  /\ LeaveRun(w, Home(w))
  /\ UNCHANGED <<results, counted, calls, drained, env>>

FailRun_NoCommit(w) ==
  /\ At(w, "raised")
  /\ LeaveRun(w, Home(w))
  /\ UNCHANGED <<status, results, old, counted, calls, drained, env>>

(* The commit of "failed" also inserts what the session has buffered.  The *)
(* exception goes on: the flow fails, the drain loop goes round.           *)
FailRun(w) ==
  /\ At(w, "raised")
  /\ IF Known(w) # "complete"
     THEN /\ status' = [status EXCEPT ![run[w]] = "failed"]
          /\ results' = Inserted(w, buffer[w])
     ELSE UNCHANGED <<status, results>>
  /\ LeaveRun(w, Home(w))
  /\ UNCHANGED <<old, counted, calls, drained, env>>

(* A database error in process_pending_cti_run itself: the commit of the   *)
(* claim or of the outcome fails, or an insertion that failed has left the *)
(* drain loop's session in need of a rollback, so that find_by_id raises.  *)
(* Nothing is written; the flow fails, the drain loop rolls back and goes  *)
(* round.                                                                  *)
FlowFails(w) ==
  /\ step[w] \in {"locked", "returned", "raised"}
  /\ faults < MaxFaults
  /\ faults' = faults + 1
  /\ LeaveRun(w, Home(w))
  /\ UNCHANGED <<db, calls, drained, plan, crashes>>

(* Only the reading of the finished run's row fails, no connection being   *)
(* free: the handler takes that for a failure of the run.                  *)
ReadFails(w) ==
  /\ At(w, "returned")
  /\ faults < MaxFaults
  /\ faults' = faults + 1
  /\ Goto(w, "raised")
  /\ UNCHANGED <<db, calls, run, attempt, page, buffer, drained, plan, crashes>>

(* The actor's process dies: its session is rolled back, and the run it    *)
(* had claimed stays "running".                                            *)
Crash(w) ==
  /\ ~At(w, "waiting")
  /\ crashes < MaxCrashes
  /\ crashes' = crashes + 1
  /\ LeaveRun(w, "waiting")
  /\ drained' = [drained EXCEPT ![w] = 0]
  /\ plan' = [q \in Queuers |-> IF q = w THEN {} ELSE plan[q]]
  /\ UNCHANGED <<db, calls, faults>>
-----------------------------------------------------------------------------
Work(w) ==
  \/ Claim(w) \/ DrainSpin(w) \/ DrainEnd(w) \/ CommitClaim(w)
  \/ StartAttempt(w) \/ ScoreItem(w) \/ Aggregate(w)
  \/ CompleteRun(w) \/ ReturnTask(w) \/ AttemptFails(w)
  \/ FinishRun(w) \/ FailRun(w)

Next ==
  \/ \E q \in Queuers : TriggerRead(q) \/ BootstrapRead(q) \/ Enqueue(q)
  \/ \E r \in Runs : Expire(r)
  \/ \E w \in Actors : Work(w) \/ FlowFails(w) \/ ReadFails(w) \/ Crash(w)

Spec == Init /\ [][Next]_vars

(* A process that runs keeps running its code, and Prefect keeps starting  *)
(* flow runs.                                                              *)
FairSpec == Spec /\ \A w \in Actors : WF_vars(Work(w))
-----------------------------------------------------------------------------
(* Safety *)

(* Every variable has its type. *)
TypeOK ==
  /\ status \in [Runs -> Statuses]
  /\ old \in [Runs -> BOOLEAN]
  /\ results \in [Runs -> [Items -> Nat]]
  /\ counted \in [Runs -> Nat]
  /\ calls \in [Runs -> Nat]
  /\ step \in [Actors -> Steps]
  /\ run \in [Actors -> Runs \cup {NoRun}]
  /\ attempt \in [Actors -> 0..MaxAttempts]
  /\ page \in [Actors -> SUBSET Items]
  /\ buffer \in [Actors -> SUBSET Items]
  /\ drained \in [Actors -> 0..DrainLimit]
  /\ plan \in [Queuers -> SUBSET Pairs]
  /\ crashes \in 0..MaxCrashes
  /\ faults \in 0..MaxFaults

(* Flow runs and the bootstrap's loop can drain the same queue: a run is   *)
(* never in two hands.                                                     *)
ExclusiveRun ==
  \A v, w \in Actors : run[v] = run[w] /\ run[v] # NoRun => v = w

(* "Items already scored in this run are skipped": over all attempts of a  *)
(* run, with any part of them lost, an item has at most one result.        *)
NoDuplicateResults ==
  \A r \in Runs, i \in Items : results[r][i] <= 1

(* A run resumes without leaving a gap: at every commit, what it has       *)
(* scored is the oldest part of the slice.                                 *)
NoGap ==
  \A r \in Runs : \A i \in Scored(r), j \in Items : j < i => j \in Scored(r)

(* The aggregate of a complete run is over all of its results, those of    *)
(* interrupted attempts included.                                          *)
AggregateIsWhole ==
  \A r \in Runs : status[r] = "complete" => counted[r] = Cardinality(Scored(r))

(* "Commit results every N items (enables resume)": an attempt that fails  *)
(* wastes the calls of at most one batch.                                  *)
LostWorkBounded ==
  CommitEvery > 0 =>
    \A r \in Runs : calls[r] <= Cardinality(Scored(r)) + MaxAttempts * CommitEvery

(* The cap on inference calls is per attempt: a run pays for at most       *)
(* MaxAttempts pages (and may pay for more than one).                      *)
CallsBounded == \A r \in Runs : calls[r] <= MaxAttempts * MaxItems

(* A run that was started and that nobody works on any more: nothing will  *)
(* take it up again.                                                       *)
Orphaned(r) == status[r] = "running" /\ \A w \in Actors : run[w] # r

(* A failing run, call or attempt never leaves an orphan: each is due to a *)
(* process that died or to the database failing the handler itself.        *)
OrphansBounded == Cardinality({r \in Runs : Orphaned(r)}) <= crashes + faults

(* The queue implements the ledger of runs: whoever takes a run, a flow or *)
(* a drain loop, takes it once and for good, a run whose holder died is    *)
(* not taken up again, and the outcome stands once its holder has gone.    *)
Taken == {run[w] : w \in {v \in Actors : run[v] # NoRun /\ ~At(v, "locked")}}
Ledger == INSTANCE RunLedger WITH taken <- Taken, suspected <- {}
ImplementsLedger == Ledger!Spec

-----------------------------------------------------------------------------
(* Liveness *)

(* Every queued run ends or is orphaned (which OrphansBounded limits): a   *)
(* bad model or endpoint, a crash or a fault never holds up the queue,     *)
(* whoever meets it.                                                       *)
RunsEnd ==
  \A r \in Runs : status[r] = "pending" ~> status[r] \in Terminal \/ Orphaned(r)
-----------------------------------------------------------------------------
(* What the documentation says of a run, and the code does not do *)

(* "A run resumes across cti-scan-pending cycles until the slice is        *)
(* exhausted."                                                             *)
SliceExhausted == \A r \in Runs : status[r] = "complete" => Scored(r) = Items

(* "Resumes cleanly after interruption": a run that was started ends.      *)
InterruptedRunsEnd == \A r \in Runs : status[r] = "running" ~> status[r] \in Terminal
=============================================================================
