-------------------------- MODULE ScanQueueProofs ---------------------------
(***************************************************************************)
(* Proofs about ScanQueue for every number of runs, workers, schedulers,   *)
(* probes and attempts, and every timing.                                  *)
(***************************************************************************)
EXTENDS ScanQueue, FiniteSetTheorems, TLAPS

USE ScanQueueAssumption DEF db, task, worker, env

(* The threshold is a number, whatever the constants. *)
LEMMA StaleAfterNat == StaleAfter \in Nat
<1>1. \A a, b \in Nat : a * b \in Nat
  OBVIOUS
<1>2. MaxAttempts - 1 \in Nat
  OBVIOUS
<1>3. MaxAttempts * GarakTimeout \in Nat
  BY <1>1
<1>4. (MaxAttempts - 1) * RetryDelay \in Nat
  BY <1>1, <1>2
<1>. QED
  BY <1>3, <1>4 DEF StaleAfter

(* A worker that pauses before a retry has one left: what keeps its        *)
(* attempt counter within its type.                                        *)
RetryLeft == \A w \in Workers : At(w, "backoff") => attempt[w] < MaxAttempts

(* A worker holds a run exactly from its claim to the end of its flow.     *)
Holding  == Steps \ {"waiting", "due", "reap", "claim"}
HoldsRun == \A w \in Workers : step[w] \in Holding <=> run[w] # NoRun

TypeInv == TypeOK /\ RetryLeft /\ HoldsRun

(* Types hold at the start, and no step breaks them. *)
LEMMA TypeInit == Init => TypeInv
BY StaleAfterNat DEF Init, TypeInv, TypeOK, RetryLeft, HoldsRun, Holding, At, Steps, Statuses

(* A worker past its claim holds a run row. *)
LEMMA HeldRun ==
  ASSUME TypeInv, NEW w \in Workers, step[w] \in Holding
  PROVE  run[w] \in Runs
BY DEF TypeInv, TypeOK, HoldsRun

(* No handler, retry, crash or tick breaks the types. *)
LEMMA TypeStep == TypeInv /\ [Next]_vars => TypeInv'
<1>. SUFFICES ASSUME TypeInv, [Next]_vars PROVE TypeInv'
  OBVIOUS
<1>. USE DEF TypeInv, TypeOK, RetryLeft, HoldsRun, Holding, At, Goto, EndFlow, SetStatus
<1>1. ASSUME NEW q \in Queuers, ScheduleRead(q) PROVE TypeInv'
  BY <1>1 DEF ScheduleRead
<1>2. ASSUME NEW q \in Queuers, NEW m \in Models,
             OperatorRead(q, m) \/ OperatorOverwrites(q, m)
      PROVE  TypeInv'
  <2>1. CASE OperatorRead(q, m)
    BY <2>1 DEF OperatorRead
  <2>2. CASE OperatorOverwrites(q, m)
    <3>1. overwrites \in Nat /\ overwrites < MaxOverwrites /\ overwrites' = overwrites + 1
      BY <2>2 DEF OperatorOverwrites
    <3>2. overwrites' \in 0..MaxOverwrites
      BY <3>1
    <3>. QED
      BY <2>2, <3>2 DEF OperatorOverwrites
  <2>. QED
    BY <1>2, <2>1, <2>2
<1>3. ASSUME NEW q \in Queuers, Enqueue(q) PROVE TypeInv'
  BY <1>3 DEF Enqueue, Statuses
<1>4. ASSUME NEW w \in Workers, Flow(w) PROVE TypeInv'
  <2>. USE DEF Steps, Statuses
  <2>1. CASE StartFlow(w)
    BY <2>1 DEF StartFlow, StaleRunning
  <2>2. CASE CommitReap(w)
    BY <2>2 DEF CommitReap
  <2>3. CASE Claim(w)
    BY <2>3 DEF Claim
  <2>4. CASE NothingPending(w)
    BY <2>4 DEF NothingPending
  <2>5. CASE CommitClaim(w)
    <3>. USE <2>5 DEF CommitClaim
    <3>1. run[w] \in Runs
      OBVIOUS
    <3>2. TypeOK'
      BY <3>1, StaleAfterNat
    <3>3. RetryLeft' /\ HoldsRun'
      BY <3>1
    <3>. QED
      BY <3>2, <3>3
  <2>6. CASE AttemptStale(w)
    BY <2>6 DEF AttemptStale
  <2>7. CASE AttemptSkip(w)
    BY <2>7 DEF AttemptSkip
  <2>8. CASE StartGarak(w)
    BY <2>8 DEF StartGarak, Remaining
  <2>9. CASE Ingest(w)
    <3>. USE <2>9 DEF Ingest, AfterIngest
    <3>1. run[w] \in Runs
      OBVIOUS
    <3>2. TypeOK'
      BY <3>1
    <3>3. RetryLeft' /\ HoldsRun'
      BY <3>1
    <3>. QED
      BY <3>2, <3>3
  <2>10. CASE CompleteRun(w)
    BY <2>10 DEF CompleteRun
  <2>11. CASE ReturnTask(w)
    BY <2>11 DEF ReturnTask
  <2>12. CASE AttemptFails(w)
    BY <2>12 DEF AttemptFails
  <2>13. CASE RetryAttempt(w)
    BY <2>13 DEF RetryAttempt
  <2>14. CASE FinishRun(w)
    <3>. USE <2>14 DEF FinishRun
    <3>1. run[w] \in Runs
      OBVIOUS
    <3>2. TypeOK'
      BY <3>1
    <3>3. RetryLeft' /\ HoldsRun'
      BY <3>1
    <3>. QED
      BY <3>2, <3>3
  <2>15. CASE FailRun(w)
    BY <2>15 DEF FailRun
  <2>16. CASE WriteDlqEntry(w)
    <3>. USE <2>16 DEF WriteDlqEntry
    <3>1. run[w] \in Runs
      OBVIOUS
    <3>2. TypeOK'
      BY <3>1
    <3>3. RetryLeft' /\ HoldsRun'
      BY <3>1
    <3>. QED
      BY <3>2, <3>3
  <2>. QED
    BY <1>4, <2>1, <2>2, <2>3, <2>4, <2>5, <2>6, <2>7, <2>8, <2>9, <2>10, <2>11,
       <2>12, <2>13, <2>14, <2>15, <2>16 DEF Flow
<1>5. ASSUME NEW w \in Workers, Crash(w) PROVE TypeInv'
  BY <1>5 DEF Crash, Steps, Statuses
<1>6. CASE Tick
  <2>. USE <1>6 DEF Tick
  <2>1. age' \in [Runs -> 0..StaleAfter] /\ scanAge' \in [Models -> 0..ScanTTL]
    BY StaleAfterNat
  <2>2. step' \in [Workers -> Steps] /\ timer' \in [Workers -> Nat]
    BY DEF Steps
  <2>3. \A w \in Workers : step'[w] = step[w] \/ {step[w], step'[w]} \subseteq {"waiting", "due"}
    BY DEF Timed, MayWait
  <2>. QED
    BY <2>1, <2>2, <2>3 DEF Steps
<1>7. CASE UNCHANGED vars
  BY <1>7 DEF vars
<1>. QED
  BY <1>1, <1>2, <1>3, <1>4, <1>5, <1>6, <1>7 DEF Next

(* Every variable keeps its type. *)
THEOREM TypeCorrect == Spec => []TypeOK
<1>1. Spec => []TypeInv
  BY TypeInit, TypeStep, PTL DEF Spec
<1>. QED
  BY <1>1, PTL DEF TypeInv
-----------------------------------------------------------------------------
(* Claims.  A run locked by a claim is pending, a run held later is not,   *)
(* and the reaper never selects a pending one; so a held run cannot be     *)
(* claimed again.                                                          *)
ClaimInv ==
  \A w \in Workers :
    /\ At(w, "locked") => status[run[w]] = "pending"
    /\ step[w] \in Holding \ {"locked"} => status[run[w]] \in {"running", "complete", "failed"}
    /\ \A r \in stale[w] : status[r] \in {"running", "complete", "failed"}

OwnerInv == ExclusiveRun /\ ClaimInv

(* At the start nobody holds a run. *)
LEMMA OwnerInit == Init => OwnerInv
BY DEF Init, OwnerInv, ExclusiveRun, ClaimInv, At, Holding, Steps

(* No step hands a held run to a second worker. *)
LEMMA OwnerStep == TypeInv /\ OwnerInv /\ [Next]_vars => OwnerInv'
<1>. SUFFICES ASSUME TypeInv, OwnerInv, [Next]_vars PROVE OwnerInv'
  OBVIOUS
<1>. USE DEF TypeInv, TypeOK, HoldsRun, Holding, Steps, At, Goto, EndFlow, SetStatus,
            OwnerInv, ExclusiveRun, ClaimInv
<1>1. ASSUME NEW q \in Queuers, ScheduleRead(q) PROVE OwnerInv'
  BY <1>1 DEF ScheduleRead
<1>2. ASSUME NEW q \in Queuers, NEW m \in Models,
             OperatorRead(q, m) \/ OperatorOverwrites(q, m)
      PROVE  OwnerInv'
  BY <1>2 DEF OperatorRead, OperatorOverwrites
<1>3. ASSUME NEW q \in Queuers, Enqueue(q) PROVE OwnerInv'
  BY <1>3 DEF Enqueue
<1>4. ASSUME NEW w \in Workers, Flow(w) PROVE OwnerInv'
  <2>1. CASE StartFlow(w)
    BY <2>1 DEF StartFlow, StaleRunning
  <2>2. CASE CommitReap(w)
    BY <2>2 DEF CommitReap
  <2>3. CASE Claim(w)
    <3>. PICK r \in Runs : Claimable(r) /\ run' = [run EXCEPT ![w] = r]
      BY <2>3 DEF Claim
    <3>. USE <2>3 DEF Claim
    <3>1. ASSUME NEW v \in Workers, run[v] = r PROVE FALSE
      <4>1. step[v] \in Holding
        BY <3>1
      <4>2. step[v] # "locked"
        BY <3>1 DEF Claimable
      <4>. QED
        BY <3>1, <4>1, <4>2 DEF Claimable
    <3>2. ExclusiveRun'
      BY <3>1
    <3>3. ClaimInv'
      BY DEF Claimable
    <3>. QED
      BY <3>2, <3>3
  <2>4. CASE NothingPending(w)
    BY <2>4 DEF NothingPending
  <2>5. CASE CommitClaim(w)
    BY <2>5 DEF CommitClaim
  <2>6. CASE AttemptStale(w)
    BY <2>6 DEF AttemptStale
  <2>7. CASE AttemptSkip(w)
    BY <2>7 DEF AttemptSkip, Remaining
  <2>8. CASE StartGarak(w)
    BY <2>8 DEF StartGarak, Remaining
  <2>9. CASE Ingest(w)
    BY <2>9 DEF Ingest, AfterIngest
  <2>10. CASE CompleteRun(w)
    BY <2>10 DEF CompleteRun
  <2>11. CASE ReturnTask(w)
    BY <2>11 DEF ReturnTask
  <2>12. CASE AttemptFails(w)
    BY <2>12 DEF AttemptFails
  <2>13. CASE RetryAttempt(w)
    BY <2>13 DEF RetryAttempt
  <2>14. CASE FinishRun(w)
    BY <2>14 DEF FinishRun
  <2>15. CASE FailRun(w)
    BY <2>15 DEF FailRun
  <2>16. CASE WriteDlqEntry(w)
    BY <2>16 DEF WriteDlqEntry
  <2>. QED
    BY <1>4, <2>1, <2>2, <2>3, <2>4, <2>5, <2>6, <2>7, <2>8, <2>9, <2>10, <2>11,
       <2>12, <2>13, <2>14, <2>15, <2>16 DEF Flow
<1>5. ASSUME NEW w \in Workers, Crash(w) PROVE OwnerInv'
  BY <1>5 DEF Crash
<1>6. CASE Tick
  BY <1>6 DEF Tick, Timed, MayWait
<1>7. CASE UNCHANGED vars
  BY <1>7 DEF vars
<1>. QED
  BY <1>1, <1>2, <1>3, <1>4, <1>5, <1>6, <1>7 DEF Next

(* Two workers never hold the same run. *)
THEOREM RunsAreExclusive == Spec => []ExclusiveRun
<1>1. Spec => []TypeInv
  BY TypeInit, TypeStep, PTL DEF Spec
<1>2. Spec => []OwnerInv
  BY <1>1, OwnerInit, OwnerStep, PTL DEF Spec
<1>. QED
  BY <1>2, PTL DEF OwnerInv

-----------------------------------------------------------------------------
(* Results.  What a garak call was given stays without results until its   *)
(* report is ingested, because nobody else works on the run.               *)
ResultInv ==
  /\ NoDuplicateResults
  /\ \A w \in Workers : At(w, "garak") => \A p \in todo[w] : results[run[w]][p] = 0

(* At the start nothing is ingested. *)
LEMMA ResultInit == Init => ResultInv
BY DEF Init, ResultInv, NoDuplicateResults, At

(* No step ingests a probe again. *)
LEMMA ResultStep == TypeInv /\ OwnerInv /\ ResultInv /\ [Next]_vars => ResultInv'
<1>. SUFFICES ASSUME TypeInv, OwnerInv, ResultInv, [Next]_vars PROVE ResultInv'
  OBVIOUS
<1>. USE DEF TypeInv, TypeOK, HoldsRun, Holding, Steps, At, Goto, EndFlow, SetStatus,
            OwnerInv, ExclusiveRun, ClaimInv, ResultInv, NoDuplicateResults
<1>1. ASSUME NEW q \in Queuers, ScheduleRead(q) PROVE ResultInv'
  BY <1>1 DEF ScheduleRead
<1>2. ASSUME NEW q \in Queuers, NEW m \in Models,
             OperatorRead(q, m) \/ OperatorOverwrites(q, m)
      PROVE  ResultInv'
  BY <1>2 DEF OperatorRead, OperatorOverwrites
<1>3. ASSUME NEW q \in Queuers, Enqueue(q) PROVE ResultInv'
  BY <1>3 DEF Enqueue
<1>4. ASSUME NEW w \in Workers, Flow(w) PROVE ResultInv'
  <2>1. CASE StartFlow(w)
    BY <2>1 DEF StartFlow, StaleRunning
  <2>2. CASE CommitReap(w)
    BY <2>2 DEF CommitReap
  <2>3. CASE Claim(w)
    BY <2>3 DEF Claim, Claimable
  <2>4. CASE NothingPending(w)
    BY <2>4 DEF NothingPending
  <2>5. CASE CommitClaim(w)
    BY <2>5 DEF CommitClaim
  <2>6. CASE AttemptStale(w)
    BY <2>6 DEF AttemptStale
  <2>7. CASE AttemptSkip(w)
    BY <2>7 DEF AttemptSkip, Remaining
  <2>8. CASE StartGarak(w)
    BY <2>8 DEF StartGarak, Remaining
  <2>9. CASE Ingest(w)
    BY <2>9 DEF Ingest, AfterIngest
  <2>10. CASE CompleteRun(w)
    BY <2>10 DEF CompleteRun
  <2>11. CASE ReturnTask(w)
    BY <2>11 DEF ReturnTask
  <2>12. CASE AttemptFails(w)
    BY <2>12 DEF AttemptFails
  <2>13. CASE RetryAttempt(w)
    BY <2>13 DEF RetryAttempt
  <2>14. CASE FinishRun(w)
    BY <2>14 DEF FinishRun
  <2>15. CASE FailRun(w)
    BY <2>15 DEF FailRun
  <2>16. CASE WriteDlqEntry(w)
    BY <2>16 DEF WriteDlqEntry
  <2>. QED
    BY <1>4, <2>1, <2>2, <2>3, <2>4, <2>5, <2>6, <2>7, <2>8, <2>9, <2>10, <2>11,
       <2>12, <2>13, <2>14, <2>15, <2>16 DEF Flow
<1>5. ASSUME NEW w \in Workers, Crash(w) PROVE ResultInv'
  BY <1>5 DEF Crash
<1>6. CASE Tick
  BY <1>6 DEF Tick, Timed, MayWait
<1>7. CASE UNCHANGED vars
  BY <1>7 DEF vars
<1>. QED
  BY <1>1, <1>2, <1>3, <1>4, <1>5, <1>6, <1>7 DEF Next

-----------------------------------------------------------------------------
(* Dead letters.  The run of a worker that has not ended its flow has no   *)
(* entry yet; the worker that is about to write one has set the run to     *)
(* "failed".                                                               *)
DlqInv ==
  /\ DlqMeansFailed
  /\ \A w \in Workers : /\ run[w] # NoRun => dlq[run[w]] = 0
                        /\ At(w, "dlq") => status[run[w]] = "failed"

(* At the start there are no dead-letter entries. *)
LEMMA DlqInit == Init => DlqInv
BY DEF Init, DlqInv, DlqMeansFailed, At

(* No step takes the outcome of a dead-lettered run back. *)
LEMMA DlqStep == TypeInv /\ OwnerInv /\ DlqInv /\ [Next]_vars => DlqInv'
<1>. SUFFICES ASSUME TypeInv, OwnerInv, DlqInv, [Next]_vars PROVE DlqInv'
  OBVIOUS
<1>a. ASSUME NEW w \in Workers, step[w] = "dlq"
      PROVE  run[w] \in Runs /\ dlq[run[w]] = 0 /\ status[run[w]] = "failed"
  <2>1. run[w] \in Runs
    BY <1>a, HeldRun DEF Holding, Steps
  <2>. QED
    BY <1>a, <2>1 DEF DlqInv, At
<1>b. ASSUME NEW v \in Workers, NEW w \in Workers, step[w] = "dlq", v # w
      PROVE  run[v] # run[w]
  BY <1>a, <1>b DEF OwnerInv, ExclusiveRun
<1>. USE DEF TypeInv, TypeOK, HoldsRun, Holding, Steps, At, Goto, EndFlow, SetStatus,
            OwnerInv, ExclusiveRun, ClaimInv, DlqInv, DlqMeansFailed
<1>1. ASSUME NEW q \in Queuers, ScheduleRead(q) PROVE DlqInv'
  BY <1>1 DEF ScheduleRead
<1>2. ASSUME NEW q \in Queuers, NEW m \in Models,
             OperatorRead(q, m) \/ OperatorOverwrites(q, m)
      PROVE  DlqInv'
  BY <1>2 DEF OperatorRead, OperatorOverwrites
<1>3. ASSUME NEW q \in Queuers, Enqueue(q) PROVE DlqInv'
  <2>. USE <1>3 DEF Enqueue
  <2>1. UNCHANGED <<dlq, step, run>> /\ \A r \in Runs : status'[r] = status[r] \/ status[r] = "absent"
    OBVIOUS
  <2>2. DlqMeansFailed'
    BY <2>1
  <2>3. ASSUME NEW w \in Workers, step[w] = "dlq" PROVE status'[run[w]] = "failed"
    BY <2>1, <2>3, <1>a
  <2>. QED
    BY <2>1, <2>2, <2>3
<1>4. ASSUME NEW w \in Workers, Flow(w) PROVE DlqInv'
  <2>1. CASE StartFlow(w)
    BY <2>1 DEF StartFlow, StaleRunning
  <2>2. CASE CommitReap(w)
    BY <2>2, <1>a DEF CommitReap
  <2>3. CASE Claim(w)
    <3>. PICK r \in Runs : status[r] = "pending" /\ run' = [run EXCEPT ![w] = r]
      BY <2>3 DEF Claim, Claimable
    <3>. USE <2>3 DEF Claim
    <3>0. UNCHANGED <<status, dlq>>
      OBVIOUS
    <3>a. dlq[r] \in Nat /\ (dlq[r] > 0 => status[r] = "failed")
      OBVIOUS
    <3>b. DlqMeansFailed'
      BY <3>0
    <3>1. DlqMeansFailed' /\ dlq[r] = 0
      BY <3>a, <3>b
    <3>2. \A v \in Workers : v # w => run'[v] = run[v] /\ step'[v] = step[v]
      OBVIOUS
    <3>3. step'[w] = "locked" /\ run'[w] = r /\ UNCHANGED db
      OBVIOUS
    <3>4. ASSUME NEW v \in Workers PROVE run'[v] # NoRun => dlq'[run'[v]] = 0
      BY <3>1, <3>2, <3>3
    <3>5. ASSUME NEW v \in Workers, step'[v] = "dlq" PROVE status'[run'[v]] = "failed"
      BY <3>2, <3>3, <3>5
    <3>. QED
      BY <3>1, <3>4, <3>5
  <2>4. CASE NothingPending(w)
    BY <2>4 DEF NothingPending
  <2>5. CASE CommitClaim(w)
    BY <2>5 DEF CommitClaim
  <2>6. CASE AttemptStale(w)
    BY <2>6 DEF AttemptStale
  <2>7. CASE AttemptSkip(w)
    BY <2>7 DEF AttemptSkip, Remaining
  <2>8. CASE StartGarak(w)
    BY <2>8 DEF StartGarak, Remaining
  <2>9. CASE Ingest(w)
    BY <2>9 DEF Ingest, AfterIngest
  <2>10. CASE CompleteRun(w)
    BY <2>10, <1>a, <1>b DEF CompleteRun
  <2>11. CASE ReturnTask(w)
    BY <2>11 DEF ReturnTask
  <2>12. CASE AttemptFails(w)
    BY <2>12 DEF AttemptFails
  <2>13. CASE RetryAttempt(w)
    BY <2>13 DEF RetryAttempt
  <2>14. CASE FinishRun(w)
    BY <2>14, <1>a, <1>b DEF FinishRun
  <2>15. CASE FailRun(w)
    <3>1. run[w] \in Runs
      BY <2>15, HeldRun DEF FailRun
    <3>. QED
      BY <2>15, <3>1, <1>a DEF FailRun
  <2>16. CASE WriteDlqEntry(w)
    BY <2>16, <1>a, <1>b DEF WriteDlqEntry
  <2>. QED
    BY <1>4, <2>1, <2>2, <2>3, <2>4, <2>5, <2>6, <2>7, <2>8, <2>9, <2>10, <2>11,
       <2>12, <2>13, <2>14, <2>15, <2>16 DEF Flow
<1>5. ASSUME NEW w \in Workers, Crash(w) PROVE DlqInv'
  BY <1>5 DEF Crash
<1>6. CASE Tick
  BY <1>6 DEF Tick, Timed, MayWait
<1>7. CASE UNCHANGED vars
  BY <1>7 DEF vars
<1>. QED
  BY <1>1, <1>2, <1>3, <1>4, <1>5, <1>6, <1>7 DEF Next

-----------------------------------------------------------------------------
(* Output.  A worker that will write "complete" has ingested something.    *)
HasOutput(r) == attempts[r] \/ \E p \in Probes : results[r][p] > 0

OutputInv ==
  /\ CompleteHasOutput
  /\ \A w \in Workers : step[w] \in {"ingested", "committed", "returned"} => HasOutput(run[w])

(* At the start no run is complete. *)
LEMMA OutputInit == Init => OutputInv
BY DEF Init, OutputInv, CompleteHasOutput

(* No step completes a run without output. *)
LEMMA OutputStep == TypeInv /\ OwnerInv /\ OutputInv /\ [Next]_vars => OutputInv'
<1>. SUFFICES ASSUME TypeInv, OwnerInv, OutputInv, [Next]_vars PROVE OutputInv'
  OBVIOUS
<1>. USE DEF TypeInv, TypeOK, HoldsRun, Holding, Steps, At, Goto, EndFlow, SetStatus,
            OwnerInv, ExclusiveRun, ClaimInv, OutputInv, CompleteHasOutput, HasOutput
<1>1. ASSUME NEW q \in Queuers, ScheduleRead(q) PROVE OutputInv'
  BY <1>1 DEF ScheduleRead
<1>2. ASSUME NEW q \in Queuers, NEW m \in Models,
             OperatorRead(q, m) \/ OperatorOverwrites(q, m)
      PROVE  OutputInv'
  BY <1>2 DEF OperatorRead, OperatorOverwrites
<1>3. ASSUME NEW q \in Queuers, Enqueue(q) PROVE OutputInv'
  BY <1>3 DEF Enqueue
<1>4. ASSUME NEW w \in Workers, Flow(w) PROVE OutputInv'
  <2>1. CASE StartFlow(w)
    BY <2>1 DEF StartFlow, StaleRunning
  <2>2. CASE CommitReap(w)
    BY <2>2 DEF CommitReap
  <2>3. CASE Claim(w)
    <3>1. UNCHANGED db /\ \A v \in Workers \ {w} : step'[v] = step[v] /\ run'[v] = run[v]
      BY <2>3 DEF Claim
    <3>2. step'[w] = "locked"
      BY <2>3 DEF Claim
    <3>. QED
      BY <3>1, <3>2
  <2>4. CASE NothingPending(w)
    BY <2>4 DEF NothingPending
  <2>5. CASE CommitClaim(w)
    BY <2>5 DEF CommitClaim
  <2>6. CASE AttemptStale(w)
    BY <2>6 DEF AttemptStale
  <2>7. CASE AttemptSkip(w)
    BY <2>7 DEF AttemptSkip, Remaining
  <2>8. CASE StartGarak(w)
    BY <2>8 DEF StartGarak, Remaining
  <2>9. CASE Ingest(w)
    BY <2>9 DEF Ingest, AfterIngest
  <2>10. CASE CompleteRun(w)
    BY <2>10 DEF CompleteRun
  <2>11. CASE ReturnTask(w)
    BY <2>11 DEF ReturnTask
  <2>12. CASE AttemptFails(w)
    BY <2>12 DEF AttemptFails
  <2>13. CASE RetryAttempt(w)
    BY <2>13 DEF RetryAttempt
  <2>14. CASE FinishRun(w)
    BY <2>14 DEF FinishRun
  <2>15. CASE FailRun(w)
    BY <2>15 DEF FailRun
  <2>16. CASE WriteDlqEntry(w)
    BY <2>16 DEF WriteDlqEntry
  <2>. QED
    BY <1>4, <2>1, <2>2, <2>3, <2>4, <2>5, <2>6, <2>7, <2>8, <2>9, <2>10, <2>11,
       <2>12, <2>13, <2>14, <2>15, <2>16 DEF Flow
<1>5. ASSUME NEW w \in Workers, Crash(w) PROVE OutputInv'
  BY <1>5 DEF Crash
<1>6. CASE Tick
  BY <1>6 DEF Tick, Timed, MayWait
<1>7. CASE UNCHANGED vars
  BY <1>7 DEF vars
<1>. QED
  BY <1>1, <1>2, <1>3, <1>4, <1>5, <1>6, <1>7 DEF Next

-----------------------------------------------------------------------------
(* Timing.  Budget(a) is the time a run can have taken when its attempt a  *)
(* starts.                                                                 *)
Round     == AttemptLimit + RetryDelay
Budget(a) == (a - 1) * Round

(* The time budgets of the attempts are numbers, and each adds one attempt  *)
(* and one pause to the one before.                                        *)
LEMMA BudgetFacts ==
  /\ AttemptLimit \in Nat /\ Round \in Nat
  /\ Budget(1) = 0
  /\ \A a \in 1..MaxAttempts : Budget(a) \in Nat
  /\ \A a \in 1..MaxAttempts : Budget(a + 1) = Budget(a) + AttemptLimit + RetryDelay
<1>1. AttemptLimit \in Nat /\ Round \in Nat
  BY DEF AttemptLimit, Round
<1>2. \A m, n \in Nat : m * n \in Nat
  OBVIOUS
<1>3. \A n \in Nat : 0 * n = 0
  OBVIOUS
<1>4. \A m, n \in Nat : (m + 1) * n = m * n + n
  OBVIOUS
<1>5. Budget(1) = 0
  BY <1>1, <1>3 DEF Budget
<1>6. ASSUME NEW a \in 1..MaxAttempts
      PROVE  Budget(a) \in Nat /\ Budget(a + 1) = Budget(a) + AttemptLimit + RetryDelay
  <2>1. a - 1 \in Nat /\ (a + 1) - 1 = (a - 1) + 1
    OBVIOUS
  <2>2. Budget(a) \in Nat
    BY <1>1, <1>2, <2>1 DEF Budget
  <2>3. Budget(a + 1) = Budget(a) + Round
    BY <1>1, <1>4, <2>1 DEF Budget
  <2>. QED
    BY <1>1, <2>2, <2>3 DEF Round
<1>. QED
  BY <1>1, <1>5, <1>6

(* With LastAttemptTiming every attempt but the last, and the pause after  *)
(* it, end before the run is stale.                                        *)
LEMMA EarlierAttempts ==
  ASSUME LastAttemptTiming, NEW a \in 1..MaxAttempts, a < MaxAttempts
  PROVE  Budget(a) + AttemptLimit + RetryDelay < StaleAfter
<1>1. \A m, n, c \in Nat : m <= n => m * c <= n * c
  <2>. SUFFICES ASSUME NEW m \in Nat, NEW n \in Nat, NEW c \in Nat, m <= n
                PROVE  m * c <= n * c
    OBVIOUS
  <2>1. PICK d \in Nat : n = m + d
    <3>. WITNESS n - m \in Nat
    <3>. QED
      OBVIOUS
  <2>2. n * c = m * c + d * c
    BY <2>1
  <2>. QED
    BY <2>2
<1>2. \A m, x, y \in Nat : m * (x + y) = m * x + m * y
  OBVIOUS
<1>3. \A m, n \in Nat : m * n \in Nat
  OBVIOUS
<1>4. \A m, n \in Nat : (m + 1) * n = m * n + n
  OBVIOUS
<1>. DEFINE k == MaxAttempts - 1
<1>5. k \in Nat /\ k + 1 = MaxAttempts /\ a \in Nat /\ a <= k
  OBVIOUS
<1>6. AttemptLimit \in Nat /\ Round \in Nat
  BY BudgetFacts
<1>7. Budget(a) + AttemptLimit + RetryDelay = a * Round
  <2>1. a - 1 \in Nat /\ (a - 1) + 1 = a
    OBVIOUS
  <2>2. a * Round = (a - 1) * Round + Round
    BY <1>4, <1>6, <2>1
  <2>3. (a - 1) * Round \in Nat
    BY <1>3, <1>6, <2>1
  <2>. QED
    BY <1>6, <2>2, <2>3 DEF Budget, Round
<1>8. a * Round <= k * Round
  BY <1>1, <1>5, <1>6
<1>9. k * Round = k * AttemptLimit + k * RetryDelay
  BY <1>2, <1>5, <1>6 DEF Round
<1>10. k * AttemptLimit = k * GarakTimeout + k * TimeoutSlack
  BY <1>2, <1>5 DEF AttemptLimit
<1>11. MaxAttempts * GarakTimeout = k * GarakTimeout + GarakTimeout
  BY <1>4, <1>5
<1>12. /\ {k * GarakTimeout, k * TimeoutSlack, k * RetryDelay} \subseteq Nat
       /\ a * Round \in Nat
  BY <1>3, <1>5, <1>6
<1>13. StaleAfter = MaxAttempts * GarakTimeout + k * RetryDelay + StaleSlack
  BY DEF StaleAfter
<1>14. k * TimeoutSlack < GarakTimeout + StaleSlack
  BY DEF LastAttemptTiming
<1>. HIDE DEF k
<1>. QED
  BY <1>7, <1>8, <1>9, <1>10, <1>11, <1>12, <1>13, <1>14

(* How much of its budget a worker has used, by the step it is at.         *)
Within(w) ==
  LET used == age[run[w]]
      from == Budget(attempt[w])
  IN  /\ step[w] \in Holding \ {"locked"} => attempt[w] \in 1..MaxAttempts
      /\ step[w] = "attempt" => used <= from
      /\ step[w] \in {"garak", "ingested", "committed"} =>
           timer[w] <= AttemptLimit /\ used <= from + timer[w]
      /\ step[w] = "backoff" =>
           timer[w] <= RetryDelay /\ used <= from + AttemptLimit + timer[w]
      /\ step[w] \in {"returned", "raised", "dlq"} => used <= from + AttemptLimit

TimeInv ==
  \A w \in Workers : Within(w) /\ \A r \in stale[w] : age[r] = StaleAfter

(* At the start no worker has used any time. *)
LEMMA TimeInit == Init => TimeInv
BY DEF Init, TimeInv, Within, Holding, Steps

(* A worker whose step, run, attempt, timer and run's age do not change    *)
(* stays within its budget.                                                *)
LEMMA WithinFrame ==
  ASSUME NEW v \in Workers, Within(v),
         step'[v] = step[v], run'[v] = run[v], attempt'[v] = attempt[v],
         timer'[v] = timer[v], age'[run[v]] = age[run[v]]
  PROVE  Within(v)'
BY DEF Within

(* A worker's own step, when it leaves every age alone.                    *)
LEMMA TimeStepOfWorker ==
  ASSUME TypeInv, TimeInv, NEW w \in Workers, Flow(w), UNCHANGED age, stale'[w] \subseteq stale[w],
         Within(w)'
  PROVE  TimeInv'
<1>1. ASSUME NEW v \in Workers, v # w PROVE Within(v)' /\ stale'[v] = stale[v]
  <2>1. /\ step'[v] = step[v] /\ run'[v] = run[v] /\ attempt'[v] = attempt[v]
        /\ timer'[v] = timer[v] /\ stale'[v] = stale[v]
    BY <1>1 DEF Flow, StartFlow, CommitReap, Claim, NothingPending, CommitClaim, AttemptStale,
       AttemptSkip, StartGarak, Ingest, CompleteRun, ReturnTask, AttemptFails, RetryAttempt,
       FinishRun, FailRun, WriteDlqEntry, TypeInv, TypeOK, Goto, EndFlow
  <2>. QED
    BY <2>1, WithinFrame DEF TimeInv
<1>. QED
  BY <1>1 DEF TimeInv

(* No step lets a run grow older than its attempts allow. *)
LEMMA TimeStep == TypeInv /\ OwnerInv /\ TimeInv /\ [Next]_vars => TimeInv'
<1>. SUFFICES ASSUME TypeInv, OwnerInv, TimeInv, [Next]_vars PROVE TimeInv'
  OBVIOUS
<1>0. \A r \in StaleRunning : age[r] = StaleAfter
  <2>1. \A r \in Runs : age[r] \in 0..StaleAfter
    BY DEF TypeInv, TypeOK
  <2>. QED
    BY <2>1, StaleAfterNat DEF StaleRunning
<1>1. ASSUME NEW q \in Queuers, ScheduleRead(q) PROVE TimeInv'
  BY <1>1 DEF ScheduleRead, TimeInv, Within
<1>2. ASSUME NEW q \in Queuers, NEW m \in Models,
             OperatorRead(q, m) \/ OperatorOverwrites(q, m)
      PROVE  TimeInv'
  BY <1>2 DEF OperatorRead, OperatorOverwrites, TimeInv, Within
<1>3. ASSUME NEW q \in Queuers, Enqueue(q) PROVE TimeInv'
  BY <1>3 DEF Enqueue, TimeInv, Within
<1>4. ASSUME NEW w \in Workers, Flow(w) PROVE TimeInv'
  <2>. USE BudgetFacts DEF TypeInv, TypeOK, Holding, Steps, At, Goto, EndFlow
  <2>0. /\ Within(w)
        /\ step[w] \in Holding => run[w] \in Runs
    BY HeldRun DEF TimeInv
  <2>1. CASE StartFlow(w)
    <3>1. ASSUME NEW v \in Workers PROVE Within(v)'
      BY <1>4, <2>1, WithinFrame DEF StartFlow, TimeInv, Within
    <3>2. ASSUME NEW v \in Workers, NEW r \in stale'[v] PROVE age'[r] = StaleAfter
      <4>1. UNCHANGED age /\ (r \in stale[v] \/ r \in StaleRunning)
        BY <2>1, <3>2 DEF StartFlow
      <4>. QED
        BY <1>0, <4>1 DEF TimeInv
    <3>. QED
      BY <3>1, <3>2 DEF TimeInv
  <2>2. CASE CommitReap(w)
    <3>1. Within(w)' /\ UNCHANGED age /\ stale'[w] \subseteq stale[w]
      BY <2>2, <2>0 DEF CommitReap, Within
    <3>. QED
      BY <1>4, <3>1, TimeStepOfWorker
  <2>3. CASE Claim(w)
    <3>1. Within(w)' /\ UNCHANGED age /\ stale'[w] \subseteq stale[w]
      BY <2>3, <2>0 DEF Claim, Claimable, Within
    <3>. QED
      BY <1>4, <3>1, TimeStepOfWorker
  <2>4. CASE NothingPending(w)
    <3>1. Within(w)' /\ UNCHANGED age /\ stale'[w] \subseteq stale[w]
      BY <2>4, <2>0 DEF NothingPending, Within
    <3>. QED
      BY <1>4, <3>1, TimeStepOfWorker
  <2>5. CASE CommitClaim(w)
    <3>. USE <2>5 DEF CommitClaim
    <3>1. Within(w)'
      BY <2>0, StaleAfterNat DEF Within
    <3>2. ASSUME NEW v \in Workers, v # w PROVE Within(v)'
      <4>1. age'[run[v]] = age[run[v]]
        BY <2>0, <3>2 DEF OwnerInv, ExclusiveRun
      <4>. QED
        BY <3>2, <4>1, WithinFrame DEF TimeInv
    <3>3. ASSUME NEW v \in Workers, NEW r \in stale'[v] PROVE age'[r] = StaleAfter
      <4>1. r \in stale[v] /\ r \in Runs
        BY <3>3
      <4>2. status[r] # "pending"
        BY <4>1 DEF OwnerInv, ClaimInv
      <4>3. status[run[w]] = "pending"
        BY DEF OwnerInv, ClaimInv
      <4>4. age[r] = StaleAfter
        BY <4>1 DEF TimeInv
      <4>. QED
        BY <4>1, <4>2, <4>3, <4>4
    <3>. QED
      BY <3>1, <3>2, <3>3 DEF TimeInv
  <2>6. CASE AttemptStale(w)
    <3>1. Within(w)' /\ UNCHANGED age /\ stale'[w] \subseteq stale[w]
      BY <2>6, <2>0 DEF AttemptStale, Within
    <3>. QED
      BY <1>4, <3>1, TimeStepOfWorker
  <2>7. CASE AttemptSkip(w)
    <3>1. Within(w)' /\ UNCHANGED age /\ stale'[w] \subseteq stale[w]
      BY <2>7, <2>0 DEF AttemptSkip, Remaining, Within
    <3>. QED
      BY <1>4, <3>1, TimeStepOfWorker
  <2>8. CASE StartGarak(w)
    <3>1. Within(w)' /\ UNCHANGED age /\ stale'[w] \subseteq stale[w]
      BY <2>8, <2>0 DEF StartGarak, Remaining, Within
    <3>. QED
      BY <1>4, <3>1, TimeStepOfWorker
  <2>9. CASE Ingest(w)
    <3>1. Within(w)' /\ UNCHANGED age /\ stale'[w] \subseteq stale[w]
      BY <2>9, <2>0 DEF Ingest, AfterIngest, Within
    <3>. QED
      BY <1>4, <3>1, TimeStepOfWorker
  <2>10. CASE CompleteRun(w)
    <3>1. Within(w)' /\ UNCHANGED age /\ stale'[w] \subseteq stale[w]
      BY <2>10, <2>0 DEF CompleteRun, Within
    <3>. QED
      BY <1>4, <3>1, TimeStepOfWorker
  <2>11. CASE ReturnTask(w)
    <3>1. Within(w)' /\ UNCHANGED age /\ stale'[w] \subseteq stale[w]
      BY <2>11, <2>0 DEF ReturnTask, Within
    <3>. QED
      BY <1>4, <3>1, TimeStepOfWorker
  <2>12. CASE AttemptFails(w)
    <3>1. Within(w)' /\ UNCHANGED age /\ stale'[w] \subseteq stale[w]
      BY <2>12, <2>0 DEF AttemptFails, Within
    <3>. QED
      BY <1>4, <3>1, TimeStepOfWorker
  <2>13. CASE RetryAttempt(w)
    <3>1. Within(w)' /\ UNCHANGED age /\ stale'[w] \subseteq stale[w]
      <4>1. /\ step[w] = "backoff" /\ timer[w] = RetryDelay /\ timer' = timer
            /\ attempt[w] \in 1..MaxAttempts /\ attempt[w] < MaxAttempts
            /\ age[run[w]] <= Budget(attempt[w]) + AttemptLimit + timer[w]
        BY <2>13, <2>0 DEF RetryAttempt, RetryLeft, Within
      <4>2. /\ step'[w] = "attempt" /\ attempt'[w] = attempt[w] + 1
            /\ UNCHANGED <<age, run, stale>>
        BY <2>13 DEF RetryAttempt
      <4>3. Budget(attempt'[w]) = Budget(attempt[w]) + AttemptLimit + RetryDelay
        BY <4>1, <4>2
      <4>4. attempt'[w] \in 1..MaxAttempts
        BY <4>1, <4>2
      <4>. QED
        BY <4>1, <4>2, <4>3, <4>4 DEF Within
    <3>. QED
      BY <1>4, <3>1, TimeStepOfWorker
  <2>14. CASE FinishRun(w)
    <3>1. Within(w)' /\ UNCHANGED age /\ stale'[w] \subseteq stale[w]
      BY <2>14, <2>0 DEF FinishRun, Within
    <3>. QED
      BY <1>4, <3>1, TimeStepOfWorker
  <2>15. CASE FailRun(w)
    <3>1. Within(w)' /\ UNCHANGED age /\ stale'[w] \subseteq stale[w]
      BY <2>15, <2>0 DEF FailRun, Within
    <3>. QED
      BY <1>4, <3>1, TimeStepOfWorker
  <2>16. CASE WriteDlqEntry(w)
    <3>1. Within(w)' /\ UNCHANGED age /\ stale'[w] \subseteq stale[w]
      BY <2>16, <2>0 DEF WriteDlqEntry, Within
    <3>. QED
      BY <1>4, <3>1, TimeStepOfWorker
  <2>. QED
    BY <1>4, <2>1, <2>2, <2>3, <2>4, <2>5, <2>6, <2>7, <2>8, <2>9, <2>10, <2>11,
       <2>12, <2>13, <2>14, <2>15, <2>16 DEF Flow
<1>5. ASSUME NEW w \in Workers, Crash(w) PROVE TimeInv'
  <2>1. ASSUME NEW v \in Workers, v # w PROVE Within(v)'
    BY <1>5, <2>1, WithinFrame DEF Crash, EndFlow, Goto, TimeInv, TypeInv, TypeOK
  <2>2. Within(w)'
    BY <1>5 DEF Crash, EndFlow, Goto, TypeInv, TypeOK, Within, Holding, Steps
  <2>. QED
    BY <1>5, <2>1, <2>2 DEF Crash, EndFlow, TimeInv, TypeInv, TypeOK
<1>6. CASE Tick
  <2>. USE <1>6, BudgetFacts, StaleAfterNat DEF Tick, TypeInv, TypeOK
  <2>1. ASSUME NEW v \in Workers PROVE Within(v)'
    <3>1. Within(v) /\ MayWait(v) /\ (step[v] \in Holding => run[v] \in Runs)
      BY HeldRun DEF TimeInv
    <3>2. run[v] \in Runs => age'[run[v]] <= age[run[v]] + 1
      OBVIOUS
    <3>. QED
      BY <3>1, <3>2 DEF MayWait, Within, Timed, At, Holding, Steps
  <2>2. ASSUME NEW v \in Workers, NEW r \in stale'[v] PROVE age'[r] = StaleAfter
    BY <2>2 DEF TimeInv
  <2>. QED
    BY <2>1, <2>2 DEF TimeInv
<1>7. CASE UNCHANGED vars
  BY <1>7 DEF vars, TimeInv, Within
<1>. QED
  BY <1>1, <1>2, <1>3, <1>4, <1>5, <1>6, <1>7 DEF Next

(* A run that the reaper takes has no retry left: with the threshold of    *)
(* the code, which the slack of the attempts before the last cannot use    *)
(* up, reaping never costs a run an attempt.                               *)
THEOREM ReaperCostsNoRetry == ASSUME LastAttemptTiming PROVE Spec => []OnlyLastAttemptReaped
<1>1. TypeInv /\ OwnerInv /\ TimeInv => OnlyLastAttemptReaped
  <2>. SUFFICES ASSUME TypeInv, OwnerInv, TimeInv, NEW v \in Workers, NEW w \in Workers,
                       run[w] # NoRun, run[w] \in stale[v], attempt[w] # MaxAttempts
                PROVE  FALSE
    BY DEF OnlyLastAttemptReaped
  <2>1. step[w] \in Holding \ {"locked"}
    BY DEF TypeInv, HoldsRun, OwnerInv, ClaimInv, At
  <2>2. age[run[w]] = StaleAfter
    BY DEF TimeInv
  <2>3. Within(w) /\ timer[w] \in Nat /\ step[w] \in Steps /\ age[run[w]] \in Nat
    BY <2>1, HeldRun, StaleAfterNat DEF TimeInv, TypeInv, TypeOK
  <2>4. attempt[w] \in 1..MaxAttempts
    BY <2>1, <2>3 DEF Within
  <2>5. Budget(attempt[w]) \in Nat
    BY <2>4, BudgetFacts
  <2>6. age[run[w]] <= Budget(attempt[w]) + AttemptLimit + RetryDelay
    <3>1. CASE step[w] \in {"attempt", "returned", "raised", "dlq"}
      BY <2>3, <2>5, <3>1, BudgetFacts DEF Within
    <3>2. CASE step[w] = "backoff"
      BY <2>3, <2>5, <3>2, BudgetFacts DEF Within
    <3>3. CASE step[w] \in {"garak", "ingested", "committed"}
      BY <2>3, <2>5, <3>3, BudgetFacts DEF Within
    <3>. QED
      BY <2>1, <3>1, <3>2, <3>3 DEF Holding, Steps
  <2>7. Budget(attempt[w]) + AttemptLimit + RetryDelay < StaleAfter
    BY <2>4, EarlierAttempts
  <2>. QED
    BY <2>2, <2>3, <2>5, <2>6, <2>7, StaleAfterNat, BudgetFacts
<1>2. Spec => []TypeInv
  BY TypeInit, TypeStep, PTL DEF Spec
<1>3. Spec => []OwnerInv
  BY <1>2, OwnerInit, OwnerStep, PTL DEF Spec
<1>4. Spec => []TimeInv
  BY <1>2, <1>3, TimeInit, TimeStep, PTL DEF Spec
<1>. QED
  BY <1>1, <1>2, <1>3, <1>4, PTL
-----------------------------------------------------------------------------
(* The parts of the inductive invariant that hold whatever the timing. *)
LEMMA Inductive == Spec => [](TypeInv /\ OwnerInv /\ ResultInv /\ DlqInv /\ OutputInv)
<1>1. Spec => []TypeInv
  BY TypeInit, TypeStep, PTL DEF Spec
<1>2. Spec => []OwnerInv
  BY <1>1, OwnerInit, OwnerStep, PTL DEF Spec
<1>3. Spec => []ResultInv
  BY <1>1, <1>2, ResultInit, ResultStep, PTL DEF Spec
<1>4. Spec => []DlqInv
  BY <1>1, <1>2, DlqInit, DlqStep, PTL DEF Spec
<1>5. Spec => []OutputInv
  BY <1>1, <1>2, OutputInit, OutputStep, PTL DEF Spec
<1>. QED
  BY <1>1, <1>2, <1>3, <1>4, <1>5, PTL

(* No probe is ingested twice into a run, whatever fails and is retried.   *)
THEOREM ResultsAreNotDuplicated == Spec => []NoDuplicateResults
BY Inductive, PTL DEF ResultInv

(* A dead-letter entry is the only one of its run, which is "failed".      *)
THEOREM DlqAgreesWithRuns == Spec => []DlqMeansFailed
BY Inductive, PTL DEF DlqInv

(* A run that is "complete" has ingested something.                        *)
THEOREM CompleteRunsHaveOutput == Spec => []CompleteHasOutput
BY Inductive, PTL DEF OutputInv
-----------------------------------------------------------------------------
(* Refinement.  A worker has runs selected only between its two reaping    *)
(* steps.                                                                  *)
ReapInv == \A w \in Workers : ~At(w, "reap") => stale[w] = {}

(* At the start no reaper has selected anything. *)
LEMMA ReapInit == Init => ReapInv
BY DEF Init, ReapInv

(* No step leaves a selection behind. *)
LEMMA ReapStep == TypeInv /\ ReapInv /\ [Next]_vars => ReapInv'
<1>. SUFFICES ASSUME TypeInv, ReapInv, [Next]_vars, NEW v \in Workers, step'[v] # "reap"
              PROVE  stale'[v] = {}
  BY DEF ReapInv, At
<1>. USE DEF TypeInv, TypeOK, ReapInv, At, Goto, EndFlow
<1>1. ASSUME NEW w \in Workers, Flow(w) PROVE stale'[v] = {}
  <2>1. CASE v = w
    BY <1>1, <2>1 DEF Flow, StartFlow, CommitReap, Claim, NothingPending, CommitClaim,
       AttemptStale, AttemptSkip, StartGarak, Ingest, CompleteRun, ReturnTask, AttemptFails,
       RetryAttempt, FinishRun, FailRun, WriteDlqEntry
  <2>2. CASE v # w
    BY <1>1, <2>2 DEF Flow, StartFlow, CommitReap, Claim, NothingPending, CommitClaim,
       AttemptStale, AttemptSkip, StartGarak, Ingest, CompleteRun, ReturnTask, AttemptFails,
       RetryAttempt, FinishRun, FailRun, WriteDlqEntry
  <2>. QED
    BY <2>1, <2>2
<1>2. ASSUME ~ \E w \in Workers : Flow(w) PROVE stale'[v] = {}
  BY <1>2 DEF Next, ScheduleRead, OperatorRead, OperatorOverwrites, Enqueue, Crash, Tick, Timed,
     MayWait, vars
<1>. QED
  BY <1>1, <1>2

(* Two ways in which Taken changes little: a worker moves on with the run  *)
(* it has, or ends its flow.                                               *)
LEMMA TakenKept ==
  ASSUME TypeInv, NEW w \in Workers, NEW s \in Steps, Goto(w, s), UNCHANGED run,
         ~At(w, "locked"), s # "locked"
  PROVE  Taken' = Taken
BY DEF TypeInv, TypeOK, Taken, At, Goto

(* A worker that ends its flow lets go of its run, and of no other. *)
LEMMA TakenEnd ==
  ASSUME TypeInv, ExclusiveRun, NEW w \in Workers, EndFlow(w)
  PROVE  Taken' = IF At(w, "locked") THEN Taken ELSE Taken \ {run[w]}
<1>. USE DEF TypeInv, TypeOK, ExclusiveRun, At, EndFlow, Goto
<1>1. \A v \in Workers \ {w} : run'[v] = run[v] /\ step'[v] = step[v]
  OBVIOUS
<1>2. run'[w] = NoRun
  OBVIOUS
<1>3. \A v \in Workers \ {w} : run[v] # NoRun => run[v] # run[w]
  OBVIOUS
<1>. QED
  BY <1>1, <1>2, <1>3 DEF Taken

(* The empty queue is the empty ledger. *)
LEMMA LedgerInit == Init => Ledger!Init
BY DEF Init, Ledger!Init, Taken, Suspected

(* Every step of the queue is a step of the ledger, or leaves it alone.    *)
LEMMA LedgerStep ==
  TypeInv /\ OwnerInv /\ ReapInv /\ [Next]_vars
    => [Ledger!Next]_<<status, Taken, Suspected>>
<1>. SUFFICES ASSUME TypeInv, OwnerInv, ReapInv, [Next]_vars
              PROVE  [Ledger!Next]_<<status, Taken, Suspected>>
  OBVIOUS
<1>a. ASSUME stale' = stale PROVE Suspected' = Suspected
  BY <1>a DEF Suspected
<1>b. ASSUME NEW w \in Workers, EndFlow(w), ~At(w, "reap") PROVE Suspected' = Suspected
  <2>1. stale' = stale
    BY <1>b DEF EndFlow, ReapInv, TypeInv, TypeOK
  <2>. QED
    BY <1>a, <2>1
<1>0. ASSUME NEW w \in Workers, step[w] \in Holding \ {"locked"}
      PROVE  run[w] \in Runs /\ run[w] \in Taken /\ ~At(w, "locked")
  BY <1>0, HeldRun DEF Taken, At, TypeInv, HoldsRun
<1>1. ASSUME NEW q \in Queuers, ScheduleRead(q) PROVE UNCHANGED <<status, Taken, Suspected>>
  BY <1>1, <1>a DEF ScheduleRead, Taken, At
<1>2. ASSUME NEW q \in Queuers, NEW m \in Models,
             OperatorRead(q, m) \/ OperatorOverwrites(q, m)
      PROVE  UNCHANGED <<status, Taken, Suspected>>
  BY <1>2, <1>a DEF OperatorRead, OperatorOverwrites, Taken, At
<1>3. ASSUME NEW q \in Queuers, Enqueue(q) PROVE \E new \in SUBSET Runs : Ledger!Submit(new)
  <2>1. UNCHANGED <<Taken, Suspected>>
    BY <1>3, <1>a DEF Enqueue, Taken, At
  <2>2. PICK new \in SUBSET {r \in Runs : status[r] = "absent"} :
          status' = [r \in Runs |-> IF r \in new THEN "pending" ELSE status[r]]
    BY <1>3 DEF Enqueue
  <2>. QED
    BY <2>1, <2>2 DEF Ledger!Submit
<1>4. ASSUME NEW w \in Workers, Flow(w) PROVE [Ledger!Next]_<<status, Taken, Suspected>>
  <2>. USE DEF At, Holding, Steps
  <2>1. CASE StartFlow(w)
    <3>1. UNCHANGED Taken
      BY <2>1, TakenKept DEF StartFlow
    <3>2. stale[w] = {} /\ stale' = [stale EXCEPT ![w] = StaleRunning]
      BY <2>1 DEF StartFlow, ReapInv
    <3>3. Suspected' = Suspected \cup StaleRunning
      BY <3>2 DEF Suspected, TypeInv, TypeOK
    <3>4. Ledger!Suspect(StaleRunning) /\ StaleRunning \in SUBSET Runs
      BY <2>1, <3>1, <3>3 DEF StartFlow, Ledger!Suspect, StaleRunning
    <3>. QED
      BY <3>4 DEF Ledger!Next
  <2>2. CASE CommitReap(w)
    <3>1. UNCHANGED Taken
      BY <2>2, TakenKept DEF CommitReap
    <3>2. stale[w] \in SUBSET Runs /\ stale[w] \subseteq Suspected
      BY DEF TypeInv, TypeOK, Suspected
    <3>3. Suspected' \in SUBSET Suspected
      BY <2>2 DEF CommitReap, Suspected, TypeInv, TypeOK
    <3>4. Ledger!WriteOff(stale[w])
      BY <2>2, <3>1, <3>2, <3>3 DEF CommitReap, Ledger!WriteOff
    <3>. QED
      BY <3>2, <3>4 DEF Ledger!Next
  <2>3. CASE Claim(w)
    <3>1. /\ step[w] = "claim" /\ step' = [step EXCEPT ![w] = "locked"]
          /\ \A v \in Workers \ {w} : run'[v] = run[v]
      BY <2>3 DEF Claim, Goto, TypeInv, TypeOK
    <3>2. run[w] = NoRun
      BY <3>1 DEF TypeInv, HoldsRun
    <3>3. step'[w] = "locked" /\ \A v \in Workers \ {w} : step'[v] = step[v]
      BY <3>1 DEF TypeInv, TypeOK
    <3>4. UNCHANGED Taken
      BY <3>1, <3>2, <3>3 DEF Taken
    <3>. QED
      BY <2>3, <3>4, <1>a DEF Claim
  <2>4. CASE NothingPending(w)
    <3>1. run[w] = NoRun
      BY <2>4 DEF NothingPending, TypeInv, HoldsRun
    <3>2. UNCHANGED Taken
      BY <2>4, <3>1, TakenEnd DEF NothingPending, OwnerInv, Taken
    <3>. QED
      BY <2>4, <3>2, <1>b DEF NothingPending
  <2>5. CASE CommitClaim(w)
    <3>1. run[w] \in Runs /\ run[w] # NoRun /\ status[run[w]] = "pending"
      BY <2>5, HeldRun DEF CommitClaim, OwnerInv, ClaimInv
    <3>2. /\ step' = [step EXCEPT ![w] = "attempt"] /\ run' = run
          /\ status' = [status EXCEPT ![run[w]] = "running"]
      BY <2>5 DEF CommitClaim, Goto, SetStatus
    <3>3. Taken' = Taken \cup {run[w]}
      BY <3>1, <3>2 DEF Taken, TypeInv, TypeOK
    <3>4. Ledger!Take(run[w])
      BY <2>5, <3>1, <3>2, <3>3, <1>a DEF CommitClaim, Ledger!Take
    <3>. QED
      BY <3>1, <3>4 DEF Ledger!Next
  <2>6. CASE AttemptStale(w)
    BY <2>6, <1>a, TakenKept DEF AttemptStale
  <2>7. CASE AttemptSkip(w)
    BY <2>7, <1>a, TakenKept DEF AttemptSkip
  <2>8. CASE StartGarak(w)
    BY <2>8, <1>a, TakenKept DEF StartGarak
  <2>9. CASE Ingest(w)
    <3>1. PICK s \in {"raised", "ingested"} : Goto(w, s)
      BY <2>9 DEF Ingest, AfterIngest
    <3>. QED
      BY <2>9, <3>1, <1>a, TakenKept DEF Ingest
  <2>10. CASE CompleteRun(w)
    <3>. USE <2>10 DEF CompleteRun
    <3>1. run[w] \in Runs /\ run[w] \in Taken
      BY <1>0
    <3>2. Taken' = Taken /\ Suspected' = Suspected
      BY <1>a, TakenKept
    <3>3. Ledger!Report(run[w], "complete")
      BY <3>1, <3>2 DEF Ledger!Report, SetStatus
    <3>. QED
      BY <3>1, <3>3 DEF Ledger!Next, Ledger!Outcomes
  <2>11. CASE ReturnTask(w)
    BY <2>11, <1>a, TakenKept DEF ReturnTask
  <2>12. CASE AttemptFails(w)
    <3>1. PICK s \in {"backoff", "raised"} : Goto(w, s)
      BY <2>12 DEF AttemptFails
    <3>. QED
      BY <2>12, <3>1, <1>a, TakenKept DEF AttemptFails
  <2>13. CASE RetryAttempt(w)
    BY <2>13, <1>a, TakenKept DEF RetryAttempt
  <2>14. CASE FinishRun(w)
    <3>. USE <2>14 DEF FinishRun
    <3>1. run[w] \in Runs /\ run[w] \in Taken
      BY <1>0
    <3>2. Taken' = Taken \ {run[w]} /\ Suspected' = Suspected
      BY <1>b, TakenEnd DEF OwnerInv
    <3>3. Ledger!Report(run[w], "complete")
      BY <3>1, <3>2 DEF Ledger!Report, SetStatus
    <3>. QED
      BY <3>1, <3>3 DEF Ledger!Next, Ledger!Outcomes
  <2>15. CASE FailRun(w)
    <3>. USE <2>15 DEF FailRun
    <3>1. run[w] \in Runs /\ run[w] \in Taken
      BY <1>0
    <3>2. Taken' = Taken /\ Suspected' = Suspected
      BY <1>a, TakenKept
    <3>3. Ledger!Report(run[w], "failed")
      BY <3>1, <3>2 DEF Ledger!Report, SetStatus
    <3>. QED
      BY <3>1, <3>3 DEF Ledger!Next, Ledger!Outcomes
  <2>16. CASE WriteDlqEntry(w)
    <3>. USE <2>16 DEF WriteDlqEntry
    <3>1. run[w] \in Runs /\ run[w] \in Taken
      BY <1>0
    <3>2. Taken' = Taken \ {run[w]} /\ Suspected' = Suspected
      BY <1>b, TakenEnd DEF OwnerInv
    <3>3. Ledger!LetGo(run[w])
      BY <3>1, <3>2 DEF Ledger!LetGo
    <3>. QED
      BY <3>1, <3>3 DEF Ledger!Next
  <2>. QED
    BY <1>4, <2>1, <2>2, <2>3, <2>4, <2>5, <2>6, <2>7, <2>8, <2>9, <2>10, <2>11,
       <2>12, <2>13, <2>14, <2>15, <2>16 DEF Flow
<1>5. ASSUME NEW w \in Workers, Crash(w) PROVE [Ledger!Next]_<<status, Taken, Suspected>>
  <2>1. UNCHANGED status /\ EndFlow(w)
    BY <1>5 DEF Crash
  <2>2. CASE run[w] \in Taken /\ ~At(w, "locked")
    <3>1. run[w] \in Runs /\ run[w] # NoRun
      BY <2>2 DEF Taken, TypeInv, TypeOK
    <3>2. Taken' = Taken \ {run[w]}
      BY <2>1, <2>2, TakenEnd DEF OwnerInv
    <3>3. Suspected' = Suspected
      BY <2>1, <3>1, <1>b DEF TypeInv, HoldsRun, Holding, At
    <3>4. Ledger!LetGo(run[w])
      BY <2>1, <2>2, <3>2, <3>3 DEF Ledger!LetGo
    <3>. QED
      BY <3>1, <3>4 DEF Ledger!Next
  <2>3. CASE ~(run[w] \in Taken /\ ~At(w, "locked"))
    <3>1. UNCHANGED Taken
      BY <2>1, <2>3, TakenEnd DEF OwnerInv
    <3>2. Suspected' \in SUBSET Suspected
      BY <2>1 DEF EndFlow, Suspected, TypeInv, TypeOK
    <3>3. status' = [r \in Runs |-> status[r]]
      BY <2>1 DEF TypeInv, TypeOK
    <3>4. Ledger!WriteOff({})
      BY <3>1, <3>2, <3>3 DEF Ledger!WriteOff
    <3>. QED
      BY <3>4 DEF Ledger!Next
  <2>. QED
    BY <2>2, <2>3
<1>6. CASE Tick
  <2>1. \A w \in Workers : step'[w] = step[w] \/ {step[w], step'[w]} \subseteq {"waiting", "due"}
    BY <1>6 DEF Tick, Timed, MayWait, At, TypeInv, TypeOK
  <2>2. run' = run /\ status' = status /\ Suspected' = Suspected
    BY <1>6, <1>a DEF Tick
  <2>. QED
    BY <2>1, <2>2 DEF Taken, At
<1>7. CASE UNCHANGED vars
  BY <1>7, <1>a DEF vars, Taken, At
<1>. QED
  BY <1>1, <1>2, <1>3, <1>4, <1>5, <1>6, <1>7 DEF Next, Ledger!Next

(* Whatever the timing, the queue implements the ledger: a run is handed   *)
(* over once, and its outcome stands once neither its worker nor a reaper  *)
(* has it in hand.                                                         *)
THEOREM QueueImplementsLedger == Spec => ImplementsLedger
<1>1. Spec => []TypeInv
  BY TypeInit, TypeStep, PTL DEF Spec
<1>2. Spec => []OwnerInv
  BY <1>1, OwnerInit, OwnerStep, PTL DEF Spec
<1>3. Spec => []ReapInv
  BY <1>1, ReapInit, ReapStep, PTL DEF Spec
<1>. QED
  BY <1>1, <1>2, <1>3, LedgerInit, LedgerStep, PTL DEF Spec, ImplementsLedger, Ledger!Spec
-----------------------------------------------------------------------------
(* The active runs of a model.  What was read as due may be active by the  *)
(* time it is queued, but each process queues it once for each reading.    *)
ActiveRuns(m) == RunsOf(m, {"pending", "running"})
Planners(m)   == {q \in Queuers : m \in plan[q]}

QueueInv ==
  \A m \in Models :
    /\ IsFiniteSet(ActiveRuns(m))
    /\ Cardinality(ActiveRuns(m)) + Cardinality(Planners(m)) <= Cardinality(Queuers) + overwrites

(* The processes that queue are finitely many, and so are the planners of  *)
(* a model.                                                                *)
LEMMA PlannersFinite ==
  /\ IsFiniteSet(Queuers) /\ Cardinality(Queuers) \in Nat
  /\ \A m : /\ IsFiniteSet(Planners(m)) /\ Cardinality(Planners(m)) \in Nat
            /\ Cardinality(Planners(m)) <= Cardinality(Queuers)
<1>1. IsFiniteSet(Queuers)
  BY DEF Queuers
<1>2. ASSUME NEW m
      PROVE  IsFiniteSet(Planners(m)) /\ Cardinality(Planners(m)) <= Cardinality(Queuers)
  <2>1. Planners(m) \in SUBSET Queuers
    BY DEF Planners
  <2>. QED
    BY <1>1, <2>1, FS_Subset
<1>. QED
  BY <1>1, <1>2, FS_CardinalityType

(* At the start there are no runs. *)
LEMMA QueueInit == Init => QueueInv
<1>. SUFFICES ASSUME Init, NEW m \in Models
              PROVE  /\ IsFiniteSet(ActiveRuns(m))
                     /\ Cardinality(ActiveRuns(m)) + Cardinality(Planners(m))
                          <= Cardinality(Queuers) + overwrites
  BY DEF QueueInv
<1>1. ActiveRuns(m) = {} /\ Planners(m) = {} /\ overwrites = 0
  BY DEF Init, ActiveRuns, RunsOf, Planners
<1>. QED
  BY <1>1, FS_EmptySet, PlannersFinite

(* Only queueing makes a run active that was not.                          *)
LEMMA ActiveFrame ==
  ASSUME TypeInv, OwnerInv, [Next]_vars, ~ \E q \in Queuers : Enqueue(q), NEW m \in Models
  PROVE  ActiveRuns(m)' \subseteq ActiveRuns(m)
<1>. SUFFICES ASSUME NEW r \in Runs, status'[r] \in {"pending", "running"}
              PROVE  status[r] \in {"pending", "running"}
  BY DEF ActiveRuns, RunsOf
<1>. USE DEF TypeInv, TypeOK, SetStatus
<1>1. CASE \E w \in Workers : CommitClaim(w)
  <2>1. PICK w \in Workers : CommitClaim(w)
    BY <1>1
  <2>2. status[run[w]] = "pending"
    BY <2>1 DEF CommitClaim, OwnerInv, ClaimInv
  <2>. QED
    BY <2>1, <2>2 DEF CommitClaim
<1>2. CASE ~ \E w \in Workers : CommitClaim(w)
  BY <1>2 DEF Next, Flow, ScheduleRead, OperatorRead, OperatorOverwrites, StartFlow, CommitReap,
     Claim, NothingPending, AttemptStale, AttemptSkip, StartGarak, Ingest, CompleteRun,
     ReturnTask, AttemptFails, RetryAttempt, FinishRun, FailRun, WriteDlqEntry, Crash,
     Tick, vars
<1>. QED
  BY <1>1, <1>2

(* A finite set that shrinks counts less, and one that gains an element    *)
(* counts at most one more.                                                *)
LEMMA Counting ==
  ASSUME NEW S, IsFiniteSet(S)
  PROVE  /\ Cardinality(S) \in Nat
         /\ \A T : T \subseteq S => /\ IsFiniteSet(T) /\ Cardinality(T) \in Nat
                                    /\ Cardinality(T) <= Cardinality(S)
         /\ \A T, x : T \subseteq S \cup {x} => /\ IsFiniteSet(T) /\ Cardinality(T) \in Nat
                                                /\ Cardinality(T) <= Cardinality(S) + 1
<1>1. Cardinality(S) \in Nat
  BY FS_CardinalityType
<1>2. ASSUME NEW T, T \subseteq S
      PROVE  IsFiniteSet(T) /\ Cardinality(T) \in Nat /\ Cardinality(T) <= Cardinality(S)
  <2>1. T \in SUBSET S
    BY <1>2
  <2>. QED
    BY <2>1, FS_Subset, FS_CardinalityType
<1>3. ASSUME NEW T, NEW x, T \subseteq S \cup {x}
      PROVE  IsFiniteSet(T) /\ Cardinality(T) \in Nat /\ Cardinality(T) <= Cardinality(S) + 1
  <2>. DEFINE U == S \cup {x}
  <2>1. IsFiniteSet(U) /\ Cardinality(U) <= Cardinality(S) + 1 /\ Cardinality(U) \in Nat
    <3>1. IsFiniteSet(U) /\ Cardinality(U) = IF x \in S THEN Cardinality(S) ELSE Cardinality(S) + 1
      BY FS_AddElement
    <3>. QED
      BY <3>1, <1>1
  <2>2. T \in SUBSET U
    BY <1>3
  <2>. HIDE DEF U
  <2>3. IsFiniteSet(T) /\ Cardinality(T) <= Cardinality(U) /\ Cardinality(T) \in Nat
    BY <2>1, <2>2, FS_Subset, FS_CardinalityType
  <2>. QED
    BY <1>1, <2>1, <2>3
<1>. QED
  BY <1>1, <1>2, <1>3

(* A model read as due has no active run; queueing it turns a planner into *)
(* an active run.                                                          *)
LEMMA QueueStep == TypeInv /\ OwnerInv /\ QueueInv /\ [Next]_vars => QueueInv'
<1>. SUFFICES ASSUME TypeInv, OwnerInv, QueueInv, [Next]_vars, NEW m \in Models
              PROVE  /\ IsFiniteSet(ActiveRuns(m)')
                     /\ Cardinality(ActiveRuns(m)') + Cardinality(Planners(m)')
                          <= Cardinality(Queuers) + overwrites'
  BY DEF QueueInv
<1>. DEFINE A == ActiveRuns(m)
            P == Planners(m)
            N == Cardinality(Queuers)
<1>1. /\ IsFiniteSet(A) /\ Cardinality(A) \in Nat
      /\ Cardinality(A) + Cardinality(P) <= N + overwrites
  BY FS_CardinalityType DEF QueueInv
<1>2. /\ IsFiniteSet(P) /\ Cardinality(P) \in Nat /\ N \in Nat
      /\ overwrites \in Nat
  BY PlannersFinite DEF TypeInv, TypeOK
<1>3. /\ IsFiniteSet(P') /\ Cardinality(P') \in Nat /\ Cardinality(P') <= N
  <2>1. P' \in SUBSET Queuers
    BY DEF Planners
  <2>. QED
    BY <2>1, PlannersFinite, FS_Subset, FS_CardinalityType
<1>4. CASE \E q \in Queuers : Enqueue(q)
  <2>1. PICK q \in Queuers : Enqueue(q)
    BY <1>4
  <2>. USE <2>1 DEF Enqueue
  <2>2. PICK new \in SUBSET {r \in Runs : status[r] = "absent"} :
          /\ {ModelOf[r] : r \in new} = plan[q]
          /\ \A r, s \in new : ModelOf[r] = ModelOf[s] => r = s
          /\ status' = [r \in Runs |-> IF r \in new THEN "pending" ELSE status[r]]
    OBVIOUS
  <2>3. plan' = [plan EXCEPT ![q] = {}] /\ overwrites' = overwrites
    OBVIOUS
  <2>4. CASE m \in plan[q]
    <3>1. PICK r \in new : ModelOf[r] = m
      BY <2>2, <2>4
    <3>2. A' \subseteq A \cup {r}
      BY <2>2, <3>1 DEF ActiveRuns, RunsOf
    <3>3. q \in P /\ P' = P \ {q}
      BY <2>3, <2>4 DEF Planners, TypeInv, TypeOK
    <3>4. IsFiniteSet(A') /\ Cardinality(A') \in Nat /\ Cardinality(A') <= Cardinality(A) + 1
      <4>. HIDE DEF A
      <4>. QED
        BY <1>1, <3>2, Counting
    <3>5. Cardinality(P') = Cardinality(P) - 1
      <4>. HIDE DEF P
      <4>. QED
        BY <1>2, <3>3, FS_RemoveElement
    <3>. HIDE DEF A, P, N
    <3>6. Cardinality(A') + Cardinality(P') <= N + overwrites'
      BY <1>1, <1>2, <1>3, <2>3, <3>4, <3>5
    <3>. QED
      BY <3>4, <3>6 DEF A, P, N
  <2>5. CASE m \notin plan[q]
    <3>1. \A r \in new : ModelOf[r] # m
      BY <2>2, <2>5
    <3>2. A' = A
      BY <2>2, <3>1 DEF ActiveRuns, RunsOf
    <3>3. P' = P
      BY <2>3, <2>5 DEF Planners, TypeInv, TypeOK
    <3>. QED
      BY <1>1, <2>3, <3>2, <3>3
  <2>. QED
    BY <2>4, <2>5
<1>5. ASSUME ~ \E q \in Queuers : Enqueue(q)
      PROVE  IsFiniteSet(A') /\ Cardinality(A') + Cardinality(P') <= N + overwrites'
  <2>1. A' \subseteq A
    BY <1>5, ActiveFrame
  <2>2. IsFiniteSet(A') /\ Cardinality(A') \in Nat /\ Cardinality(A') <= Cardinality(A)
    <3>. HIDE DEF A
    <3>. QED
      BY <1>1, <2>1, Counting
  <2>3. CASE \E q \in Queuers : OperatorOverwrites(q, m)
    <3>1. PICK q \in Queuers : OperatorOverwrites(q, m)
      BY <2>3
    <3>2. overwrites' = overwrites + 1 /\ P' \subseteq P \cup {q}
      BY <3>1 DEF OperatorOverwrites, Planners, TypeInv, TypeOK
    <3>. HIDE DEF A, P, N
    <3>3. Cardinality(P') <= Cardinality(P) + 1
      BY <1>2, <3>2, Counting
    <3>. QED
      BY <1>1, <1>2, <1>3, <2>2, <3>2, <3>3
  <2>4. CASE A = {}
    <3>1. Cardinality(A') = 0
      BY <2>1, <2>4, FS_EmptySet
    <3>2. overwrites' \in Nat /\ overwrites <= overwrites'
      <4>1. overwrites' = overwrites \/ overwrites' = overwrites + 1
        BY <1>5 DEF Next, Flow, ScheduleRead, OperatorRead, OperatorOverwrites, StartFlow,
           CommitReap, Claim, NothingPending, CommitClaim, AttemptStale, AttemptSkip, StartGarak,
           Ingest, CompleteRun, ReturnTask, AttemptFails, RetryAttempt, FinishRun, FailRun,
           WriteDlqEntry, Crash, Tick, vars
      <4>. QED
        BY <1>2, <4>1
    <3>. HIDE DEF A, P, N
    <3>. QED
      BY <1>2, <1>3, <2>2, <3>1, <3>2
  <2>5. ASSUME A # {}, ~ \E q \in Queuers : OperatorOverwrites(q, m)
        PROVE  P' \subseteq P /\ overwrites' \in {overwrites, overwrites + 1}
    <3>1. CASE \E q \in Queuers : ScheduleRead(q)
      <4>1. PICK q \in Queuers : ScheduleRead(q)
        BY <3>1
      <4>2. ~Due(m)
        BY <2>5 DEF Due, ActiveRuns
      <4>. QED
        BY <4>1, <4>2 DEF ScheduleRead, Planners, TypeInv, TypeOK
    <3>2. CASE \E q \in Queuers, n \in Models : OperatorRead(q, n)
      <4>1. PICK q \in Queuers, n \in Models : OperatorRead(q, n)
        BY <3>2
      <4>2. n # m
        BY <4>1, <2>5 DEF OperatorRead, ActiveRuns, RunsOf
      <4>. QED
        BY <4>1, <4>2 DEF OperatorRead, Planners, TypeInv, TypeOK
    <3>3. CASE \E q \in Queuers, n \in Models : OperatorOverwrites(q, n)
      <4>1. PICK q \in Queuers, n \in Models : OperatorOverwrites(q, n)
        BY <3>3
      <4>2. n # m
        BY <4>1, <2>5
      <4>. QED
        BY <4>1, <4>2 DEF OperatorOverwrites, Planners, TypeInv, TypeOK
    <3>4. ASSUME ~ \E q \in Queuers : ScheduleRead(q),
                 ~ \E q \in Queuers, n \in Models : OperatorRead(q, n) \/ OperatorOverwrites(q, n)
          PROVE  plan' = plan /\ overwrites' = overwrites
      BY <1>5, <3>4 DEF Next, Flow, StartFlow, CommitReap, Claim, NothingPending, CommitClaim,
         AttemptStale, AttemptSkip, StartGarak, Ingest, CompleteRun, ReturnTask, AttemptFails,
         RetryAttempt, FinishRun, FailRun, WriteDlqEntry, Crash, Tick, vars
    <3>. QED
      BY <3>1, <3>2, <3>3, <3>4 DEF Planners
  <2>6. ASSUME P' \subseteq P, overwrites' \in {overwrites, overwrites + 1}
        PROVE  Cardinality(A') + Cardinality(P') <= N + overwrites'
    <3>. HIDE DEF A, P, N
    <3>1. Cardinality(P') <= Cardinality(P)
      BY <1>2, <2>6, Counting
    <3>. QED
      BY <1>1, <1>2, <1>3, <2>2, <2>6, <3>1
  <2>. QED
    BY <2>2, <2>3, <2>4, <2>5, <2>6
<1>. QED
  BY <1>4, <1>5

(* However many processes queue at once, a model has at most one active    *)
(* run for each of them and for each --overwrite.                          *)
THEOREM ActiveRunsAreBounded == Spec => []ActiveRunsBounded
<1>1. Spec => [](TypeInv /\ OwnerInv)
  BY Inductive, PTL
<1>2. Spec => []QueueInv
  BY <1>1, QueueInit, QueueStep, PTL DEF Spec
<1>3. QueueInv => ActiveRunsBounded
  BY DEF QueueInv, ActiveRunsBounded, ActiveRuns, Planners
<1>. QED
  BY <1>2, <1>3, PTL
-----------------------------------------------------------------------------
(* Lost runs. *)
LostRuns == {r \in Runs : Lost(r)}
LostInv  == IsFiniteSet(LostRuns) /\ Cardinality(LostRuns) <= crashes

(* At the start no run is lost. *)
LEMMA LostInit == Init => LostInv
<1>. SUFFICES ASSUME Init PROVE LostInv
  OBVIOUS
<1>1. LostRuns = {} /\ crashes = 0
  BY DEF Init, LostRuns, Lost
<1>. QED
  BY <1>1, FS_EmptySet DEF LostInv

(* A step loses no run but that of a worker that dies in it.               *)
LEMMA LostFrame ==
  ASSUME TypeInv, OwnerInv, DlqInv, TimeInv, [Next]_vars, NEW r \in Runs, Lost(r)', ~Lost(r)
  PROVE  \E w \in Workers : Crash(w) /\ r = run[w]
<1>. SUFFICES ASSUME ~ \E w \in Workers : Crash(w) /\ r = run[w] PROVE FALSE
  OBVIOUS
<1>. USE DEF TypeInv, TypeOK, HoldsRun, Holding, Steps, At, Goto, EndFlow, SetStatus, Lost
<1>0. age[r] \in Nat /\ StaleAfter \in Nat /\ r # NoRun
  BY StaleAfterNat
<1>1. ASSUME NEW q \in Queuers, ScheduleRead(q) PROVE FALSE
  BY <1>1 DEF ScheduleRead
<1>2. ASSUME NEW q \in Queuers, NEW m \in Models, OperatorRead(q, m) \/ OperatorOverwrites(q, m)
      PROVE  FALSE
  BY <1>2 DEF OperatorRead, OperatorOverwrites
<1>3. ASSUME NEW q \in Queuers, Enqueue(q) PROVE FALSE
  BY <1>3 DEF Enqueue
<1>4. ASSUME NEW w \in Workers, Flow(w) PROVE FALSE
  <2>a. ASSUME run' = run, status'[r] = status[r], age' = age, dlq' = dlq PROVE FALSE
    BY <2>a
  <2>b. \A s \in Runs : s # r => [status EXCEPT ![s] = "complete"][r] = status[r]
    OBVIOUS
  <2>1. CASE StartFlow(w)
    BY <2>1, <2>a DEF StartFlow
  <2>2. CASE CommitReap(w)
    <3>1. CASE r \in stale[w]
      BY <2>2, <3>1, <1>0 DEF CommitReap, TimeInv
    <3>2. CASE r \notin stale[w]
      BY <2>2, <3>2, <2>a DEF CommitReap
    <3>. QED
      BY <3>1, <3>2
  <2>3. CASE Claim(w)
    <3>1. run[w] = NoRun /\ \A v \in Workers \ {w} : run'[v] = run[v]
      BY <2>3 DEF Claim
    <3>. QED
      BY <2>3, <3>1, <1>0 DEF Claim
  <2>4. CASE NothingPending(w)
    <3>1. run[w] = NoRun /\ \A v \in Workers \ {w} : run'[v] = run[v]
      BY <2>4 DEF NothingPending
    <3>. QED
      BY <2>4, <3>1, <1>0 DEF NothingPending
  <2>5. CASE CommitClaim(w)
    <3>1. run' = run /\ r # run[w]
      BY <2>5 DEF CommitClaim
    <3>2. run[w] \in Runs
      BY <2>5, HeldRun DEF CommitClaim
    <3>. QED
      BY <2>5, <3>1, <3>2 DEF CommitClaim
  <2>6. CASE AttemptStale(w)
    BY <2>6, <2>a DEF AttemptStale
  <2>7. CASE AttemptSkip(w)
    BY <2>7, <2>a DEF AttemptSkip
  <2>8. CASE StartGarak(w)
    BY <2>8, <2>a DEF StartGarak
  <2>9. CASE Ingest(w)
    BY <2>9, <2>a DEF Ingest
  <2>10. CASE CompleteRun(w)
    <3>1. run' = run /\ r # run[w]
      BY <2>10 DEF CompleteRun
    <3>. QED
      BY <2>10, <3>1, <2>a DEF CompleteRun
  <2>11. CASE ReturnTask(w)
    BY <2>11, <2>a DEF ReturnTask
  <2>12. CASE AttemptFails(w)
    BY <2>12, <2>a DEF AttemptFails
  <2>13. CASE RetryAttempt(w)
    BY <2>13, <2>a DEF RetryAttempt
  <2>14. CASE FinishRun(w)
    <3>1. run[w] \in Runs /\ \A v \in Workers \ {w} : run'[v] = run[v]
      BY <2>14, HeldRun DEF FinishRun
    <3>2. CASE r = run[w]
      BY <2>14, <3>1, <3>2 DEF FinishRun
    <3>3. CASE r # run[w]
      BY <2>14, <3>1, <3>3 DEF FinishRun
    <3>. QED
      BY <3>2, <3>3
  <2>15. CASE FailRun(w)
    <3>1. run' = run /\ r # run[w]
      BY <2>15 DEF FailRun
    <3>. QED
      BY <2>15, <3>1, <2>a DEF FailRun
  <2>16. CASE WriteDlqEntry(w)
    <3>1. run[w] \in Runs /\ \A v \in Workers \ {w} : run'[v] = run[v]
      BY <2>16, HeldRun DEF WriteDlqEntry
    <3>2. CASE r = run[w]
      <4>1. status[r] = "failed" /\ dlq[r] = 0
        BY <2>16, <3>1, <3>2 DEF WriteDlqEntry, DlqInv
      <4>2. status'[r] = "failed" /\ dlq'[r] = 1
        BY <2>16, <3>1, <3>2, <4>1 DEF WriteDlqEntry
      <4>. QED
        BY <4>2
    <3>3. CASE r # run[w]
      BY <2>16, <3>1, <3>3 DEF WriteDlqEntry
    <3>. QED
      BY <3>2, <3>3
  <2>. QED
    BY <1>4, <2>1, <2>2, <2>3, <2>4, <2>5, <2>6, <2>7, <2>8, <2>9, <2>10, <2>11,
       <2>12, <2>13, <2>14, <2>15, <2>16 DEF Flow
<1>5. ASSUME NEW w \in Workers, Crash(w) PROVE FALSE
  <2>1. r # run[w] /\ \A v \in Workers \ {w} : run'[v] = run[v]
    BY <1>5 DEF Crash
  <2>. QED
    BY <1>5, <2>1 DEF Crash
<1>6. CASE Tick
  <2>1. run' = run /\ status' = status /\ dlq' = dlq
    BY <1>6 DEF Tick
  <2>2. status[r] # "running" => age'[r] = age[r]
    BY <1>6 DEF Tick
  <2>. QED
    BY <2>1, <2>2
<1>7. CASE UNCHANGED vars
  BY <1>7 DEF vars
<1>. QED
  BY <1>1, <1>2, <1>3, <1>4, <1>5, <1>6, <1>7 DEF Next

(* Each death loses at most one run.                                       *)
LEMMA LostStep == TypeInv /\ OwnerInv /\ DlqInv /\ TimeInv /\ LostInv /\ [Next]_vars => LostInv'
<1>. SUFFICES ASSUME TypeInv, OwnerInv, DlqInv, TimeInv, LostInv, [Next]_vars PROVE LostInv'
  OBVIOUS
<1>1. crashes \in Nat /\ IsFiniteSet(LostRuns) /\ Cardinality(LostRuns) <= crashes
  BY DEF LostInv, TypeInv, TypeOK
<1>2. \A r \in LostRuns' \ LostRuns : \E w \in Workers : Crash(w) /\ r = run[w]
  BY LostFrame DEF LostRuns
<1>3. CASE \E w \in Workers : Crash(w)
  <2>1. PICK w \in Workers : Crash(w)
    BY <1>3
  <2>2. crashes' = crashes + 1
    BY <2>1 DEF Crash
  <2>3. \A v \in Workers : Crash(v) => run[v] = run[w] \/ run[v] = NoRun
    <3>. SUFFICES ASSUME NEW v \in Workers, Crash(v), v # w, run[v] # NoRun PROVE FALSE
      OBVIOUS
    <3>1. run'[w] = NoRun /\ run'[v] = NoRun
      BY <2>1 DEF Crash, EndFlow, TypeInv, TypeOK
    <3>2. run'[v] = run[v]
      BY <2>1 DEF Crash, EndFlow, TypeInv, TypeOK
    <3>. QED
      BY <3>1, <3>2
  <2>4. LostRuns' \subseteq LostRuns \cup {run[w]}
    BY <1>2, <2>3 DEF LostRuns
  <2>5. IsFiniteSet(LostRuns') /\ Cardinality(LostRuns') \in Nat
        /\ Cardinality(LostRuns') <= Cardinality(LostRuns) + 1
    BY <1>1, <2>4, Counting
  <2>6. Cardinality(LostRuns) \in Nat
    BY <1>1, Counting
  <2>. QED
    BY <1>1, <2>2, <2>5, <2>6 DEF LostInv
<1>4. CASE ~ \E w \in Workers : Crash(w)
  <2>1. LostRuns' \subseteq LostRuns
    BY <1>2, <1>4
  <2>2. crashes' = crashes
    BY <1>4 DEF Next, Flow, ScheduleRead, OperatorRead, OperatorOverwrites, Enqueue, StartFlow,
       CommitReap, Claim, NothingPending, CommitClaim, AttemptStale, AttemptSkip, StartGarak,
       Ingest, CompleteRun, ReturnTask, AttemptFails, RetryAttempt, FinishRun, FailRun,
       WriteDlqEntry, Tick, vars
  <2>3. /\ IsFiniteSet(LostRuns') /\ Cardinality(LostRuns') \in Nat
        /\ Cardinality(LostRuns') <= Cardinality(LostRuns) /\ Cardinality(LostRuns) \in Nat
    BY <1>1, <2>1, Counting
  <2>. QED
    BY <1>1, <2>2, <2>3 DEF LostInv
<1>. QED
  BY <1>3, <1>4

(* Whatever the timing and the failures of tasks, no more runs are lost    *)
(* than workers have died, or were failed by the database.                 *)
THEOREM OnlyCrashesLoseRuns == Spec => []LostRunsBounded
<1>1. Spec => [](TypeInv /\ OwnerInv /\ DlqInv)
  BY Inductive, PTL
<1>2. Spec => []TimeInv
  BY <1>1, TimeInit, TimeStep, PTL DEF Spec
<1>3. Spec => []LostInv
  BY <1>1, <1>2, LostInit, LostStep, PTL DEF Spec
<1>4. LostInv => LostRunsBounded
  BY DEF LostInv, LostRunsBounded, LostRuns
<1>. QED
  BY <1>3, <1>4, PTL
=============================================================================
