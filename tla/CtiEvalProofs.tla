--------------------------- MODULE CtiEvalProofs ---------------------------
(***************************************************************************)
(* Proofs about CtiEval for every number of runs, items, workers, drain    *)
(* loops, queuers and attempts.                                            *)
(***************************************************************************)
EXTENDS CtiEval, FiniteSetTheorems, TLAPS

USE CtiEvalAssumption DEF db, env

(* An actor holds a run exactly from its claim to the outcome, and has a   *)
(* page or a buffer only with one.                                         *)
Holding  == {"locked", "attempt", "eval", "aggregated", "committed", "returned", "raised"}
HoldsRun ==
  \A w \in Actors :
    /\ step[w] \in Holding <=> run[w] # NoRun
    /\ run[w] = NoRun => page[w] = {} /\ buffer[w] = {}

(* An actor drops its run with nothing written.                            *)
Breaks(w) == Crash(w) \/ FlowFails(w)

TypeInv == TypeOK /\ HoldsRun

(* The set of items an operator returns is one of Items, and a count of    *)
(* results a number.                                                       *)
LEMMA Values ==
  /\ \A r \in Runs : Page(r) \subseteq Items /\ Scored(r) \subseteq Items
  /\ \A r \in Runs, B \in SUBSET Items : Cardinality(Scored(r) \cup B) \in Nat
<1>1. \A r \in Runs : Page(r) \subseteq Items /\ Scored(r) \subseteq Items
  BY DEF Page, Unscored, Scored
<1>2. ASSUME NEW r \in Runs, NEW B \in SUBSET Items
      PROVE  Cardinality(Scored(r) \cup B) \in Nat
  <2>1. IsFiniteSet(Scored(r) \cup B)
    BY <1>1, FS_Subset
  <2>. QED
    BY <2>1, FS_CardinalityType
<1>. QED
  BY <1>1, <1>2

(* What an insert of new results gives.                                    *)
LEMMA InsertedType ==
  ASSUME TypeOK, NEW w \in Actors, run[w] \in Runs, NEW new \in SUBSET Items
  PROVE  /\ Inserted(w, new) \in [Runs -> [Items -> Nat]]
         /\ \A r \in Runs \ {run[w]} : Inserted(w, new)[r] = results[r]
         /\ \A i \in Items : Inserted(w, new)[run[w]][i]
                               = results[run[w]][i] + (IF i \in new THEN 1 ELSE 0)
BY DEF TypeOK, Inserted

(* Types hold at the start.                                                *)
LEMMA TypeInit == Init => TypeInv
BY DEF Init, TypeInv, TypeOK, HoldsRun, Holding, Steps, Statuses

(* No handler, retry, crash or queuer breaks the types.                    *)
LEMMA TypeStep == TypeInv /\ [Next]_vars => TypeInv'
<1>. SUFFICES ASSUME TypeInv, [Next]_vars PROVE TypeInv'
  OBVIOUS
<1>. USE DEF TypeInv, TypeOK, HoldsRun, Holding, At, Goto, LeaveRun, Home
<1>0. Drainers \subseteq Actors /\ Drainers \subseteq Queuers
  BY DEF Actors, Queuers
<1>1. ASSUME NEW q \in Queuers, TriggerRead(q) PROVE TypeInv'
  BY <1>1 DEF TriggerRead
<1>2. ASSUME NEW q \in Queuers, BootstrapRead(q) PROVE TypeInv'
  BY <1>2, <1>0 DEF BootstrapRead, Steps
<1>3. ASSUME NEW q \in Queuers, Enqueue(q) PROVE TypeInv'
  <2>. USE <1>3, <1>0 DEF Enqueue
  <2>1. status' \in [Runs -> Statuses]
    BY DEF Statuses
  <2>2. step' \in [Actors -> Steps] /\ plan' \in [Queuers -> SUBSET Pairs]
    BY DEF Steps
  <2>3. HoldsRun'
    OBVIOUS
  <2>. QED
    BY <2>1, <2>2, <2>3
<1>4. ASSUME NEW r \in Runs, Expire(r) PROVE TypeInv'
  BY <1>4 DEF Expire
<1>5. ASSUME NEW w \in Actors, Work(w) PROVE TypeInv'
  <2>0. step[w] \in Holding => run[w] \in Runs
    OBVIOUS
  <2>1. CASE Claim(w)
    <3>1. PICK r \in Claimable : run' = [run EXCEPT ![w] = r]
      BY <2>1 DEF Claim
    <3>2. r \in Runs
      BY DEF Claimable, Pending
    <3>3. /\ run' \in [Actors -> Runs \cup {NoRun}]
          /\ step' = [step EXCEPT ![w] = "locked"] /\ step' \in [Actors -> Steps]
      BY <2>1, <3>1, <3>2 DEF Claim, Steps
    <3>4. drained' \in [Actors -> 0..DrainLimit]
      BY <2>1 DEF Claim, Iterate
    <3>5. HoldsRun'
      BY <2>1, <3>1, <3>2, <3>3 DEF Claim
    <3>. QED
      BY <2>1, <3>3, <3>4, <3>5 DEF Claim
  <2>2. CASE DrainSpin(w)
    BY <2>2 DEF DrainSpin, Iterate
  <2>3. CASE DrainEnd(w)
    BY <2>3 DEF DrainEnd, Steps
  <2>4. CASE CommitClaim(w)
    BY <2>4, <2>0 DEF CommitClaim, Steps, Statuses
  <2>5. CASE StartAttempt(w)
    BY <2>5, <2>0, Values DEF StartAttempt, Steps
  <2>6. CASE ScoreItem(w)
    <3>. USE <2>6, <2>0 DEF ScoreItem
    <3>1. PICK i \in page[w] :
            /\ page' = [page EXCEPT ![w] = @ \ {i}]
            /\ LET new == buffer[w] \cup {i} IN
               IF CommitsNow(new)
               THEN results' = Inserted(w, new) /\ buffer' = [buffer EXCEPT ![w] = {}]
               ELSE buffer' = [buffer EXCEPT ![w] = new] /\ UNCHANGED results
      OBVIOUS
    <3>2. run[w] \in Runs /\ buffer[w] \cup {i} \in SUBSET Items
      OBVIOUS
    <3>3. results' \in [Runs -> [Items -> Nat]]
      BY <3>1, <3>2, InsertedType
    <3>. DEFINE new == buffer[w] \cup {i}
    <3>7. buffer' = [buffer EXCEPT ![w] = {}] \/ buffer' = [buffer EXCEPT ![w] = new]
      BY <3>1
    <3>8. new \in SUBSET Items
      BY <3>2
    <3>9. buffer' \in [Actors -> SUBSET Items]
      <4>. HIDE DEF new
      <4>. QED
        BY <3>7, <3>8
    <3>4. page' \in [Actors -> SUBSET Items] /\ buffer' \in [Actors -> SUBSET Items]
      BY <3>1, <3>9
    <3>5. calls' \in [Runs -> Nat]
      BY <3>2
    <3>6. HoldsRun'
      BY <3>1
    <3>. QED
      BY <3>3, <3>4, <3>5, <3>6
  <2>7. CASE Aggregate(w)
    <3>. USE <2>7, <2>0 DEF Aggregate
    <3>1. run[w] \in Runs /\ buffer[w] \in SUBSET Items
      OBVIOUS
    <3>2. results' \in [Runs -> [Items -> Nat]]
      BY <3>1, InsertedType
    <3>3. counted' \in [Runs -> Nat]
      BY <3>1, Values DEF CountAfter
    <3>4. step' \in [Actors -> Steps] /\ buffer' \in [Actors -> SUBSET Items]
      BY DEF Steps
    <3>5. HoldsRun'
      OBVIOUS
    <3>. QED
      BY <3>2, <3>3, <3>4, <3>5
  <2>8. CASE CompleteRun(w)
    BY <2>8, <2>0 DEF CompleteRun, Steps, Statuses
  <2>9. CASE ReturnTask(w)
    BY <2>9 DEF ReturnTask, Steps
  <2>10. CASE AttemptFails(w)
    <3>0. calls' = calls \/ calls' = [calls EXCEPT ![run[w]] = calls[run[w]] + 1]
      BY <2>10 DEF AttemptFails
    <3>8. run[w] \in Runs
      BY <2>10, <2>0 DEF AttemptFails
    <3>9. calls[run[w]] + 1 \in Nat
      BY <3>8
    <3>1. calls' \in [Runs -> Nat]
      BY <3>0, <3>8, <3>9
    <3>2. \/ attempt' = attempt
          \/ attempt[w] < MaxAttempts /\ attempt' = [attempt EXCEPT ![w] = attempt[w] + 1]
      BY <2>10 DEF AttemptFails, Attempts
    <3>3. attempt' \in [Actors -> 0..MaxAttempts]
      BY <3>2
    <3>4. \/ step' = [step EXCEPT ![w] = "attempt"]
          \/ step' = [step EXCEPT ![w] = "raised"]
      BY <2>10 DEF AttemptFails
    <3>5. step' \in [Actors -> Steps]
      BY <3>4 DEF Steps
    <3>6. page' \in [Actors -> SUBSET Items] /\ buffer' \in [Actors -> SUBSET Items]
      BY <2>10 DEF AttemptFails
    <3>7. HoldsRun'
      BY <2>10, <3>4 DEF AttemptFails
    <3>. QED
      BY <2>10, <3>1, <3>3, <3>5, <3>6, <3>7 DEF AttemptFails
  <2>11. CASE FinishRun(w)
    <3>. USE <2>11, <2>0 DEF FinishRun
    <3>1. status' \in [Runs -> Statuses] /\ old' \in [Runs -> BOOLEAN]
      BY DEF Statuses
    <3>2. /\ step' \in [Actors -> Steps] /\ run' \in [Actors -> Runs \cup {NoRun}]
          /\ attempt' \in [Actors -> 0..MaxAttempts]
          /\ page' \in [Actors -> SUBSET Items] /\ buffer' \in [Actors -> SUBSET Items]
      BY DEF Steps
    <3>3. HoldsRun'
      OBVIOUS
    <3>. QED
      BY <3>1, <3>2, <3>3
  <2>12. CASE FailRun(w)
    <3>. USE <2>12, <2>0 DEF FailRun
    <3>1. run[w] \in Runs /\ buffer[w] \in SUBSET Items
      OBVIOUS
    <3>2. results' \in [Runs -> [Items -> Nat]]
      BY <3>1, InsertedType
    <3>3. status' \in [Runs -> Statuses]
      BY <3>1 DEF Statuses
    <3>4. /\ step' \in [Actors -> Steps] /\ run' \in [Actors -> Runs \cup {NoRun}]
          /\ attempt' \in [Actors -> 0..MaxAttempts]
          /\ page' \in [Actors -> SUBSET Items] /\ buffer' \in [Actors -> SUBSET Items]
      BY DEF Steps
    <3>5. HoldsRun'
      OBVIOUS
    <3>. QED
      BY <3>2, <3>3, <3>4, <3>5
  <2>. QED
    BY <1>5, <2>1, <2>2, <2>3, <2>4, <2>5, <2>6, <2>7, <2>8, <2>9, <2>10, <2>11, <2>12
    DEF Work
<1>6. ASSUME NEW w \in Actors, Breaks(w) PROVE TypeInv'
  <2>1. ASSUME Crash(w) PROVE TypeInv'
    BY <2>1 DEF Crash, Steps
  <2>2. ASSUME FlowFails(w) PROVE TypeInv'
    BY <2>2 DEF FlowFails, Steps
  <2>. QED
    BY <1>6, <2>1, <2>2 DEF Breaks
<1>8. ASSUME NEW w \in Actors, ReadFails(w) PROVE TypeInv'
  BY <1>8 DEF ReadFails, Steps
<1>7. CASE UNCHANGED vars
  BY <1>7 DEF vars
<1>. QED
  BY <1>1, <1>2, <1>3, <1>4, <1>5, <1>6, <1>7, <1>8 DEF Next, Breaks

(* Every variable keeps its type.                                          *)
THEOREM TypeCorrect == Spec => []TypeOK
<1>1. Spec => []TypeInv
  BY TypeInit, TypeStep, PTL DEF Spec
<1>. QED
  BY <1>1, PTL DEF TypeInv
-----------------------------------------------------------------------------
(* Claims.  A run locked by a claim is pending, one held later is not, so  *)
(* a held run is not claimed again.                                        *)
ClaimInv ==
  \A w \in Actors :
    /\ At(w, "locked") => status[run[w]] = "pending"
    /\ step[w] \in Holding \ {"locked"} => status[run[w]] \in {"running", "complete", "failed"}

OwnerInv == ExclusiveRun /\ ClaimInv

(* A step of one actor leaves the others where they are, and every run but *)
(* its own.                                                                *)
LEMMA Frame ==
  ASSUME TypeInv, NEW w \in Actors, Work(w) \/ ReadFails(w) \/ Breaks(w)
  PROVE  /\ \A v \in Actors \ {w} :
               /\ step'[v] = step[v] /\ run'[v] = run[v]
               /\ page'[v] = page[v] /\ buffer'[v] = buffer[v]
         /\ \A r \in Runs \ {run[w]} :
               /\ status'[r] = status[r] /\ results'[r] = results[r]
               /\ counted'[r] = counted[r]
<1>. USE DEF TypeInv, TypeOK
<1>1. /\ step' = step \/ \E x : step' = [step EXCEPT ![w] = x]
      /\ run' = run \/ \E x : run' = [run EXCEPT ![w] = x]
      /\ page' = page \/ \E x : page' = [page EXCEPT ![w] = x]
      /\ buffer' = buffer \/ \E x : buffer' = [buffer EXCEPT ![w] = x]
  BY DEF Work, Claim, DrainSpin, DrainEnd, CommitClaim, StartAttempt, ScoreItem, Aggregate,
     CompleteRun, ReturnTask, ReadFails, AttemptFails, FinishRun, FailRun, Breaks,
     Crash, FlowFails, Goto, LeaveRun
<1>2. \A r \in Runs \ {run[w]} : status'[r] = status[r] /\ counted'[r] = counted[r]
  <2>1. \/ status' = status
        \/ status' = [status EXCEPT ![run[w]] = "running"]
        \/ status' = [status EXCEPT ![run[w]] = "complete"]
        \/ status' = [status EXCEPT ![run[w]] = "failed"]
    <3>1. CASE CommitClaim(w) \/ CompleteRun(w)
      BY <3>1 DEF CommitClaim, CompleteRun
    <3>2. CASE FinishRun(w)
      BY <3>2 DEF FinishRun
    <3>3. CASE FailRun(w)
      BY <3>3 DEF FailRun
    <3>4. CASE Claim(w) \/ DrainSpin(w) \/ DrainEnd(w) \/ StartAttempt(w) \/ ScoreItem(w)
               \/ Aggregate(w) \/ ReturnTask(w) \/ ReadFails(w) \/ AttemptFails(w) \/ Breaks(w)
      BY <3>4 DEF Claim, DrainSpin, DrainEnd, StartAttempt, ScoreItem, Aggregate, ReturnTask, ReadFails,
         AttemptFails, Breaks, Crash, FlowFails
    <3>. QED
      BY <3>1, <3>2, <3>3, <3>4 DEF Work
  <2>2. counted' = counted \/ \E x : counted' = [counted EXCEPT ![run[w]] = x]
    BY DEF Work, Claim, DrainSpin, DrainEnd, CommitClaim, StartAttempt, ScoreItem, Aggregate,
       CompleteRun, ReturnTask, ReadFails, AttemptFails, FinishRun, FailRun, Breaks,
     Crash, FlowFails, db
  <2>. QED
    BY <2>1, <2>2
<1>3. results' = results \/ \E new : results' = Inserted(w, new)
  BY DEF Work, Claim, DrainSpin, DrainEnd, CommitClaim, StartAttempt, ScoreItem, Aggregate,
     CompleteRun, ReturnTask, ReadFails, AttemptFails, FinishRun, FailRun, Breaks,
     Crash, FlowFails, db
<1>4. \A r \in Runs \ {run[w]} : results'[r] = results[r]
  BY <1>3 DEF Inserted
<1>5. \A v \in Actors \ {w} :
        /\ step'[v] = step[v] /\ run'[v] = run[v]
        /\ page'[v] = page[v] /\ buffer'[v] = buffer[v]
  BY <1>1
<1>. QED
  BY <1>2, <1>4, <1>5

(* A queuer only adds pending rows, and moves no holder.                   *)
LEMMA QueueFrame ==
  ASSUME TypeInv,
         \/ \E q \in Queuers : TriggerRead(q) \/ BootstrapRead(q) \/ Enqueue(q)
         \/ \E r \in Runs : Expire(r)
  PROVE  /\ UNCHANGED <<run, page, buffer, results, counted>>
         /\ \A w \in Actors : step'[w] = step[w] \/ {step[w], step'[w]} \cap Holding = {}
         /\ \A r \in Runs : status'[r] = status[r] \/ (status[r] = "absent" /\ status'[r] = "pending")
<1>. USE DEF TypeInv, TypeOK, At, Goto, Holding
<1>1. UNCHANGED <<run, page, buffer, results, counted>>
  BY DEF TriggerRead, BootstrapRead, Enqueue, Expire
<1>2. \A w \in Actors : step'[w] = step[w] \/ {step[w], step'[w]} \cap Holding = {}
  BY DEF TriggerRead, BootstrapRead, Enqueue, Expire
<1>3. \A r \in Runs : status'[r] = status[r] \/ (status[r] = "absent" /\ status'[r] = "pending")
  <2>1. CASE \E q \in Queuers : Enqueue(q)
    <3>0. PICK q \in Queuers : Enqueue(q)
      BY <2>1
    <3>1. PICK new \in SUBSET {r \in Runs : status[r] = "absent"} :
                status' = [r \in Runs |-> IF r \in new THEN "pending" ELSE status[r]]
      BY <3>0 DEF Enqueue
    <3>. QED
      BY <3>1
  <2>2. CASE \/ \E q \in Queuers : TriggerRead(q) \/ BootstrapRead(q)
             \/ \E r \in Runs : Expire(r)
    BY <2>2 DEF TriggerRead, BootstrapRead, Expire
  <2>. QED
    BY <2>1, <2>2
<1>. QED
  BY <1>1, <1>2, <1>3

(* At the start nobody holds a run.                                        *)
LEMMA OwnerInit == Init => OwnerInv
BY DEF Init, OwnerInv, ExclusiveRun, ClaimInv, At, Holding

(* No step hands a held run to a second actor.                             *)
LEMMA OwnerStep == TypeInv /\ TypeInv' /\ OwnerInv /\ [Next]_vars => OwnerInv'
<1>. SUFFICES ASSUME TypeInv, TypeInv', OwnerInv, [Next]_vars PROVE OwnerInv'
  OBVIOUS
<1>. USE DEF OwnerInv, ExclusiveRun, ClaimInv, At
<1>1. CASE \/ \E q \in Queuers : TriggerRead(q) \/ BootstrapRead(q) \/ Enqueue(q)
           \/ \E r \in Runs : Expire(r)
  <2>1. ExclusiveRun'
    BY <1>1, QueueFrame
  <2>2. ASSUME NEW w \in Actors, step'[w] \in Holding
        PROVE  /\ step'[w] = step[w] /\ run[w] \in Runs /\ run'[w] = run[w]
               /\ status'[run[w]] = status[run[w]]
    <3>1. step'[w] = step[w] /\ run'[w] = run[w]
      BY <1>1, <2>2, QueueFrame
    <3>2. run[w] \in Runs
      BY <2>2, <3>1 DEF TypeInv, TypeOK, HoldsRun
    <3>3. status[run[w]] # "absent"
      BY <2>2, <3>1 DEF Holding
    <3>. QED
      BY <1>1, <3>1, <3>2, <3>3, QueueFrame
  <2>3. ClaimInv'
    BY <2>2 DEF Holding
  <2>. QED
    BY <2>1, <2>3
<1>2. ASSUME NEW w \in Actors, Work(w) \/ ReadFails(w) \/ Breaks(w) PROVE OwnerInv'
  <2>1. ASSUME run'[w] = run[w] \/ run'[w] = NoRun,
               /\ step'[w] = "locked" => status'[run'[w]] = "pending"
               /\ step'[w] \in Holding \ {"locked"} => status'[run'[w]] \in {"running", "complete", "failed"}
        PROVE  OwnerInv'
    <3>1. ExclusiveRun'
      BY <1>2, <2>1, Frame
    <3>2. ASSUME NEW v \in Actors \ {w}
          PROVE  /\ step'[v] = "locked" => status'[run'[v]] = "pending"
                 /\ step'[v] \in Holding \ {"locked"} => status'[run'[v]] \in {"running", "complete", "failed"}
      <4>1. step'[v] = step[v] /\ run'[v] = run[v]
        BY <1>2, Frame
      <4>2. step[v] \in Holding => run[v] \in Runs /\ run[v] # run[w]
        BY DEF TypeInv, TypeOK, HoldsRun
      <4>3. step[v] \in Holding => status'[run[v]] = status[run[v]]
        BY <1>2, <4>2, Frame
      <4>. QED
        BY <4>1, <4>3 DEF Holding
    <3>. QED
      BY <2>1, <3>1, <3>2
  <2>2. step[w] \in Holding => run[w] \in Runs
    BY DEF TypeInv, TypeOK, HoldsRun
  <2>. USE DEF TypeInv, TypeOK, HoldsRun, Holding, Goto, LeaveRun, Home
  <2>3. CASE Claim(w)
    <3>. PICK r \in Claimable : run' = [run EXCEPT ![w] = r]
      BY <2>3 DEF Claim
    <3>1. /\ r \in Runs /\ status[r] = "pending"
          /\ \A v \in Actors : step[v] = "locked" => run[v] # r
      BY DEF Claimable, Pending
    <3>2. \A v \in Actors : run[v] # r
      BY <3>1
    <3>3. /\ step'[w] = "locked" /\ run'[w] = r /\ status' = status
      BY <2>3 DEF Claim
    <3>4. \A v \in Actors \ {w} : step'[v] = step[v] /\ run'[v] = run[v]
      BY <1>2, Frame
    <3>. QED
      BY <3>1, <3>2, <3>3, <3>4
  <2>4. CASE DrainSpin(w)
    BY <2>1, <2>4 DEF DrainSpin
  <2>5. CASE DrainEnd(w)
    BY <2>1, <2>5 DEF DrainEnd
  <2>6. CASE CommitClaim(w)
    BY <2>1, <2>2, <2>6 DEF CommitClaim
  <2>7. CASE StartAttempt(w)
    BY <2>1, <2>7 DEF StartAttempt
  <2>8. CASE ScoreItem(w)
    BY <2>1, <2>8 DEF ScoreItem
  <2>9. CASE Aggregate(w)
    BY <2>1, <2>9 DEF Aggregate
  <2>10. CASE CompleteRun(w)
    BY <2>1, <2>2, <2>10 DEF CompleteRun
  <2>11. CASE ReturnTask(w) \/ ReadFails(w)
    BY <2>1, <2>11 DEF ReturnTask, ReadFails
  <2>12. CASE AttemptFails(w)
    BY <2>1, <2>12 DEF AttemptFails
  <2>13. CASE FinishRun(w)
    BY <2>1, <2>13 DEF FinishRun
  <2>14. CASE FailRun(w)
    BY <2>1, <2>14 DEF FailRun
  <2>15. CASE Breaks(w)
    BY <2>1, <2>15 DEF Breaks, Crash, FlowFails
  <2>. QED
    BY <1>2, <2>3, <2>4, <2>5, <2>6, <2>7, <2>8, <2>9, <2>10, <2>11, <2>12, <2>13, <2>14,
       <2>15 DEF Work
<1>3. CASE UNCHANGED vars
  BY <1>3 DEF vars
<1>. QED
  BY <1>1, <1>2, <1>3 DEF Next, Breaks

(* Flow runs and drain loops never hold the same run.                      *)
THEOREM RunsAreExclusive == Spec => []ExclusiveRun
<1>1. Spec => []TypeInv
  BY TypeInit, TypeStep, PTL DEF Spec
<1>2. Spec => []OwnerInv
  BY <1>1, OwnerInit, OwnerStep, PTL DEF Spec
<1>. QED
  BY <1>2, PTL DEF OwnerInv
-----------------------------------------------------------------------------
(* Results.  What an attempt has buffered or has still to score has no     *)
(* result yet, so no commit inserts a second one.                          *)
FreshInv ==
  \A w \in Actors : run[w] # NoRun =>
    /\ page[w] \cap buffer[w] = {}
    /\ \A i \in page[w] \cup buffer[w] : results[run[w]][i] = 0

ResultInv == NoDuplicateResults /\ FreshInv

(* What a step of an actor does to the results of its run: nothing, or an  *)
(* insert of what it has buffered and maybe the item it scores.            *)
LEMMA ResultsFrame ==
  ASSUME TypeInv, NEW w \in Actors, Work(w) \/ ReadFails(w) \/ Breaks(w)
  PROVE  \/ results' = results
         \/ /\ run[w] \in Runs
            /\ \E new \in SUBSET (page[w] \cup buffer[w]) : results' = Inserted(w, new)
<1>. USE DEF TypeInv, TypeOK, HoldsRun, At, Holding
<1>1. CASE ScoreItem(w)
  <2>1. PICK i \in page[w] :
          LET new == buffer[w] \cup {i} IN
          IF CommitsNow(new) THEN results' = Inserted(w, new) ELSE UNCHANGED results
    BY <1>1 DEF ScoreItem
  <2>2. run[w] \in Runs
    BY <1>1 DEF ScoreItem
  <2>. QED
    BY <2>1, <2>2
<1>2. CASE Aggregate(w)
  <2>1. run[w] \in Runs /\ results' = Inserted(w, buffer[w])
    BY <1>2 DEF Aggregate
  <2>. QED
    BY <2>1
<1>3. CASE FailRun(w)
  <2>1. run[w] \in Runs /\ (results' = Inserted(w, buffer[w]) \/ results' = results)
    BY <1>3 DEF FailRun
  <2>. QED
    BY <2>1
<1>4. CASE Claim(w) \/ DrainSpin(w) \/ DrainEnd(w) \/ CommitClaim(w) \/ StartAttempt(w)
           \/ CompleteRun(w) \/ ReturnTask(w) \/ ReadFails(w) \/ AttemptFails(w) \/ FinishRun(w) \/ Breaks(w)
  BY <1>4 DEF Claim, DrainSpin, DrainEnd, CommitClaim, StartAttempt, CompleteRun, ReturnTask, ReadFails,
     AttemptFails, FinishRun, Breaks, Crash, FlowFails
<1>. QED
  BY <1>1, <1>2, <1>3, <1>4 DEF Work

(* There are no results at the start.                                      *)
LEMMA ResultInit == Init => ResultInv
BY DEF Init, ResultInv, NoDuplicateResults, FreshInv

(* No commit, of whichever attempt, inserts a second result of an item.    *)
LEMMA ResultStep ==
  TypeInv /\ TypeInv' /\ OwnerInv /\ ResultInv /\ [Next]_vars => ResultInv'
<1>. SUFFICES ASSUME TypeInv, TypeInv', OwnerInv, ResultInv, [Next]_vars PROVE ResultInv'
  OBVIOUS
<1>1. CASE \/ \E q \in Queuers : TriggerRead(q) \/ BootstrapRead(q) \/ Enqueue(q)
           \/ \E r \in Runs : Expire(r)
  BY <1>1, QueueFrame DEF ResultInv, NoDuplicateResults, FreshInv
<1>2. ASSUME NEW w \in Actors, Work(w) \/ ReadFails(w) \/ Breaks(w) PROVE ResultInv'
  <2>1. NoDuplicateResults'
    <3>1. CASE results' = results
      BY <3>1 DEF ResultInv, NoDuplicateResults
    <3>2. ASSUME NEW new \in SUBSET (page[w] \cup buffer[w]), run[w] \in Runs,
                 results' = Inserted(w, new)
          PROVE  NoDuplicateResults'
      <4>1. new \subseteq Items
        BY DEF TypeInv, TypeOK
      <4>2. \A i \in new : results[run[w]][i] = 0
        BY <3>2 DEF ResultInv, FreshInv, TypeInv, TypeOK
      <4>3. /\ \A r \in Runs \ {run[w]} : results'[r] = results[r]
            /\ \A i \in Items : results'[run[w]][i]
                                  = results[run[w]][i] + (IF i \in new THEN 1 ELSE 0)
        <5>1. TypeOK
          BY DEF TypeInv
        <5>2. /\ \A r \in Runs \ {run[w]} : Inserted(w, new)[r] = results[r]
              /\ \A i \in Items : Inserted(w, new)[run[w]][i]
                                    = results[run[w]][i] + (IF i \in new THEN 1 ELSE 0)
          BY <3>2, <4>1, <5>1, InsertedType
        <5>3. results' = Inserted(w, new)
          BY <3>2
        <5>. QED
          BY <5>2, <5>3
      <4>4. ASSUME NEW r \in Runs, NEW i \in Items PROVE results'[r][i] <= 1
        <5>1. results[r][i] \in Nat /\ results[r][i] <= 1
          BY DEF ResultInv, NoDuplicateResults, TypeInv, TypeOK
        <5>2. CASE r # run[w]
          BY <4>3, <5>1, <5>2
        <5>3. CASE r = run[w]
          BY <4>2, <4>3, <5>1, <5>3
        <5>. QED
          BY <5>2, <5>3
      <4>. QED
        BY <4>4 DEF NoDuplicateResults
    <3>. QED
      BY <1>2, <3>1, <3>2, ResultsFrame
  <2>2. ASSUME NEW v \in Actors \ {w}, run'[v] # NoRun
        PROVE  /\ page'[v] \cap buffer'[v] = {}
               /\ \A i \in page'[v] \cup buffer'[v] : results'[run'[v]][i] = 0
    <3>1. /\ run'[v] = run[v] /\ page'[v] = page[v] /\ buffer'[v] = buffer[v]
      BY <1>2, Frame
    <3>2. run[v] \in Runs \ {run[w]}
      BY <2>2, <3>1 DEF OwnerInv, ExclusiveRun, TypeInv, TypeOK
    <3>3. results'[run[v]] = results[run[v]]
      BY <1>2, <3>2, Frame
    <3>. QED
      BY <3>1, <3>2, <3>3 DEF ResultInv, FreshInv
  <2>3. ASSUME run'[w] # NoRun
        PROVE  /\ page'[w] \cap buffer'[w] = {}
               /\ \A i \in page'[w] \cup buffer'[w] : results'[run'[w]][i] = 0
    <3>. USE DEF TypeInv, TypeOK, HoldsRun, Holding, At, ResultInv, FreshInv
    <3>1. CASE Claim(w)
      BY <3>1 DEF Claim, Home
    <3>2. CASE StartAttempt(w)
      <4>1. page'[w] = Page(run[w]) /\ buffer'[w] = {} /\ run'[w] = run[w] /\ results' = results
        BY <3>2 DEF StartAttempt
      <4>2. run[w] \in Runs
        BY <2>3, <4>1
      <4>3. \A i \in Page(run[w]) : i \in Items /\ ~(results[run[w]][i] > 0)
        BY DEF Page, Unscored, Scored
      <4>4. \A i \in Items : results[run[w]][i] \in Nat
        BY <4>2
      <4>. QED
        BY <4>1, <4>3, <4>4
    <3>3. CASE ScoreItem(w)
      <4>1. run[w] \in Runs /\ run' = run
        BY <3>3 DEF ScoreItem
      <4>2. PICK i \in page[w] :
              /\ page' = [page EXCEPT ![w] = @ \ {i}]
              /\ \/ results' = Inserted(w, buffer[w] \cup {i}) /\ buffer' = [buffer EXCEPT ![w] = {}]
                 \/ results' = results /\ buffer' = [buffer EXCEPT ![w] = buffer[w] \cup {i}]
        BY <3>3 DEF ScoreItem
      <4>3. i \in Items /\ buffer[w] \cup {i} \in SUBSET Items /\ page'[w] = page[w] \ {i}
        BY <4>2
      <4>4. CASE results' = Inserted(w, buffer[w] \cup {i}) /\ buffer' = [buffer EXCEPT ![w] = {}]
        <5>1. TypeOK
          OBVIOUS
        <5>2. ASSUME NEW j \in page'[w] PROVE results'[run[w]][j] = 0
          <6>1. j \in Items /\ j \notin buffer[w] \cup {i} /\ results[run[w]][j] = 0
            BY <4>1, <4>3
          <6>2. results'[run[w]][j]
                  = results[run[w]][j] + (IF j \in buffer[w] \cup {i} THEN 1 ELSE 0)
            BY ONLY <4>1, <4>3, <4>4, <5>1, <6>1, InsertedType
          <6>. QED
            BY <6>1, <6>2
        <5>3. buffer'[w] = {}
          BY <4>4
        <5>. QED
          BY <4>1, <5>2, <5>3
      <4>5. CASE results' = results /\ buffer' = [buffer EXCEPT ![w] = buffer[w] \cup {i}]
        <5>1. buffer'[w] = buffer[w] \cup {i}
          BY <4>5
        <5>2. page[w] \cap buffer[w] = {} /\ \A j \in page[w] \cup buffer[w] : results[run[w]][j] = 0
          BY <4>1
        <5>. QED
          BY ONLY <4>1, <4>2, <4>3, <4>5, <5>1, <5>2
      <4>. QED
        BY <4>2, <4>4, <4>5
    <3>4. CASE Aggregate(w)
      BY <3>4 DEF Aggregate
    <3>5. CASE AttemptFails(w)
      BY <3>5 DEF AttemptFails
    <3>6. CASE DrainSpin(w) \/ DrainEnd(w) \/ CommitClaim(w) \/ CompleteRun(w) \/ ReturnTask(w) \/ ReadFails(w)
      BY <3>6, <2>3 DEF DrainSpin, DrainEnd, CommitClaim, CompleteRun, ReturnTask, ReadFails
    <3>7. CASE FinishRun(w) \/ FailRun(w) \/ Breaks(w)
      BY <3>7, <2>3 DEF FinishRun, FailRun, Breaks, Crash, FlowFails, LeaveRun
    <3>. QED
      BY <1>2, <3>1, <3>2, <3>3, <3>4, <3>5, <3>6, <3>7 DEF Work
  <2>. QED
    BY <2>1, <2>2, <2>3 DEF ResultInv, FreshInv
<1>3. CASE UNCHANGED vars
  BY <1>3 DEF vars, ResultInv, NoDuplicateResults, FreshInv
<1>. QED
  BY <1>1, <1>2, <1>3 DEF Next, Breaks

(* A retried or interrupted run never scores an item into a second result, *)
(* whatever the batch, the cap and the number of actors.                   *)
THEOREM ResultsAreNotDuplicated == Spec => []NoDuplicateResults
<1>1. Spec => []TypeInv
  BY TypeInit, TypeStep, PTL DEF Spec
<1>2. Spec => []OwnerInv
  BY <1>1, OwnerInit, OwnerStep, PTL DEF Spec
<1>3. Spec => []ResultInv
  BY <1>1, <1>2, ResultInit, ResultStep, PTL DEF Spec
<1>. QED
  BY <1>3, PTL DEF ResultInv
-----------------------------------------------------------------------------
(* Gaps.  Oldest(T): T is the oldest part of the slice.  What a run has    *)
(* scored is, with what its attempt has buffered and with its page too.    *)
Oldest(T)    == \A i \in T, j \in Items : j < i => j \in T
Done(res, r) == {i \in Items : res[r][i] > 0}

ChainInv ==
  /\ \A r \in Runs : Oldest(Done(results, r))
  /\ \A w \in Actors : run[w] # NoRun =>
       /\ Oldest(Done(results, run[w]) \cup buffer[w])
       /\ Oldest(Done(results, run[w]) \cup buffer[w] \cup page[w])

(* The page of an attempt continues what the run has scored.               *)
LEMMA PageContinues ==
  ASSUME NEW r \in Runs, Oldest(Done(results, r))
  PROVE  Oldest(Done(results, r) \cup Page(r))
<1>0. Done(results, r) = Scored(r)
  BY DEF Done, Scored
<1>. DEFINE U == Unscored(r)
<1>1. U \subseteq Items /\ \A j \in Items : j \in U \/ j \in Scored(r)
  BY DEF Unscored
<1>. DEFINE Before(i) == {k \in U : k < i}
<1>2. ASSUME NEW i \in Page(r), NEW j \in U, j < i PROVE j \in Page(r)
  <2>1. i \in U /\ Cardinality(Before(i)) < MaxItems
    BY DEF Page
  <2>2. Before(j) \in SUBSET Before(i)
    <3>1. i \in Nat /\ j \in Nat /\ U \subseteq Nat
      BY <1>1, <2>1
    <3>2. \A k \in U : k < j => k < i
      BY ONLY <1>2, <3>1
    <3>. QED
      BY <3>2
  <2>3. IsFiniteSet(Before(i))
    BY <1>1, FS_Subset
  <2>4. IsFiniteSet(Before(j)) /\ Cardinality(Before(j)) <= Cardinality(Before(i))
    <3>. HIDE DEF Before
    <3>. QED
      BY <2>2, <2>3, FS_Subset
  <2>5. Cardinality(Before(j)) \in Nat /\ Cardinality(Before(i)) \in Nat
    <3>. HIDE DEF Before
    <3>. QED
      BY <2>3, <2>4, FS_CardinalityType
  <2>6. Cardinality(Before(j)) < MaxItems
    BY <2>1, <2>4, <2>5
  <2>. QED
    BY <2>6 DEF Page
<1>3. Page(r) \subseteq Items
  BY Values
<1>. QED
  BY <1>0, <1>1, <1>2, <1>3 DEF Oldest

(* What an insert adds to the items a run has scored.                      *)
LEMMA InsertedDone ==
  ASSUME TypeOK, NEW w \in Actors, run[w] \in Runs, NEW new \in SUBSET Items
  PROVE  Done(Inserted(w, new), run[w]) = Done(results, run[w]) \cup new
<1>1. ASSUME NEW i \in Items
      PROVE  Inserted(w, new)[run[w]][i] > 0 <=> i \in Done(results, run[w]) \cup new
  <2>1. Inserted(w, new)[run[w]][i] = results[run[w]][i] + (IF i \in new THEN 1 ELSE 0)
    BY InsertedType
  <2>2. results[run[w]][i] \in Nat
    BY DEF TypeOK
  <2>3. i \in Done(results, run[w]) <=> results[run[w]][i] > 0
    BY DEF Done
  <2>. QED
    BY <2>1, <2>2, <2>3
<1>2. Done(results, run[w]) \cup new \subseteq Items
  BY DEF Done
<1>. QED
  BY <1>1, <1>2 DEF Done

(* At the start there are no gaps.                                         *)
LEMMA ChainInit == Init => ChainInv
BY DEF Init, ChainInv, Oldest, Done

(* No commit leaves a gap before what it inserts, and no failure or retry  *)
(* makes one.                                                              *)
LEMMA ChainStep == TypeInv /\ TypeInv' /\ OwnerInv /\ ChainInv /\ [Next]_vars => ChainInv'
<1>. SUFFICES ASSUME TypeInv, TypeInv', OwnerInv, ChainInv, [Next]_vars PROVE ChainInv'
  OBVIOUS
<1>1. CASE UNCHANGED <<run, page, buffer, results>>
  BY <1>1 DEF ChainInv
<1>2. ASSUME NEW w \in Actors, Work(w) \/ ReadFails(w) \/ Breaks(w) PROVE ChainInv'
  <2>. DEFINE S == Done(results, run[w])
              New == Done(results', run[w])
  <2>10. \A r \in Runs \ {run[w]} : Done(results', r) = Done(results, r)
    BY <1>2, Frame DEF Done
  <2>11. \A v \in Actors \ {w} :
           /\ run'[v] = run[v] /\ page'[v] = page[v] /\ buffer'[v] = buffer[v]
           /\ run[v] # NoRun => run[v] \in Runs \ {run[w]}
    BY <1>2, Frame DEF OwnerInv, ExclusiveRun, TypeInv, TypeOK
  <2>. USE DEF TypeInv, TypeOK, HoldsRun, Holding, At
  <2>0. run[w] # NoRun =>
          Oldest(S) /\ Oldest(S \cup buffer[w]) /\ Oldest(S \cup buffer[w] \cup page[w])
    BY DEF ChainInv
  <2>1. ASSUME run[w] # NoRun => Oldest(New),
               run'[w] # NoRun => /\ Oldest(Done(results', run'[w]) \cup buffer'[w])
                                  /\ Oldest(Done(results', run'[w]) \cup buffer'[w] \cup page'[w])
        PROVE  ChainInv'
    <3>1. ASSUME NEW r \in Runs PROVE Oldest(Done(results', r))
      BY <2>1, <2>10 DEF ChainInv
    <3>2. ASSUME NEW v \in Actors \ {w}, run'[v] # NoRun
          PROVE  /\ Oldest(Done(results', run'[v]) \cup buffer'[v])
                 /\ Oldest(Done(results', run'[v]) \cup buffer'[v] \cup page'[v])
      <4>1. run'[v] = run[v] /\ page'[v] = page[v] /\ buffer'[v] = buffer[v]
        BY <2>11
      <4>2. Done(results', run[v]) = Done(results, run[v])
        BY <2>10, <2>11, <3>2, <4>1
      <4>3. run[v] # NoRun
        BY <3>2, <4>1
      <4>4. /\ Oldest(Done(results, run[v]) \cup buffer[v])
            /\ Oldest(Done(results, run[v]) \cup buffer[v] \cup page[v])
        BY <4>3 DEF ChainInv
      <4>. QED
        BY ONLY <4>1, <4>2, <4>4
    <3>. QED
      BY <2>1, <3>1, <3>2 DEF ChainInv
  <2>2. CASE Claim(w)
    <3>1. /\ run'[w] \in Runs /\ results' = results
          /\ page'[w] = {} /\ buffer'[w] = {} /\ run[w] = NoRun
      BY <2>2 DEF Claim, Home, Claimable, Pending
    <3>2. Oldest(Done(results', run'[w]))
      BY <3>1 DEF ChainInv
    <3>. QED
      BY <2>1, <3>1, <3>2
  <2>3. CASE StartAttempt(w)
    <3>1. /\ page'[w] = Page(run[w]) /\ buffer'[w] = {}
          /\ run'[w] = run[w] /\ results' = results /\ run[w] \in Runs
      BY <2>3 DEF StartAttempt
    <3>2. Oldest(S \cup Page(run[w]))
      BY <2>0, <3>1, PageContinues
    <3>. QED
      BY <2>0, <2>1, <3>1, <3>2
  <2>4. CASE ScoreItem(w)
    <3>1. run[w] \in Runs /\ run'[w] = run[w]
      BY <2>4 DEF ScoreItem
    <3>2. PICK i \in page[w] :
            /\ \A j \in page[w] : i <= j
            /\ page' = [page EXCEPT ![w] = @ \ {i}]
            /\ \/ results' = Inserted(w, buffer[w] \cup {i}) /\ buffer' = [buffer EXCEPT ![w] = {}]
               \/ results' = results /\ buffer' = [buffer EXCEPT ![w] = buffer[w] \cup {i}]
      BY <2>4 DEF ScoreItem
    <3>3. /\ i \in Items /\ page[w] \subseteq Items /\ buffer[w] \cup {i} \in SUBSET Items
          /\ page'[w] = page[w] \ {i} /\ TypeOK
      BY <3>2
    <3>4. Oldest(S \cup (buffer[w] \cup {i}))
      <4>1. Oldest(S \cup buffer[w]) /\ Oldest(S \cup buffer[w] \cup page[w])
        BY <2>0, <3>1
      <4>2. \A j \in Items : j < i => j \in S \cup buffer[w]
        BY <3>2, <3>3, <4>1 DEF Oldest
      <4>. QED
        BY <4>1, <4>2 DEF Oldest
    <3>5. (S \cup (buffer[w] \cup {i})) \cup page'[w] = S \cup buffer[w] \cup page[w]
      BY <3>2, <3>3
    <3>6. CASE results' = Inserted(w, buffer[w] \cup {i}) /\ buffer' = [buffer EXCEPT ![w] = {}]
      <4>1. New = S \cup (buffer[w] \cup {i})
        BY ONLY <3>1, <3>3, <3>6, InsertedDone
      <4>2. buffer'[w] = {}
        BY <3>6
      <4>4. New \cup buffer'[w] = S \cup (buffer[w] \cup {i})
        BY <4>1, <4>2
      <4>5. /\ Oldest(New) /\ Oldest(New \cup buffer'[w])
            /\ Oldest(New \cup buffer'[w] \cup page'[w])
        <5>1. Oldest(S \cup buffer[w] \cup page[w])
          BY <2>0, <3>1
        <5>. QED
          BY ONLY <3>4, <3>5, <4>1, <4>4, <5>1
      <4>. QED
        BY <2>1, <3>1, <4>5
    <3>7. CASE results' = results /\ buffer' = [buffer EXCEPT ![w] = buffer[w] \cup {i}]
      <4>1. buffer'[w] = buffer[w] \cup {i}
        BY <3>7
      <4>. QED
        BY <2>0, <2>1, <3>1, <3>4, <3>5, <3>7, <4>1
    <3>. QED
      BY <3>2, <3>6, <3>7
  <2>5. CASE Aggregate(w)
    <3>1. /\ run[w] \in Runs /\ run'[w] = run[w] /\ buffer'[w] = {} /\ page'[w] = {}
          /\ results' = Inserted(w, buffer[w]) /\ buffer[w] \in SUBSET Items /\ TypeOK
      BY <2>5 DEF Aggregate
    <3>2. New = S \cup buffer[w]
      BY ONLY <3>1, InsertedDone
    <3>3. New \cup buffer'[w] = New /\ New \cup buffer'[w] \cup page'[w] = New
      BY <3>1
    <3>4. Oldest(New)
      BY <2>0, <3>1, <3>2
    <3>. QED
      BY <2>1, <3>1, <3>2, <3>3, <3>4
  <2>6. CASE AttemptFails(w)
    <3>1. /\ run'[w] = run[w] /\ results' = results /\ page'[w] = {}
          /\ buffer'[w] = buffer[w] \/ buffer'[w] = {}
      BY <2>6 DEF AttemptFails
    <3>2. S \cup {} = S /\ S \cup {} \cup {} = S /\ S \cup buffer[w] \cup {} = S \cup buffer[w]
      OBVIOUS
    <3>. QED
      BY <2>0, <2>1, <3>1, <3>2
  <2>7. CASE DrainSpin(w) \/ DrainEnd(w) \/ CommitClaim(w) \/ CompleteRun(w) \/ ReturnTask(w) \/ ReadFails(w)
    BY <2>7, <1>1 DEF DrainSpin, DrainEnd, CommitClaim, CompleteRun, ReturnTask, ReadFails
  <2>8. CASE FinishRun(w) \/ Breaks(w)
    <3>1. results' = results /\ run'[w] = NoRun
      BY <2>8 DEF FinishRun, Breaks, Crash, FlowFails, LeaveRun
    <3>. QED
      BY <2>0, <2>1, <3>1
  <2>9. CASE FailRun(w)
    <3>1. /\ run[w] \in Runs /\ run'[w] = NoRun /\ buffer[w] \in SUBSET Items /\ TypeOK
          /\ results' = results \/ results' = Inserted(w, buffer[w])
      BY <2>9 DEF FailRun, LeaveRun
    <3>2. CASE results' = results
      BY <2>0, <2>1, <3>1, <3>2
    <3>3. CASE results' = Inserted(w, buffer[w])
      <4>1. New = S \cup buffer[w]
        BY ONLY <3>1, <3>3, InsertedDone
      <4>. QED
        BY <2>0, <2>1, <3>1, <4>1
    <3>. QED
      BY <3>1, <3>2, <3>3
  <2>. QED
    BY <1>2, <2>2, <2>3, <2>4, <2>5, <2>6, <2>7, <2>8, <2>9 DEF Work
<1>3. CASE \/ \E q \in Queuers : TriggerRead(q) \/ BootstrapRead(q) \/ Enqueue(q)
           \/ \E r \in Runs : Expire(r)
  BY <1>1, <1>3, QueueFrame
<1>4. CASE UNCHANGED vars
  BY <1>1, <1>4 DEF vars
<1>. QED
  BY <1>2, <1>3, <1>4 DEF Next, Breaks

(* Resuming leaves no gap, whatever was lost, at whatever item.            *)
THEOREM NoGapIsLeft == Spec => []NoGap
<1>1. Spec => []TypeInv
  BY TypeInit, TypeStep, PTL DEF Spec
<1>2. Spec => []OwnerInv
  BY <1>1, OwnerInit, OwnerStep, PTL DEF Spec
<1>3. Spec => []ChainInv
  BY <1>1, <1>2, ChainInit, ChainStep, PTL DEF Spec
<1>4. ChainInv => NoGap
  BY DEF ChainInv, NoGap, Oldest, Done, Scored
<1>. QED
  BY <1>3, <1>4, PTL
-----------------------------------------------------------------------------
(* The aggregate.  Only a "running" row is scored, and between the commit  *)
(* of the aggregate and the end of the run nothing is inserted.            *)
WholeInv ==
  /\ \A r \in Runs : status[r] = "complete" => counted[r] = Cardinality(Done(results, r))
  /\ \A w \in Actors :
       /\ step[w] = "eval" => status[run[w]] = "running"
       /\ w \in Drainers =>
            /\ step[w] \notin {"aggregated", "committed"}
            /\ step[w] \in {"attempt", "eval", "returned", "raised"} => status[run[w]] = "running"
       /\ step[w] \in {"aggregated", "committed", "returned"}
            => counted[run[w]] = Cardinality(Done(results, run[w]))

(* At the start no run is complete and nobody holds one.                   *)
LEMMA WholeInit == Init => WholeInv
BY DEF Init, WholeInv

(* No step inserts behind an aggregate that was committed.                 *)
LEMMA WholeStep ==
  TypeInv /\ TypeInv' /\ OwnerInv /\ WholeInv /\ [Next]_vars => WholeInv'
<1>. SUFFICES ASSUME TypeInv, TypeInv', OwnerInv, WholeInv, [Next]_vars PROVE WholeInv'
  OBVIOUS
<1>1. ASSUME NEW w \in Actors, Work(w) \/ ReadFails(w) \/ Breaks(w) PROVE WholeInv'
  <2>. DEFINE Whole(r) == counted'[r] = Cardinality(Done(results', r))
  <2>1. \A r \in Runs \ {run[w]} :
          /\ Done(results', r) = Done(results, r)
          /\ status'[r] = status[r] /\ counted'[r] = counted[r]
    BY <1>1, Frame DEF Done
  <2>2. \A v \in Actors \ {w} :
          /\ step'[v] = step[v] /\ run'[v] = run[v]
          /\ run[v] # NoRun => run[v] \in Runs \ {run[w]}
    BY <1>1, Frame DEF OwnerInv, ExclusiveRun, TypeInv, TypeOK
  <2>3. ASSUME run[w] # NoRun => (status'[run[w]] = "complete" => Whole(run[w])),
               step'[w] = "eval" => status'[run'[w]] = "running",
               w \in Drainers =>
                 /\ step'[w] \notin {"aggregated", "committed"}
                 /\ step'[w] \in {"attempt", "eval", "returned", "raised"}
                      => status'[run'[w]] = "running",
               step'[w] \in {"aggregated", "committed", "returned"} => Whole(run'[w])
        PROVE  WholeInv'
    <3>1. ASSUME NEW r \in Runs, status'[r] = "complete" PROVE Whole(r)
      BY <2>1, <2>3, <3>1 DEF WholeInv
    <3>2. ASSUME NEW v \in Actors \ {w}
          PROVE  /\ step'[v] = "eval" => status'[run'[v]] = "running"
                 /\ v \in Drainers =>
                      /\ step'[v] \notin {"aggregated", "committed"}
                      /\ step'[v] \in {"attempt", "eval", "returned", "raised"}
                           => status'[run'[v]] = "running"
                 /\ step'[v] \in {"aggregated", "committed", "returned"} => Whole(run'[v])
      <4>1. step'[v] \in Holding =>
              /\ status'[run[v]] = status[run[v]] /\ counted'[run[v]] = counted[run[v]]
              /\ Done(results', run[v]) = Done(results, run[v])
        BY <2>1, <2>2 DEF TypeInv, HoldsRun
      <4>. QED
        BY <2>2, <4>1 DEF WholeInv, Holding
    <3>. QED
      BY <2>3, <3>1, <3>2 DEF WholeInv
  <2>. USE DEF At, Goto
  <2>4. step[w] \in Holding <=> run[w] \in Runs
    BY DEF TypeInv, TypeOK, HoldsRun
  <2>5. /\ status \in [Runs -> Statuses] /\ counted \in [Runs -> Nat]
        /\ step \in [Actors -> Steps] /\ run \in [Actors -> Runs \cup {NoRun}]
        /\ buffer[w] \in SUBSET Items /\ TypeOK
    BY DEF TypeInv, TypeOK
  <2>6. CASE Claim(w)
    <3>1. /\ step'[w] = "locked" /\ run[w] = NoRun
      BY <2>4, <2>5, <2>6 DEF Claim, Home, Holding
    <3>. QED
      BY <2>3, <3>1
  <2>7. CASE DrainSpin(w) \/ DrainEnd(w)
    <3>1. run[w] = NoRun /\ step'[w] \in {"drain", "waiting"}
      BY <2>4, <2>5, <2>7 DEF DrainSpin, DrainEnd, Holding
    <3>. QED
      BY <2>3, <3>1
  <2>8. CASE CommitClaim(w)
    <3>1. /\ run[w] \in Runs /\ run'[w] = run[w]
          /\ status'[run[w]] = "running" /\ step'[w] = "attempt"
      BY <2>4, <2>5, <2>8 DEF CommitClaim, Holding
    <3>. QED
      BY <2>3, <3>1
  <2>9. CASE StartAttempt(w)
    <3>1. /\ run[w] \in Runs /\ run'[w] = run[w] /\ step'[w] = "eval"
          /\ status' = status /\ status[run[w]] = "running"
      BY <2>4, <2>5, <2>9 DEF StartAttempt, Holding, WholeInv, Actors
    <3>. QED
      BY <2>3, <3>1
  <2>10. CASE ScoreItem(w)
    <3>1. /\ run[w] \in Runs /\ run'[w] = run[w] /\ step'[w] = "eval"
          /\ status' = status /\ status[run[w]] = "running"
      BY <2>4, <2>5, <2>10 DEF ScoreItem, Holding, WholeInv
    <3>. QED
      BY <2>3, <3>1
  <2>11. CASE Aggregate(w)
    <3>1. /\ run[w] \in Runs /\ run'[w] = run[w] /\ status' = status
          /\ status[run[w]] = "running" /\ results' = Inserted(w, buffer[w])
          /\ counted'[run[w]] = CountAfter(w)
          /\ step'[w] = IF w \in Drainers THEN "returned" ELSE "aggregated"
      BY <2>4, <2>5, <2>11 DEF Aggregate, Holding, WholeInv
    <3>2. Done(results', run[w]) = Done(results, run[w]) \cup buffer[w]
      BY ONLY <2>5, <3>1, InsertedDone
    <3>3. CountAfter(w) = Cardinality(Done(results, run[w]) \cup buffer[w])
      BY DEF CountAfter, Scored, Done
    <3>. QED
      BY <2>3, <3>1, <3>2, <3>3
  <2>12. CASE CompleteRun(w)
    <3>1. /\ run[w] \in Runs /\ run'[w] = run[w] /\ step'[w] = "committed"
          /\ results' = results /\ counted' = counted /\ w \notin Drainers
          /\ counted[run[w]] = Cardinality(Done(results, run[w]))
      BY <2>4, <2>5, <2>12 DEF CompleteRun, Holding, WholeInv
    <3>. QED
      BY <2>3, <3>1
  <2>13. CASE ReturnTask(w) \/ ReadFails(w)
    <3>1. /\ run[w] \in Runs /\ run'[w] = run[w] /\ step'[w] \in {"returned", "raised"}
          /\ results' = results /\ counted' = counted /\ status' = status
          /\ counted[run[w]] = Cardinality(Done(results, run[w]))
      BY <2>4, <2>5, <2>13 DEF ReturnTask, ReadFails, Holding, WholeInv
    <3>2. w \in Drainers => status[run[w]] = "running"
      BY <2>13 DEF ReturnTask, ReadFails, WholeInv
    <3>. QED
      BY <2>3, <3>1, <3>2
  <2>14. CASE AttemptFails(w)
    <3>1. /\ run[w] \in Runs /\ run'[w] = run[w] /\ step'[w] \in {"attempt", "raised"}
          /\ results' = results /\ counted' = counted /\ status' = status
      BY <2>4, <2>5, <2>14 DEF AttemptFails, Holding
    <3>2. w \in Drainers => status[run[w]] = "running"
      BY <2>14 DEF AttemptFails, WholeInv
    <3>3. status[run[w]] = "complete" => counted[run[w]] = Cardinality(Done(results, run[w]))
      BY <3>1 DEF WholeInv
    <3>. QED
      BY <2>3, <3>1, <3>2, <3>3
  <2>15. CASE FinishRun(w)
    <3>1. /\ run[w] \in Runs /\ step'[w] \in {"drain", "waiting"}
          /\ results' = results /\ counted' = counted
          /\ counted[run[w]] = Cardinality(Done(results, run[w]))
      BY <2>4, <2>5, <2>15 DEF FinishRun, LeaveRun, Home, Holding, WholeInv
    <3>. QED
      BY <2>3, <3>1
  <2>16. CASE FailRun(w)
    <3>1. Known(w) # "complete"
      BY <2>16 DEF FailRun, Known, WholeInv
    <3>2. run[w] \in Runs /\ step'[w] \in {"drain", "waiting"} /\ status'[run[w]] = "failed"
      BY <2>4, <2>5, <2>16, <3>1 DEF FailRun, LeaveRun, Home, Holding
    <3>. QED
      BY <2>3, <3>2
  <2>17. CASE Breaks(w)
    <3>1. /\ step'[w] \in {"drain", "waiting"}
          /\ results' = results /\ counted' = counted /\ status' = status
      BY <2>5, <2>17 DEF Breaks, Crash, FlowFails, LeaveRun, Home
    <3>2. run[w] \in Runs => (status[run[w]] = "complete"
                                => counted[run[w]] = Cardinality(Done(results, run[w])))
      BY DEF WholeInv
    <3>. QED
      BY <2>3, <2>5, <3>1, <3>2
  <2>. QED
    BY <1>1, <2>6, <2>7, <2>8, <2>9, <2>10, <2>11, <2>12, <2>13, <2>14, <2>15, <2>16, <2>17
    DEF Work
<1>2. CASE \/ \E q \in Queuers : TriggerRead(q) \/ BootstrapRead(q) \/ Enqueue(q)
           \/ \E r \in Runs : Expire(r)
  <2>1. UNCHANGED <<run, results, counted>>
    BY <1>2, QueueFrame
  <2>2. ASSUME NEW w \in Actors, step'[w] \in Holding
        PROVE  step[w] = step'[w] /\ run[w] \in Runs /\ status'[run[w]] = status[run[w]]
    <3>1. step'[w] = step[w]
      BY <1>2, <2>2, QueueFrame
    <3>2. run[w] \in Runs
      BY <2>2, <3>1 DEF TypeInv, TypeOK, HoldsRun
    <3>3. status[run[w]] # "absent"
      <4>1. CASE step[w] = "locked"
        BY <4>1 DEF OwnerInv, ClaimInv, At
      <4>2. CASE step[w] \in Holding \ {"locked"}
        BY <4>2 DEF OwnerInv, ClaimInv
      <4>. QED
        BY <2>2, <3>1, <4>1, <4>2
    <3>. QED
      BY <1>2, <3>1, <3>2, <3>3, QueueFrame
  <2>3. \A r \in Runs : status'[r] = "complete" => status[r] = "complete"
    BY <1>2, QueueFrame
  <2>. QED
    BY <2>1, <2>2, <2>3 DEF WholeInv, Holding
<1>3. CASE UNCHANGED vars
  BY <1>3 DEF vars, WholeInv
<1>. QED
  BY <1>1, <1>2, <1>3 DEF Next, Breaks

(* The aggregate of a complete run counts every result of the run.         *)
THEOREM AggregatesAreWhole == Spec => []AggregateIsWhole
<1>1. Spec => []TypeInv
  BY TypeInit, TypeStep, PTL DEF Spec
<1>2. Spec => []OwnerInv
  BY <1>1, OwnerInit, OwnerStep, PTL DEF Spec
<1>3. Spec => []WholeInv
  BY <1>1, <1>2, WholeInit, WholeStep, PTL DEF Spec
<1>4. WholeInv => AggregateIsWhole
  BY DEF WholeInv, AggregateIsWhole, Done, Scored
<1>. QED
  BY <1>3, <1>4, PTL
-----------------------------------------------------------------------------
(* The price of a run.  Its calls are those of the attempts that are over, *)
(* each at most a page or what it committed and one batch, and those of    *)
(* the attempt it is in.                                                   *)
Priced(r) ==
  /\ status[r] \in {"absent", "pending"} => calls[r] = 0
  /\ calls[r] <= MaxAttempts * MaxItems
  /\ CommitEvery > 0 =>
       calls[r] <= Cardinality(Done(results, r)) + MaxAttempts * CommitEvery

Spending(w, r) ==
  /\ attempt[w] > 0
  /\ step[w] = "attempt" => calls[r] <= (attempt[w] - 1) * MaxItems
  /\ step[w] # "attempt" => calls[r] + Cardinality(page[w]) <= attempt[w] * MaxItems
  /\ CommitEvery > 0 =>
       /\ step[w] = "eval" => Cardinality(buffer[w]) < CommitEvery
       /\ calls[r] <= Cardinality(Done(results, r)) + (attempt[w] - 1) * CommitEvery
                        + (IF step[w] = "eval" THEN Cardinality(buffer[w]) ELSE 0)

BudgetInv ==
  /\ \A r \in Runs : Priced(r)
  /\ \A w \in Actors :
       /\ step[w] # "eval" => page[w] = {}
       /\ step[w] \in {"attempt", "eval", "aggregated", "committed"} => Spending(w, run[w])

(* The sets of items that are counted are finite.                          *)
LEMMA Counts ==
  ASSUME NEW T \in SUBSET Items
  PROVE  IsFiniteSet(T) /\ Cardinality(T) \in Nat
BY FS_Subset, FS_CardinalityType

(* What the products of attempts and a page, or a batch, amount to.        *)
LEMMA Products ==
  ASSUME NEW n \in Nat, NEW a \in Nat, NEW b \in Nat
  PROVE  /\ a * n \in Nat /\ 0 * n = 0
         /\ a > 0 => (a - 1) * n \in Nat /\ a * n = (a - 1) * n + n
         /\ (a + 1) * n = a * n + n
         /\ a <= b => a * n <= b * n
<1>1. a * n \in Nat /\ 0 * n = 0 /\ (a + 1) * n = a * n + n
  OBVIOUS
<1>2. a > 0 => (a - 1) * n \in Nat /\ a * n = (a - 1) * n + n
  OBVIOUS
<1>3. ASSUME a <= b PROVE a * n <= b * n
  <2>1. PICK d \in Nat : b = a + d
    <3>1. b - a \in Nat /\ b = a + (b - a)
      BY <1>3
    <3>. QED
      BY <3>1
  <2>2. b * n = a * n + d * n /\ d * n \in Nat
    BY <2>1
  <2>. QED
    BY <1>1, <2>2
<1>. QED
  BY <1>1, <1>2, <1>3

(* A page has at most MaxItems items.                                      *)
LEMMA PageBounded ==
  ASSUME NEW r \in Runs
  PROVE  Cardinality(Page(r)) <= MaxItems
<1>. DEFINE U == Unscored(r)
            Before(i) == {k \in U : k < i}
            f == [i \in Page(r) |-> Cardinality(Before(i))]
            T == 0 .. (MaxItems - 1)
<1>1. U \subseteq Items /\ Page(r) \subseteq U /\ U \subseteq Nat
  BY DEF Unscored, Page
<1>2. \A i : IsFiniteSet(Before(i)) /\ Cardinality(Before(i)) \in Nat
  BY <1>1, Counts
<1>3. f \in [Page(r) -> T]
  BY <1>2 DEF Page
<1>4. ASSUME NEW i \in Page(r), NEW j \in Page(r), i < j PROVE f[i] # f[j]
  <2>1. i \in U /\ i \in Nat /\ j \in Nat
    BY <1>1
  <2>2. Before(i) \subseteq Before(j) /\ i \in Before(j) /\ i \notin Before(i)
    BY <1>1, <1>4, <2>1
  <2>3. Cardinality(Before(i)) # Cardinality(Before(j))
    <3>. HIDE DEF Before
    <3>. QED
      BY <1>2, <2>2, FS_Subset
  <2>. QED
    BY <2>3
<1>5. f \in Injection(Page(r), T)
  <2>1. ASSUME NEW i \in Page(r), NEW j \in Page(r), i # j PROVE f[i] # f[j]
    <3>1. i \in Nat /\ j \in Nat
      BY <1>1
    <3>2. CASE i < j
      BY <1>4, <3>2
    <3>3. CASE j < i
      BY <1>4, <3>3
    <3>. QED
      BY <2>1, <3>1, <3>2, <3>3
  <2>. HIDE DEF f
  <2>. QED
    BY <1>3, <2>1 DEF Injection, IsInjective
<1>6. IsFiniteSet(T) /\ Cardinality(T) = MaxItems
  <2>1. 0 \in Int /\ MaxItems - 1 \in Int /\ ~(0 > MaxItems - 1) /\ MaxItems - 1 - 0 + 1 = MaxItems
    OBVIOUS
  <2>. QED
    BY <2>1, FS_Interval
<1>. HIDE DEF f, T
<1>. QED
  BY <1>5, <1>6, FS_Injection

(* What an insert of new items adds to the number of items scored.         *)
LEMMA InsertedCount ==
  ASSUME TypeOK, NEW w \in Actors, NEW r \in Runs, run[w] = r, NEW new \in SUBSET Items,
         \A i \in new : results[r][i] = 0
  PROVE  Cardinality(Done(Inserted(w, new), r)) = Cardinality(Done(results, r)) + Cardinality(new)
<1>1. Done(Inserted(w, new), r) = Done(results, r) \cup new
  BY InsertedDone
<1>2. Done(results, r) \in SUBSET Items /\ Done(results, r) \cap new = {}
  <2>1. \A i \in Done(results, r) : i \in Items /\ results[r][i] > 0
    BY DEF Done
  <2>2. ASSUME NEW i \in new PROVE ~(results[r][i] > 0)
    <3>1. results[r][i] = 0
      OBVIOUS
    <3>. QED
      BY ONLY <3>1
  <2>. QED
    BY ONLY <2>1, <2>2
<1>3. /\ IsFiniteSet(Done(results, r)) /\ Cardinality(Done(results, r)) \in Nat
      /\ IsFiniteSet(new) /\ Cardinality(new) \in Nat
  <2>1. new \in SUBSET Items
    OBVIOUS
  <2>. QED
    BY ONLY <1>2, <2>1, Counts
<1>4. Cardinality(Done(results, r) \cup new)
        = Cardinality(Done(results, r)) + Cardinality(new) - Cardinality({})
  BY <1>2, <1>3, FS_Union
<1>. QED
  BY <1>1, <1>3, <1>4, FS_EmptySet

(* A step of an actor pays for no other run, and moves no other attempt.   *)
LEMMA PaymentFrame ==
  ASSUME TypeInv, NEW w \in Actors, Work(w) \/ ReadFails(w) \/ Breaks(w)
  PROVE  /\ \A v \in Actors \ {w} : attempt'[v] = attempt[v]
         /\ \A r \in Runs \ {run[w]} : calls'[r] = calls[r]
         /\ run[w] \notin Runs => calls' = calls
<1>. USE DEF TypeInv, TypeOK, HoldsRun, Holding, At
<1>1. attempt' = attempt \/ \E x : attempt' = [attempt EXCEPT ![w] = x]
  BY DEF Work, Claim, DrainSpin, DrainEnd, CommitClaim, StartAttempt, ScoreItem, Aggregate,
     CompleteRun, ReturnTask, ReadFails, AttemptFails, FinishRun, FailRun, Breaks,
     Crash, FlowFails, Goto, LeaveRun
<1>2. \/ calls' = calls
      \/ step[w] \in Holding /\ calls' = [calls EXCEPT ![run[w]] = calls[run[w]] + 1]
  BY DEF Work, Claim, DrainSpin, DrainEnd, CommitClaim, StartAttempt, ScoreItem, Aggregate,
     CompleteRun, ReturnTask, ReadFails, AttemptFails, FinishRun, FailRun, Breaks,
     Crash, FlowFails, Goto, LeaveRun
<1>. QED
  BY <1>1, <1>2

(* A queuer pays for nothing.                                              *)
LEMMA QueuePayment ==
  ASSUME TypeInv,
         \/ \E q \in Queuers : TriggerRead(q) \/ BootstrapRead(q) \/ Enqueue(q)
         \/ \E r \in Runs : Expire(r)
  PROVE  UNCHANGED <<calls, attempt>>
BY DEF TriggerRead, BootstrapRead, Enqueue, Expire

(* Nothing is paid at the start.                                           *)
LEMMA BudgetInit == Init => BudgetInv
<1>. SUFFICES ASSUME Init PROVE BudgetInv
  OBVIOUS
<1>1. ASSUME NEW r \in Runs PROVE Priced(r)
  <2>1. calls[r] = 0
    BY DEF Init
  <2>2. Done(results, r) \in SUBSET Items
    BY DEF Done
  <2>3. Cardinality(Done(results, r)) \in Nat
    BY <2>2, Counts
  <2>4. MaxAttempts * MaxItems \in Nat /\ MaxAttempts * CommitEvery \in Nat
    BY Products
  <2>. QED
    BY <2>1, <2>3, <2>4 DEF Priced
<1>2. \A w \in Actors : step[w] = "waiting" /\ page[w] = {}
  BY DEF Init
<1>. QED
  BY <1>1, <1>2 DEF BudgetInv

(* No step of the actor that holds a run spends more than the attempt it   *)
(* is in allows, and a retry starts with what the others were allowed.     *)
LEMMA HolderBudget ==
  ASSUME TypeInv, TypeInv', OwnerInv, FreshInv, BudgetInv,
         NEW w \in Actors, NEW r \in Runs, run[w] = r, Work(w) \/ ReadFails(w) \/ Breaks(w)
  PROVE  /\ Priced(r)'
         /\ step'[w] # "eval" => page'[w] = {}
         /\ step'[w] \in {"attempt", "eval", "aggregated", "committed"} => run'[w] = r /\ Spending(w, r)'
<1>. DEFINE D  == Cardinality(Done(results, r))
            D1 == Cardinality(Done(results', r))
            Pages(a) == a * MaxItems
            Batches(a) == a * CommitEvery
<1>1. /\ step[w] \in Holding /\ calls[r] \in Nat /\ attempt[w] \in 0..MaxAttempts
      /\ step \in [Actors -> Steps] /\ status \in [Runs -> Statuses]
      /\ calls \in [Runs -> Nat] /\ attempt \in [Actors -> 0..MaxAttempts]
      /\ page \in [Actors -> SUBSET Items] /\ buffer \in [Actors -> SUBSET Items]
      /\ run \in [Actors -> Runs \cup {NoRun}]
  BY DEF TypeInv, TypeOK, HoldsRun
<1>2. D \in Nat /\ D1 \in Nat
  <2>1. Done(results, r) \in SUBSET Items /\ Done(results', r) \in SUBSET Items
    BY DEF Done
  <2>. QED
    BY <2>1, Counts
<1>3. /\ Cardinality(page[w]) \in Nat /\ IsFiniteSet(page[w])
      /\ Cardinality(buffer[w]) \in Nat /\ IsFiniteSet(buffer[w])
      /\ \A S \in SUBSET Items : Cardinality(S) \in Nat
      /\ Cardinality({}) = 0
  BY <1>1, Counts, FS_EmptySet
<1>4. MaxItems \in Nat /\ CommitEvery \in Nat /\ MaxAttempts \in Nat /\ MaxAttempts > 0 /\ MaxItems > 0
  OBVIOUS
<1>5. \A a \in 0..MaxAttempts :
        /\ Pages(a) \in Nat /\ Batches(a) \in Nat
        /\ a > 0 => /\ Pages(a - 1) \in Nat /\ Pages(a) = Pages(a - 1) + MaxItems
                    /\ Batches(a - 1) \in Nat /\ Batches(a) = Batches(a - 1) + CommitEvery
        /\ Pages(a) <= Pages(MaxAttempts) /\ Batches(a) <= Batches(MaxAttempts)
  BY <1>4, Products
<1>6. Pages(0) = 0 /\ Batches(0) = 0
  BY <1>4, Products
<1>7. /\ status[r] \in {"absent", "pending"} => calls[r] = 0
      /\ calls[r] <= Pages(MaxAttempts)
      /\ CommitEvery > 0 => calls[r] <= D + Batches(MaxAttempts)
      /\ step[w] # "eval" => page[w] = {}
  BY DEF BudgetInv, Priced
<1>8. step[w] \in {"attempt", "eval", "aggregated", "committed"} =>
        /\ attempt[w] > 0
        /\ step[w] = "attempt" => calls[r] <= Pages(attempt[w] - 1)
        /\ step[w] # "attempt" => calls[r] + Cardinality(page[w]) <= Pages(attempt[w])
        /\ CommitEvery > 0 =>
             /\ step[w] = "eval" => Cardinality(buffer[w]) < CommitEvery
             /\ calls[r] <= D + Batches(attempt[w] - 1)
                              + (IF step[w] = "eval" THEN Cardinality(buffer[w]) ELSE 0)
  BY DEF BudgetInv, Spending
<1>9. ASSUME status'[r] \in {"absent", "pending"} => calls'[r] = 0,
             calls'[r] <= Pages(MaxAttempts),
             CommitEvery > 0 => calls'[r] <= D1 + Batches(MaxAttempts)
      PROVE  Priced(r)'
  BY <1>9 DEF Priced
<1>10. ASSUME attempt'[w] > 0,
              step'[w] = "attempt" => calls'[r] <= Pages(attempt'[w] - 1),
              step'[w] # "attempt" => calls'[r] + Cardinality(page'[w]) <= Pages(attempt'[w]),
              CommitEvery > 0 =>
                /\ step'[w] = "eval" => Cardinality(buffer'[w]) < CommitEvery
                /\ calls'[r] <= D1 + Batches(attempt'[w] - 1)
                               + (IF step'[w] = "eval" THEN Cardinality(buffer'[w]) ELSE 0)
       PROVE  Spending(w, r)'
  BY <1>10 DEF Spending
<1>11. /\ step[w] = "locked" => status[r] = "pending"
       /\ step[w] \in Holding \ {"locked"} => status[r] \in {"running", "complete", "failed"}
       /\ page[w] \cap buffer[w] = {}
       /\ \A i \in page[w] \cup buffer[w] : results[r][i] = 0
  BY <1>1 DEF OwnerInv, ClaimInv, At, FreshInv
<1>12. results' = results => D1 = D
  OBVIOUS
<1>13. TypeOK
  BY DEF TypeInv
<1>. HIDE DEF D, D1, Pages, Batches
<1>. USE DEF At, Goto, Holding
<1>14. CASE CommitClaim(w)
  <2>1. /\ status'[r] = "running" /\ attempt'[w] = 1 /\ step'[w] = "attempt" /\ run'[w] = r
        /\ calls'[r] = 0 /\ D1 = D /\ page'[w] = {} /\ step[w] = "locked"
    BY <1>1, <1>7, <1>11, <1>12, <1>14 DEF CommitClaim
  <2>2. Pages(1 - 1) = 0 /\ Batches(1 - 1) = 0
    BY <1>6
  <2>3. Pages(MaxAttempts) \in Nat /\ Batches(MaxAttempts) \in Nat
    BY <1>4, <1>5
  <2>4. Priced(r)'
    BY <1>2, <1>9, <2>1, <2>3
  <2>5. Spending(w, r)'
    BY <1>2, <1>10, <2>1, <2>2
  <2>. QED
    BY <2>1, <2>4, <2>5
<1>15. CASE StartAttempt(w)
  <2>1. /\ status' = status /\ attempt' = attempt /\ step[w] = "attempt" /\ step'[w] = "eval"
        /\ run'[w] = r /\ calls' = calls /\ D1 = D /\ page'[w] = Page(r) /\ buffer'[w] = {}
    BY <1>1, <1>12, <1>15 DEF StartAttempt
  <2>2. Cardinality(Page(r)) <= MaxItems /\ Cardinality(Page(r)) \in Nat
    BY <1>3, PageBounded, Values
  <2>3. Priced(r)'
    BY <1>7, <1>9, <2>1
  <2>4. Spending(w, r)'
    BY <1>1, <1>2, <1>3, <1>4, <1>5, <1>8, <1>10, <2>1, <2>2
  <2>. QED
    BY <2>1, <2>3, <2>4
<1>16. CASE ScoreItem(w)
  <2>1. /\ status' = status /\ attempt' = attempt /\ step[w] = "eval" /\ step'[w] = "eval"
        /\ run'[w] = r /\ calls'[r] = calls[r] + 1
    BY <1>1, <1>16 DEF ScoreItem
  <2>2. PICK i \in page[w] :
          /\ page' = [page EXCEPT ![w] = @ \ {i}]
          /\ LET new == buffer[w] \cup {i} IN
             IF CommitsNow(new)
             THEN results' = Inserted(w, new) /\ buffer' = [buffer EXCEPT ![w] = {}]
             ELSE buffer' = [buffer EXCEPT ![w] = new] /\ UNCHANGED results
    BY <1>16 DEF ScoreItem
  <2>. DEFINE new == buffer[w] \cup {i}
  <2>3. Cardinality(page'[w]) = Cardinality(page[w]) - 1 /\ Cardinality(page'[w]) \in Nat
    <3>1. page'[w] = page[w] \ {i} /\ page'[w] \in SUBSET Items
      BY <1>1, <2>2
    <3>2. i \in page[w] /\ IsFiniteSet(page[w])
      BY <1>3
    <3>3. Cardinality(page[w] \ {i}) = Cardinality(page[w]) - 1
      BY ONLY <3>2, FS_RemoveElement
    <3>4. Cardinality(page'[w]) \in Nat
      BY ONLY <1>3, <3>1
    <3>. QED
      BY ONLY <3>1, <3>3, <3>4
  <2>4. Cardinality(new) = Cardinality(buffer[w]) + 1 /\ new \in SUBSET Items
    <3>1. i \notin buffer[w] /\ IsFiniteSet(buffer[w]) /\ new \in SUBSET Items
      BY <1>1, <1>3, <1>11, <2>2
    <3>2. Cardinality(buffer[w] \cup {i}) = Cardinality(buffer[w]) + 1
      BY ONLY <3>1, FS_AddElement
    <3>. QED
      BY <3>1, <3>2
  <2>5. \/ Cardinality(new) = CommitEvery /\ buffer'[w] = {} /\ D1 = D + Cardinality(new)
        \/ Cardinality(new) # CommitEvery /\ buffer'[w] = new /\ D1 = D
    <3>1. CASE CommitsNow(new)
      <4>1. results' = Inserted(w, new) /\ buffer'[w] = {}
        BY <1>1, <2>2, <3>1
      <4>2. \A j \in new : results[r][j] = 0
        BY <1>11, <2>2
      <4>3. D1 = D + Cardinality(new)
        <5>. HIDE DEF new
        <5>. QED
          BY <1>13, <2>4, <4>1, <4>2, InsertedCount DEF D, D1
      <4>. QED
        BY <3>1, <4>1, <4>3 DEF CommitsNow
    <3>2. CASE ~CommitsNow(new)
      <4>1. results' = results /\ buffer'[w] = new
        BY <1>1, <2>2, <3>2
      <4>. QED
        BY <1>12, <3>2, <4>1 DEF CommitsNow
    <3>. QED
      BY <3>1, <3>2
  <2>6. /\ attempt[w] > 0 /\ calls[r] + Cardinality(page[w]) <= Pages(attempt[w])
        /\ CommitEvery > 0 =>
             /\ Cardinality(buffer[w]) < CommitEvery
             /\ calls[r] <= D + Batches(attempt[w] - 1) + Cardinality(buffer[w])
    BY <1>8, <2>1
  <2>. HIDE DEF new
  <2>7. Priced(r)'
    <3>1. status'[r] \notin {"absent", "pending"}
      BY <1>11, <2>1
    <3>2. calls'[r] <= Pages(MaxAttempts)
      BY ONLY <1>1, <1>3, <1>4, <1>5, <2>1, <2>3, <2>6
    <3>3. CommitEvery > 0 => calls'[r] <= D1 + Batches(MaxAttempts)
      <4>1. D + Cardinality(buffer[w]) + 1 <= D1 + CommitEvery \/ ~(CommitEvery > 0)
        BY ONLY <1>2, <1>3, <1>4, <2>4, <2>5, <2>6
      <4>. QED
        BY ONLY <1>1, <1>2, <1>3, <1>4, <1>5, <2>1, <2>6, <4>1
    <3>. QED
      BY <1>9, <3>1, <3>2, <3>3
  <2>8. Spending(w, r)'
    <3>1. calls'[r] + Cardinality(page'[w]) <= Pages(attempt'[w]) /\ attempt'[w] > 0
      BY ONLY <1>1, <1>3, <1>5, <2>1, <2>3, <2>6
    <3>2. ASSUME CommitEvery > 0
          PROVE  /\ Cardinality(buffer'[w]) < CommitEvery
                 /\ calls'[r] <= D1 + Batches(attempt'[w] - 1) + Cardinality(buffer'[w])
      <4>1. Batches(attempt[w] - 1) \in Nat /\ attempt'[w] = attempt[w]
        BY <1>1, <1>5, <2>1, <2>6
      <4>2. calls[r] <= D + Batches(attempt[w] - 1) + Cardinality(buffer[w])
        BY <2>6, <3>2
      <4>3. \/ Cardinality(buffer'[w]) = 0 /\ D1 = D + Cardinality(buffer[w]) + 1
            \/ Cardinality(buffer'[w]) = Cardinality(buffer[w]) + 1 /\ D1 = D
                 /\ Cardinality(buffer[w]) + 1 # CommitEvery
        <5>1. CASE /\ Cardinality(new) = CommitEvery /\ buffer'[w] = {}
                   /\ D1 = D + Cardinality(new)
          <6>1. D1 = D + Cardinality(buffer[w]) + 1
            BY ONLY <1>2, <1>3, <2>4, <5>1
          <6>2. Cardinality(buffer'[w]) = 0
            BY ONLY <1>3, <5>1
          <6>. QED
            BY ONLY <6>1, <6>2
        <5>2. CASE Cardinality(new) # CommitEvery /\ buffer'[w] = new /\ D1 = D
          BY ONLY <2>4, <5>2
        <5>. QED
          BY ONLY <2>5, <5>1, <5>2
      <4>4. Cardinality(buffer[w]) < CommitEvery
        BY <2>6, <3>2
      <4>5. calls[r] \in Nat /\ calls'[r] = calls[r] + 1
        BY <1>1, <2>1
      <4>6. Cardinality(buffer'[w]) < CommitEvery
        BY ONLY <1>3, <1>4, <3>2, <4>3, <4>4
      <4>7. calls'[r] <= D1 + Batches(attempt[w] - 1) + Cardinality(buffer'[w])
        BY ONLY <1>2, <1>3, <4>1, <4>2, <4>3, <4>5
      <4>. QED
        BY <4>1, <4>6, <4>7
    <3>. QED
      BY <1>10, <2>1, <3>1, <3>2
  <2>. QED
    BY <2>1, <2>7, <2>8
<1>17. CASE Aggregate(w)
  <2>1. /\ status' = status /\ attempt' = attempt /\ calls' = calls /\ page'[w] = {} /\ page[w] = {}
        /\ step[w] = "eval" /\ step'[w] \in {"returned", "aggregated"} /\ run'[w] = r
        /\ results' = Inserted(w, buffer[w]) /\ buffer[w] \in SUBSET Items
    BY <1>1, <1>17 DEF Aggregate
  <2>2. D1 = D + Cardinality(buffer[w])
    BY <1>11, <1>13, <2>1, InsertedCount DEF D, D1
  <2>3. Priced(r)'
    <3>1. status'[r] \notin {"absent", "pending"} /\ calls'[r] = calls[r]
      BY <1>11, <2>1
    <3>2. D <= D1
      BY <1>2, <1>3, <2>1, <2>2
    <3>3. CommitEvery > 0 => calls'[r] <= D1 + Batches(MaxAttempts)
      BY <1>1, <1>2, <1>4, <1>5, <1>7, <3>1, <3>2
    <3>. QED
      BY <1>7, <1>9, <3>1, <3>3
  <2>4. Spending(w, r)'
    BY <1>1, <1>2, <1>3, <1>4, <1>5, <1>8, <1>10, <2>1, <2>2
  <2>. QED
    BY <2>1, <2>3, <2>4
<1>18. CASE CompleteRun(w) \/ ReturnTask(w)
  <2>1. /\ status'[r] \notin {"absent", "pending"} /\ attempt' = attempt /\ calls' = calls
        /\ page' = page /\ page[w] = {} /\ D1 = D /\ run'[w] = r
        /\ step[w] \in {"aggregated", "committed"} /\ step'[w] \in {"committed", "returned"}
    BY <1>1, <1>7, <1>11, <1>12, <1>18 DEF CompleteRun, ReturnTask, db
  <2>2. Priced(r)'
    BY <1>7, <1>9, <2>1
  <2>3. Spending(w, r)'
    BY <1>1, <1>2, <1>3, <1>5, <1>8, <1>10, <2>1
  <2>. QED
    BY <2>1, <2>2, <2>3
<1>19. CASE AttemptFails(w)
  <2>1. /\ status' = status /\ D1 = D /\ page'[w] = {} /\ run'[w] = r
        /\ step[w] \in {"attempt", "eval", "aggregated", "committed"}
        /\ status'[r] \notin {"absent", "pending"}
    BY <1>1, <1>11, <1>12, <1>19 DEF AttemptFails
  <2>2. \/ calls'[r] = calls[r]
        \/ page[w] # {} /\ step[w] = "eval" /\ calls'[r] = calls[r] + 1
    BY <1>1, <1>7, <1>19 DEF AttemptFails
  <2>3. \/ step'[w] = "attempt" /\ attempt'[w] = attempt[w] + 1 /\ attempt[w] + 1 \in 0..MaxAttempts
        \/ step'[w] = "raised"
    BY <1>1, <1>4, <1>19 DEF AttemptFails, Attempts
  <2>4. page[w] # {} => Cardinality(page[w]) >= 1
    BY <1>3, FS_EmptySet
  <2>5. calls'[r] <= Pages(attempt[w])
    BY ONLY <1>1, <1>3, <1>4, <1>5, <1>8, <2>1, <2>2, <2>4
  <2>6. CommitEvery > 0 => calls'[r] <= D1 + Batches(attempt[w])
    BY ONLY <1>1, <1>2, <1>3, <1>4, <1>5, <1>8, <2>1, <2>2
  <2>7. Priced(r)'
    <3>1. calls'[r] \in Nat
      BY <1>1, <2>2
    <3>. QED
      BY <1>1, <1>2, <1>4, <1>5, <1>9, <2>1, <2>5, <2>6, <3>1
  <2>8. step'[w] = "attempt" => Spending(w, r)'
    <3>1. step'[w] = "attempt" => attempt'[w] = attempt[w] + 1 /\ attempt'[w] - 1 = attempt[w]
      BY <1>1, <2>3
    <3>. QED
      BY <1>1, <1>2, <1>5, <1>10, <2>5, <2>6, <3>1
  <2>. QED
    BY <2>1, <2>3, <2>7, <2>8
<1>20. CASE FinishRun(w) \/ Breaks(w) \/ ReadFails(w)
  <2>1. /\ calls' = calls /\ D1 = D /\ page'[w] = {}
        /\ step'[w] \in {"drain", "waiting", "raised"}
        /\ status'[r] = status[r] \/ status'[r] = "complete"
    <3>1. CASE FinishRun(w) \/ Breaks(w)
      BY <1>1, <1>12, <3>1 DEF FinishRun, Breaks, Crash, FlowFails, LeaveRun, Home, db
    <3>2. CASE ReadFails(w)
      BY <1>1, <1>12, <3>2 DEF ReadFails, BudgetInv, db
    <3>. QED
      BY <1>20, <3>1, <3>2
  <2>. QED
    BY <1>7, <1>9, <2>1
<1>21. CASE FailRun(w)
  <2>1. /\ calls' = calls /\ page'[w] = {} /\ step'[w] \in {"drain", "waiting"}
        /\ status'[r] = status[r] \/ status'[r] = "failed"
        /\ results' = results \/ results' = Inserted(w, buffer[w])
        /\ buffer[w] \in SUBSET Items
    BY <1>1, <1>21 DEF FailRun, LeaveRun, Home
  <2>2. D1 >= D
    <3>1. CASE results' = results
      BY <1>2, <1>12, <3>1
    <3>2. CASE results' = Inserted(w, buffer[w])
      <4>1. D1 = D + Cardinality(buffer[w])
        BY <1>11, <1>13, <2>1, <3>2, InsertedCount DEF D, D1
      <4>. QED
        BY <1>2, <1>3, <4>1
    <3>. QED
      BY <2>1, <3>1, <3>2
  <2>3. Priced(r)'
    BY <1>1, <1>2, <1>4, <1>5, <1>7, <1>9, <2>1, <2>2
  <2>. QED
    BY <2>1, <2>3
<1>22. CASE Claim(w) \/ DrainSpin(w) \/ DrainEnd(w)
  BY <1>1, <1>22 DEF Claim, DrainSpin, DrainEnd, Home
<1>. QED
  BY <1>14, <1>15, <1>16, <1>17, <1>18, <1>19, <1>20, <1>21, <1>22 DEF Work

(* A row that was never claimed, or is another actor's, keeps its price.   *)
LEMMA BudgetStep ==
  TypeInv /\ TypeInv' /\ OwnerInv /\ FreshInv /\ BudgetInv /\ [Next]_vars => BudgetInv'
<1>. SUFFICES ASSUME TypeInv, TypeInv', OwnerInv, FreshInv, BudgetInv, [Next]_vars
              PROVE  BudgetInv'
  OBVIOUS
<1>1. ASSUME NEW w \in Actors, Work(w) \/ ReadFails(w) \/ Breaks(w) PROVE BudgetInv'
  <2>1. ASSUME NEW v \in Actors \ {w}
        PROVE  /\ step'[v] # "eval" => page'[v] = {}
               /\ step'[v] \in {"attempt", "eval", "aggregated", "committed"}
                    => Spending(v, run[v])'
    <3>1. /\ step'[v] = step[v] /\ run'[v] = run[v] /\ page'[v] = page[v]
          /\ buffer'[v] = buffer[v] /\ attempt'[v] = attempt[v]
      BY <1>1, Frame, PaymentFrame
    <3>2. ASSUME step[v] \in {"attempt", "eval", "aggregated", "committed"}
          PROVE  Spending(v, run[v])'
      <4>1. run[v] \in Runs \ {run[w]}
        BY <3>2 DEF OwnerInv, ExclusiveRun, TypeInv, TypeOK, HoldsRun, Holding
      <4>2. calls'[run[v]] = calls[run[v]] /\ results'[run[v]] = results[run[v]]
        BY <1>1, <4>1, Frame, PaymentFrame
      <4>3. Done(results', run[v]) = Done(results, run[v])
        BY <4>2 DEF Done
      <4>4. Spending(v, run[v])
        BY <3>2 DEF BudgetInv
      <4>. QED
        BY <3>1, <4>2, <4>3, <4>4 DEF Spending
    <3>. QED
      BY <3>1, <3>2 DEF BudgetInv
  <2>2. ASSUME NEW r \in Runs \ {run[w]} PROVE Priced(r)'
    <3>1. calls'[r] = calls[r] /\ results'[r] = results[r] /\ status'[r] = status[r]
      BY <1>1, Frame, PaymentFrame
    <3>2. Done(results', r) = Done(results, r)
      BY <3>1 DEF Done
    <3>. QED
      BY <3>1, <3>2 DEF BudgetInv, Priced
  <2>3. CASE run[w] \in Runs
    <3>1. PICK r \in Runs : run[w] = r
      BY <2>3
    <3>2. /\ Priced(r)'
          /\ step'[w] # "eval" => page'[w] = {}
          /\ step'[w] \in {"attempt", "eval", "aggregated", "committed"}
               => run'[w] = r /\ Spending(w, r)'
      BY <1>1, <3>1, HolderBudget
    <3>3. \A q \in Runs : Priced(q)'
      BY <2>2, <3>1, <3>2
    <3>4. step'[w] \in {"attempt", "eval", "aggregated", "committed"} => Spending(w, run[w])'
      BY <3>2
    <3>. QED
      BY <2>1, <3>2, <3>3, <3>4 DEF BudgetInv
  <2>4. CASE run[w] \notin Runs
    <3>1. step[w] \notin Holding /\ page[w] = {} /\ step \in [Actors -> Steps]
          /\ page \in [Actors -> SUBSET Items]
      BY <2>4 DEF TypeInv, TypeOK, HoldsRun
    <3>2. step'[w] \in {"locked", "drain", "waiting"} /\ page'[w] = {}
      BY <1>1, <3>1 DEF Work, Claim, DrainSpin, DrainEnd, CommitClaim, StartAttempt, ScoreItem,
         Aggregate, CompleteRun, ReturnTask, ReadFails, AttemptFails, FinishRun, FailRun, Breaks, Crash, FlowFails, Goto,
         LeaveRun, At, Holding
    <3>. QED
      BY <2>1, <2>2, <2>4, <3>2 DEF BudgetInv
  <2>. QED
    BY <2>3, <2>4
<1>2. CASE \/ \E q \in Queuers : TriggerRead(q) \/ BootstrapRead(q) \/ Enqueue(q)
           \/ \E r \in Runs : Expire(r)
  <2>1. UNCHANGED <<run, page, buffer, results, calls, attempt>>
    BY <1>2, QueueFrame, QueuePayment
  <2>2. ASSUME NEW r \in Runs PROVE Priced(r)'
    <3>1. status'[r] = status[r] \/ (status[r] = "absent" /\ status'[r] = "pending")
      BY <1>2, QueueFrame
    <3>. QED
      BY <2>1, <3>1 DEF BudgetInv, Priced
  <2>3. ASSUME NEW w \in Actors
        PROVE  /\ step'[w] # "eval" => page'[w] = {}
               /\ step'[w] \in {"attempt", "eval", "aggregated", "committed"}
                    => Spending(w, run[w])'
    <3>1. step'[w] = step[w] \/ {step[w], step'[w]} \cap Holding = {}
      BY <1>2, QueueFrame
    <3>2. step'[w] \in Holding => step'[w] = step[w]
      BY <3>1
    <3>3. step'[w] # "eval" => page[w] = {}
      BY <3>1 DEF BudgetInv, Holding
    <3>. QED
      BY <2>1, <3>2, <3>3 DEF BudgetInv, Spending, Holding
  <2>. QED
    BY <2>2, <2>3 DEF BudgetInv
<1>3. CASE UNCHANGED vars
  BY <1>3 DEF vars, BudgetInv, Priced, Spending
<1>. QED
  BY <1>1, <1>2, <1>3 DEF Next, Breaks

(* The invariants of a run's price hold in every behaviour.                *)
LEMMA BudgetKept == Spec => []BudgetInv
<1>1. Spec => []TypeInv
  BY TypeInit, TypeStep, PTL DEF Spec
<1>2. Spec => []OwnerInv
  BY <1>1, OwnerInit, OwnerStep, PTL DEF Spec
<1>3. Spec => []ResultInv
  BY <1>1, <1>2, ResultInit, ResultStep, PTL DEF Spec
<1>4. ResultInv => FreshInv
  BY DEF ResultInv
<1>. QED
  BY <1>1, <1>2, <1>3, <1>4, BudgetInit, BudgetStep, PTL DEF Spec

(* Failed and repeated attempts cost a run at most a page each, whoever    *)
(* makes them and however often they fail.                                 *)
THEOREM CallsAreBounded == Spec => []CallsBounded
<1>1. BudgetInv => CallsBounded
  BY DEF BudgetInv, Priced, CallsBounded
<1>. QED
  BY <1>1, BudgetKept, PTL

(* With a batch size, the calls that leave no result are at most one batch *)
(* per attempt.                                                            *)
THEOREM LostWorkIsBounded == Spec => []LostWorkBounded
<1>1. \A r \in Runs : Done(results, r) = Scored(r)
  BY DEF Done, Scored
<1>2. BudgetInv => LostWorkBounded
  BY <1>1 DEF BudgetInv, Priced, LostWorkBounded
<1>. QED
  BY <1>2, BudgetKept, PTL
-----------------------------------------------------------------------------
(* Refinement                                                              *)

(* An actor that moves on with the run it has                              *)
LEMMA TakenKept ==
  ASSUME TypeInv, NEW w \in Actors, NEW s, s # "locked", step' = [step EXCEPT ![w] = s],
         run' = run, step[w] # "locked"
  PROVE  Taken' = Taken
BY DEF TypeInv, TypeOK, Taken, At

(* An actor that leaves its run lets go of it, and of no other.            *)
LEMMA TakenLeft ==
  ASSUME TypeInv, ExclusiveRun, NEW w \in Actors, NEW s, LeaveRun(w, s)
  PROVE  Taken' = IF step[w] = "locked" THEN Taken ELSE Taken \ {run[w]}
<1>. USE DEF TypeInv, TypeOK, ExclusiveRun, LeaveRun, Goto
<1>1. \A v \in Actors \ {w} : run'[v] = run[v] /\ step'[v] = step[v]
  OBVIOUS
<1>2. run'[w] = NoRun
  OBVIOUS
<1>3. \A v \in Actors \ {w} : run[v] # NoRun => run[v] # run[w]
  OBVIOUS
<1>. QED
  BY <1>1, <1>2, <1>3 DEF Taken, At

LEMMA LedgerInit == Init => Ledger!Init
BY DEF Init, Ledger!Init, Taken, At

(* Every step of the queue is a step of the ledger, or leaves it alone.    *)
LEMMA LedgerStep == TypeInv /\ OwnerInv /\ [Next]_vars => [Ledger!Next]_<<status, Taken, {}>>
<1>. SUFFICES ASSUME TypeInv, OwnerInv, [Next]_vars
              PROVE  [Ledger!Next]_<<status, Taken, {}>>
  OBVIOUS
<1>1. CASE \/ \E q \in Queuers : TriggerRead(q) \/ BootstrapRead(q) \/ Enqueue(q)
           \/ \E r \in Runs : Expire(r)
  <2>1. UNCHANGED Taken
    <3>1. /\ run' = run
          /\ \A w \in Actors : step'[w] = step[w] \/ {step[w], step'[w]} \cap Holding = {}
      BY <1>1, QueueFrame
    <3>2. \A w \in Actors : step'[w] = "locked" <=> step[w] = "locked"
      BY <3>1 DEF Holding
    <3>. QED
      BY <3>1, <3>2 DEF Taken, At
  <2>2. CASE \E q \in Queuers : Enqueue(q)
    <3>1. PICK new \in SUBSET {r \in Runs : status[r] = "absent"} :
            status' = [r \in Runs |-> IF r \in new THEN "pending" ELSE status[r]]
      BY <2>2 DEF Enqueue
    <3>2. Ledger!Submit(new)
      BY <2>1, <3>1 DEF Ledger!Submit
    <3>. QED
      BY <3>2 DEF Ledger!Next
  <2>3. CASE ~ \E q \in Queuers : Enqueue(q)
    <3>1. UNCHANGED status
      BY <1>1, <2>3 DEF TriggerRead, BootstrapRead, Expire
    <3>. QED
      BY <2>1, <3>1
  <2>. QED
    BY <2>2, <2>3
<1>2. ASSUME NEW w \in Actors, Work(w) \/ ReadFails(w) \/ Breaks(w) PROVE [Ledger!Next]_<<status, Taken, {}>>
  <2>. USE DEF At
  <2>1. step[w] \in Holding <=> run[w] \in Runs
    BY DEF TypeInv, TypeOK, HoldsRun
  <2>2. ASSUME step[w] \in Holding \ {"locked"}
        PROVE  run[w] \in Runs /\ run[w] \in Taken
    BY <2>1, <2>2 DEF Taken
  <2>3. ASSUME NEW s, LeaveRun(w, s), step[w] \notin Holding \/ step[w] = "locked"
        PROVE  Taken' = Taken
    <3>1. CASE step[w] = "locked"
      BY <2>3, <3>1, TakenLeft DEF OwnerInv
    <3>2. CASE step[w] \notin Holding
      <4>1. run[w] \notin Taken
        BY <2>1, <3>2 DEF Taken, TypeInv, TypeOK
      <4>2. Taken' = IF step[w] = "locked" THEN Taken ELSE Taken \ {run[w]}
        BY <2>3, TakenLeft DEF OwnerInv
      <4>. QED
        BY <4>1, <4>2
    <3>. QED
      BY <2>3, <3>1, <3>2
  <2>4. ASSUME NEW s, LeaveRun(w, s), step[w] \in Holding \ {"locked"}
        PROVE  Taken' = Taken \ {run[w]}
    BY <2>4, TakenLeft DEF OwnerInv
  <2>5. CASE Claim(w)
    <3>1. /\ step[w] \in {"waiting", "drain"} /\ step' = [step EXCEPT ![w] = "locked"]
          /\ status' = status /\ \A v \in Actors \ {w} : run'[v] = run[v]
      BY <2>5 DEF Claim, Goto, Home, db, TypeInv, TypeOK
    <3>2. run[w] = NoRun
      BY <3>1 DEF TypeInv, HoldsRun, Holding
    <3>3. step'[w] = "locked" /\ \A v \in Actors \ {w} : step'[v] = step[v]
      BY <3>1 DEF TypeInv, TypeOK
    <3>4. Taken' = Taken
      BY <3>1, <3>2, <3>3 DEF Taken
    <3>. QED
      BY <3>1, <3>4
  <2>6. CASE DrainSpin(w)
    BY <2>6 DEF DrainSpin, Taken, db
  <2>7. CASE DrainEnd(w)
    BY <2>7, TakenKept DEF DrainEnd, Goto, db
  <2>8. CASE CommitClaim(w)
    <3>1. run[w] \in Runs /\ run[w] # NoRun /\ status[run[w]] = "pending"
      BY <2>1, <2>8 DEF CommitClaim, OwnerInv, ClaimInv, Holding
    <3>2. /\ step' = [step EXCEPT ![w] = "attempt"] /\ run' = run
          /\ status' = [status EXCEPT ![run[w]] = "running"]
      BY <2>8 DEF CommitClaim, Goto
    <3>3. Taken' = Taken \cup {run[w]}
      BY <3>1, <3>2 DEF Taken, TypeInv, TypeOK
    <3>4. Ledger!Take(run[w])
      BY <3>1, <3>2, <3>3 DEF Ledger!Take
    <3>. QED
      BY <3>1, <3>4 DEF Ledger!Next
  <2>9. CASE StartAttempt(w)
    BY <2>9, TakenKept DEF StartAttempt, Goto, db
  <2>10. CASE ScoreItem(w)
    BY <2>10 DEF ScoreItem, Taken
  <2>11. CASE Aggregate(w)
    BY <2>11, TakenKept DEF Aggregate, Goto
  <2>12. CASE CompleteRun(w)
    <3>1. run[w] \in Runs /\ run[w] \in Taken
      BY <2>2, <2>12 DEF CompleteRun, Holding
    <3>2. Taken' = Taken
      BY <2>12, TakenKept DEF CompleteRun, Goto
    <3>3. Ledger!Report(run[w], "complete")
      BY <2>12, <3>1, <3>2 DEF CompleteRun, Ledger!Report
    <3>. QED
      BY <3>1, <3>3 DEF Ledger!Next, Ledger!Outcomes
  <2>13. CASE ReturnTask(w) \/ ReadFails(w)
    BY <2>13, TakenKept DEF ReturnTask, ReadFails, Goto, db
  <2>14. CASE AttemptFails(w)
    <3>1. \/ step' = [step EXCEPT ![w] = "attempt"]
          \/ step' = [step EXCEPT ![w] = "raised"]
      BY <2>14 DEF AttemptFails, Goto
    <3>2. step[w] # "locked" /\ run' = run /\ status' = status
      BY <2>14 DEF AttemptFails, db
    <3>. QED
      BY <3>1, <3>2, TakenKept
  <2>15. CASE FinishRun(w)
    <3>1. step[w] = "returned" /\ LeaveRun(w, Home(w))
      BY <2>15 DEF FinishRun
    <3>2. run[w] \in Runs /\ run[w] \in Taken /\ Taken' = Taken \ {run[w]}
      BY <2>2, <2>4, <3>1 DEF Holding
    <3>3. CASE UNCHANGED status
      <4>1. Ledger!LetGo(run[w])
        BY <3>2, <3>3 DEF Ledger!LetGo
      <4>. QED
        BY <3>2, <4>1 DEF Ledger!Next
    <3>4. CASE status' = [status EXCEPT ![run[w]] = "complete"]
      <4>1. Ledger!Report(run[w], "complete")
        BY <3>2, <3>4 DEF Ledger!Report
      <4>. QED
        BY <3>2, <4>1 DEF Ledger!Next, Ledger!Outcomes
    <3>. QED
      BY <2>15, <3>3, <3>4 DEF FinishRun
  <2>16. CASE FailRun(w)
    <3>1. step[w] = "raised" /\ LeaveRun(w, Home(w))
      BY <2>16 DEF FailRun
    <3>2. run[w] \in Runs /\ run[w] \in Taken /\ Taken' = Taken \ {run[w]}
      BY <2>2, <2>4, <3>1 DEF Holding
    <3>3. CASE UNCHANGED status
      <4>1. Ledger!LetGo(run[w])
        BY <3>2, <3>3 DEF Ledger!LetGo
      <4>. QED
        BY <3>2, <4>1 DEF Ledger!Next
    <3>4. CASE status' = [status EXCEPT ![run[w]] = "failed"]
      <4>1. Ledger!Report(run[w], "failed")
        BY <3>2, <3>4 DEF Ledger!Report
      <4>. QED
        BY <3>2, <4>1 DEF Ledger!Next, Ledger!Outcomes
    <3>. QED
      BY <2>16, <3>3, <3>4 DEF FailRun
  <2>17. CASE Breaks(w)
    <3>1. status' = status /\ (LeaveRun(w, "waiting") \/ LeaveRun(w, Home(w)))
      BY <2>17 DEF Breaks, Crash, FlowFails, db
    <3>2. CASE step[w] \in Holding \ {"locked"}
      <4>1. run[w] \in Runs /\ run[w] \in Taken /\ Taken' = Taken \ {run[w]}
        BY <2>2, <2>4, <3>1, <3>2
      <4>2. Ledger!LetGo(run[w])
        BY <3>1, <4>1 DEF Ledger!LetGo
      <4>. QED
        BY <4>1, <4>2 DEF Ledger!Next
    <3>3. CASE step[w] \notin Holding \/ step[w] = "locked"
      BY <2>3, <3>1, <3>3
    <3>. QED
      BY <3>2, <3>3
  <2>. QED
    BY <1>2, <2>5, <2>6, <2>7, <2>8, <2>9, <2>10, <2>11, <2>12, <2>13, <2>14, <2>15, <2>16,
       <2>17 DEF Work
<1>3. CASE UNCHANGED vars
  BY <1>3 DEF vars, Taken, At
<1>. QED
  BY <1>1, <1>2, <1>3 DEF Next, Breaks

(* The queue of evaluations implements the ledger, with no assumption on   *)
(* time: there is no reaper that could write off a run in hands.           *)
THEOREM EvalImplementsLedger == Spec => ImplementsLedger
<1>1. Spec => []TypeInv
  BY TypeInit, TypeStep, PTL DEF Spec
<1>2. Spec => []OwnerInv
  BY <1>1, OwnerInit, OwnerStep, PTL DEF Spec
<1>. QED
  BY <1>1, <1>2, LedgerInit, LedgerStep, PTL DEF Spec, ImplementsLedger, Ledger!Spec
-----------------------------------------------------------------------------
(* Runs nobody works on any more.                                          *)

(* A finite set that shrinks counts less, and one that gains an element    *)
(* counts at most one more.                                                *)
LEMMA Counting ==
  ASSUME NEW S, IsFiniteSet(S)
  PROVE  /\ Cardinality(S) \in Nat
         /\ \A T : T \subseteq S => /\ IsFiniteSet(T) /\ Cardinality(T) \in Nat
                                    /\ Cardinality(T) <= Cardinality(S)
         /\ \A T, x : T \subseteq S \cup {x} => /\ IsFiniteSet(T) /\ Cardinality(T) \in Nat
                                                /\ Cardinality(T) <= Cardinality(S) + 1
<1>1. Cardinality(S) \in Nat
  BY FS_CardinalityType
<1>2. ASSUME NEW T, T \subseteq S
      PROVE  IsFiniteSet(T) /\ Cardinality(T) \in Nat /\ Cardinality(T) <= Cardinality(S)
  <2>1. T \in SUBSET S
    BY <1>2
  <2>. QED
    BY <2>1, FS_Subset, FS_CardinalityType
<1>3. ASSUME NEW T, NEW x, T \subseteq S \cup {x}
      PROVE  IsFiniteSet(T) /\ Cardinality(T) \in Nat /\ Cardinality(T) <= Cardinality(S) + 1
  <2>. DEFINE U == S \cup {x}
  <2>1. IsFiniteSet(U) /\ Cardinality(U) <= Cardinality(S) + 1 /\ Cardinality(U) \in Nat
    <3>1. IsFiniteSet(U) /\ Cardinality(U) = IF x \in S THEN Cardinality(S) ELSE Cardinality(S) + 1
      BY FS_AddElement
    <3>. QED
      BY <3>1, <1>1
  <2>2. T \in SUBSET U
    BY <1>3
  <2>. HIDE DEF U
  <2>3. IsFiniteSet(T) /\ Cardinality(T) <= Cardinality(U) /\ Cardinality(T) \in Nat
    BY <2>1, <2>2, FS_Subset, FS_CardinalityType
  <2>. QED
    BY <1>1, <2>1, <2>3
<1>. QED
  BY <1>1, <1>2, <1>3

Orphans   == {r \in Runs : Orphaned(r)}
OrphanInv == IsFiniteSet(Orphans) /\ Cardinality(Orphans) <= crashes + faults

(* At the start no run is running.                                         *)
LEMMA OrphanInit == Init => OrphanInv
<1>. SUFFICES ASSUME Init PROVE OrphanInv
  OBVIOUS
<1>1. Orphans = {} /\ crashes + faults = 0
  BY DEF Init, Orphans, Orphaned
<1>. QED
  BY <1>1, FS_EmptySet DEF OrphanInv

(* Whatever an actor does with its run, it orphans no other; and if it     *)
(* breaks off neither by a death nor by a fault, not its own.              *)
LEMMA OrphanFrame ==
  ASSUME TypeInv, OwnerInv, NEW w \in Actors, Work(w) \/ ReadFails(w) \/ Breaks(w)
  PROVE  /\ Orphans' \subseteq Orphans \cup {run[w]}
         /\ ~Breaks(w) => Orphans' \subseteq Orphans
<1>1. \A v \in Actors \ {w} : run'[v] = run[v]
  BY Frame
<1>2. \A r \in Runs \ {run[w]} : status'[r] = status[r]
  BY Frame
<1>3. Orphans' \subseteq Orphans \cup {run[w]}
  <2>. SUFFICES ASSUME NEW r \in Runs \ {run[w]}, Orphaned(r)' PROVE Orphaned(r)
    BY DEF Orphans
  <2>1. status[r] = "running"
    BY <1>2 DEF Orphaned
  <2>. QED
    BY <1>1, <2>1 DEF Orphaned
<1>4. ASSUME ~Breaks(w), NEW r \in Runs, r = run[w], Orphaned(r)' PROVE FALSE
  <2>. USE DEF TypeInv, TypeOK
  <2>1. run'[w] # r /\ status'[r] = "running"
    BY <1>4 DEF Orphaned
  <2>2. CASE FinishRun(w)
    BY <1>4, <2>1, <2>2 DEF FinishRun, Known
  <2>3. CASE FailRun(w)
    BY <1>4, <2>1, <2>3 DEF FailRun, Known
  <2>4. CASE Claim(w)
    <3>1. step[w] \notin Holding
      BY <2>4 DEF Claim, At, Home, Holding
    <3>. QED
      BY <1>4, <3>1, CtiEvalAssumption DEF HoldsRun
  <2>5. CASE ~FinishRun(w) /\ ~FailRun(w) /\ ~Claim(w)
    <3>1. run' = run
      BY <1>4, <2>5 DEF Work, DrainSpin, DrainEnd, CommitClaim, StartAttempt, ScoreItem,
         Aggregate, CompleteRun, ReturnTask, ReadFails, AttemptFails
    <3>. QED
      BY <1>4, <2>1, <3>1
  <2>. QED
    BY <2>2, <2>3, <2>4, <2>5
<1>5. ~Breaks(w) => Orphans' \subseteq Orphans
  <2>1. \A r \in Runs : Orphaned(r)' => r # run[w] \/ Breaks(w)
    BY <1>4 DEF Orphaned
  <2>. QED
    BY <1>3, <2>1 DEF Orphans
<1>. QED
  BY <1>3, <1>5

(* What one more cause allows.                                             *)
LEMMA OneMore ==
  ASSUME NEW a \in Nat, NEW b \in Nat, NEW c \in Nat, NEW d \in Nat, NEW n \in Nat, NEW m \in Nat,
         n <= a + b
  PROVE  /\ m <= n /\ c >= a /\ d >= b => m <= c + d
         /\ m <= n + 1 /\ ((c = a + 1 /\ d = b) \/ (c = a /\ d = b + 1)) => m <= c + d
OBVIOUS

(* Each death and each fault orphans at most one run.                      *)
LEMMA OrphanStep == TypeInv /\ TypeInv' /\ OwnerInv /\ OrphanInv /\ [Next]_vars => OrphanInv'
<1>. SUFFICES ASSUME TypeInv, TypeInv', OwnerInv, OrphanInv, [Next]_vars PROVE OrphanInv'
  OBVIOUS
<1>0. crashes \in Nat /\ faults \in Nat /\ crashes' \in Nat /\ faults' \in Nat
  BY DEF TypeInv, TypeOK
<1>1. IsFiniteSet(Orphans) /\ Cardinality(Orphans) <= crashes + faults
  BY DEF OrphanInv
<1>2. ASSUME Orphans' \subseteq Orphans, crashes' >= crashes /\ faults' >= faults
      PROVE  OrphanInv'
  <2>1. /\ IsFiniteSet(Orphans') /\ Cardinality(Orphans') \in Nat
        /\ Cardinality(Orphans') <= Cardinality(Orphans) /\ Cardinality(Orphans) \in Nat
    BY <1>0, <1>1, <1>2, Counting
  <2>2. Cardinality(Orphans') <= crashes' + faults'
    BY <1>0, <1>1, <1>2, <2>1, OneMore
  <2>. QED
    BY <2>1, <2>2 DEF OrphanInv
<1>3. ASSUME NEW w \in Actors, Work(w) \/ ReadFails(w), ~Breaks(w) PROVE OrphanInv'
  <2>1. Orphans' \subseteq Orphans
    BY <1>3, OrphanFrame
  <2>2. crashes' = crashes /\ (faults' = faults \/ faults' = faults + 1)
    BY <1>3 DEF Work, Claim, DrainSpin, DrainEnd, CommitClaim, StartAttempt, ScoreItem, Aggregate,
       CompleteRun, ReturnTask, ReadFails, AttemptFails, FinishRun, FailRun
  <2>3. crashes' >= crashes /\ faults' >= faults
    BY <1>0, <2>2
  <2>. QED
    BY <1>2, <2>1, <2>3
<1>4. ASSUME NEW w \in Actors, Breaks(w) PROVE OrphanInv'
  <2>1. Orphans' \subseteq Orphans \cup {run[w]}
    BY <1>4, OrphanFrame
  <2>2. \/ crashes' = crashes + 1 /\ faults' = faults
        \/ crashes' = crashes /\ faults' = faults + 1
    BY <1>4 DEF Breaks, Crash, FlowFails
  <2>3. /\ IsFiniteSet(Orphans') /\ Cardinality(Orphans') \in Nat /\ Cardinality(Orphans) \in Nat
        /\ Cardinality(Orphans') <= Cardinality(Orphans) + 1
    BY <1>0, <1>1, <2>1, Counting
  <2>4. Cardinality(Orphans') <= crashes' + faults'
    BY <1>0, <1>1, <2>2, <2>3, OneMore
  <2>. QED
    BY <2>3, <2>4 DEF OrphanInv
<1>5. CASE \/ \E q \in Queuers : TriggerRead(q) \/ BootstrapRead(q) \/ Enqueue(q)
           \/ \E r \in Runs : Expire(r)
  <2>1. crashes' = crashes /\ faults' = faults
    BY <1>5 DEF TriggerRead, BootstrapRead, Enqueue, Expire
  <2>2. run' = run /\ \A r \in Runs : status'[r] = "running" => status[r] = "running"
    BY <1>5, QueueFrame
  <2>3. Orphans' \subseteq Orphans
    BY <2>2 DEF Orphans, Orphaned
  <2>4. crashes' >= crashes /\ faults' >= faults
    BY <1>0, <2>1
  <2>. QED
    BY <1>2, <2>3, <2>4
<1>6. CASE UNCHANGED vars
  BY <1>6 DEF vars, OrphanInv, Orphans, Orphaned
<1>. QED
  BY <1>3, <1>4, <1>5, <1>6 DEF Next, Breaks

(* No failing item, attempt or batch leaves a run "running" with nobody at *)
(* work on it: there are no more of those than deaths and database faults. *)
THEOREM FewRunsAreOrphaned == Spec => []OrphansBounded
<1>1. Spec => []TypeInv
  BY TypeInit, TypeStep, PTL DEF Spec
<1>2. Spec => []OwnerInv
  BY <1>1, OwnerInit, OwnerStep, PTL DEF Spec
<1>3. Spec => []OrphanInv
  BY <1>1, <1>2, OrphanInit, OrphanStep, PTL DEF Spec
<1>4. OrphanInv => OrphansBounded
  BY DEF OrphanInv, OrphansBounded, Orphans
<1>. QED
  BY <1>3, <1>4, PTL
=============================================================================
