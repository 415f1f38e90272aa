----------------------------- MODULE RunLedger -----------------------------
(***************************************************************************)
(* What a queue of runs, of scans or of evaluations, promises of a run: it *)
(* is submitted once and taken by one worker once.  It is ended by that    *)
(* worker, or by being written off, after it was seen unfinished.  Its     *)
(* outcome may change only while the worker has it or somebody suspects    *)
(* it; then it stands.                                                     *)
(***************************************************************************)
CONSTANT Runs

VARIABLES
  status,    \* of the row of each run
  taken,     \* the runs a worker has
  suspected  \* the runs that were seen "running" and may be written off

Outcomes == {"complete", "failed"}

Init ==
  /\ status = [r \in Runs |-> "absent"]
  /\ taken = {}
  /\ suspected = {}

Submit(new) ==
  /\ \A r \in new : status[r] = "absent"
  /\ status' = [r \in Runs |-> IF r \in new THEN "pending" ELSE status[r]]
  /\ UNCHANGED <<taken, suspected>>

Take(r) ==
  /\ status[r] = "pending"
  /\ status' = [status EXCEPT ![r] = "running"]
  /\ taken' = taken \cup {r}
  /\ UNCHANGED suspected

(* The worker reports an outcome, and may report another one later; it     *)
(* lets go of the run with a report, or without one.                       *)
Report(r, outcome) ==
  /\ r \in taken
  /\ status' = [status EXCEPT ![r] = outcome]
  /\ taken' \in {taken, taken \ {r}}
  /\ UNCHANGED suspected

LetGo(r) ==
  /\ r \in taken
  /\ taken' = taken \ {r}
  /\ UNCHANGED <<status, suspected>>

Suspect(s) ==
  /\ \A r \in s : status[r] = "running"
  /\ suspected' = suspected \cup s
  /\ UNCHANGED <<status, taken>>

(* Suspected runs are written off, whatever they are by now, and some are  *)
(* suspected no longer; none are written off if the writer dies.           *)
WriteOff(lost) ==
  /\ lost \subseteq suspected
  /\ status' = [r \in Runs |-> IF r \in lost THEN "failed" ELSE status[r]]
  /\ suspected' \in SUBSET suspected
  /\ UNCHANGED taken

Next ==
  \/ \E s \in SUBSET Runs : Submit(s) \/ Suspect(s) \/ WriteOff(s)
  \/ \E r \in Runs : Take(r) \/ LetGo(r) \/ \E o \in Outcomes : Report(r, o)

Spec == Init /\ [][Next]_<<status, taken, suspected>>
=============================================================================
