------------------------------ MODULE CtiBoard ------------------------------
(***************************************************************************)
(* What the program shows of the CTI benchmark: the API's queries          *)
(* (api/routers/cti.py) and those cti_lite makes on a copy of the same     *)
(* rows (cti_lite/data.py), while runs are completed.                      *)
(***************************************************************************)
EXTENDS Store, SequencesExt, Picks

CONSTANTS
  TaskOf,    \* cti_runs.task
  TaskOrder, \* _TASK_ORDER
  Scores     \* prequential scores of a run, or NoScore

NoScore == -1

ASSUME CtiBoardAssumption ==
  /\ TaskOrder \in Seq(STRING) /\ IsInjective(TaskOrder)
  /\ TaskOf \in [Runs -> STRING]

VARIABLES
  finished, \* the runs completed or failed, in order of completed_at
  verdict,  \* their status
  score     \* their prequential_score

benchVars == <<finished, verdict, score>>

BenchInit ==
  /\ finished = << >>
  /\ verdict = [r \in Runs |-> "none"]
  /\ score = [r \in Runs |-> NoScore]

(* A run without any scored item is complete without a score.              *)
FinishBench(r) ==
  /\ verdict[r] = "none"
  /\ finished' = Append(finished, r)
  /\ \E s \in {"complete", "failed"} : verdict' = [verdict EXCEPT ![r] = s]
  /\ \E x \in Scores : score' = [score EXCEPT ![r] = x]

BenchNext == \E r \in Runs : FinishBench(r)

BenchSpec == BenchInit /\ [][BenchNext]_benchVars
-----------------------------------------------------------------------------
(* The API: complete runs by model and task, newest first, of which the    *)
(* first of each task is kept.                                             *)

CompleteBench == Pick(finished, {i \in 1..Len(finished) : verdict[finished[i]] = "complete"})
NewestFirst_Oldest(s) == s
NewestFirst(s) == Reverse(s)

FirstOfEach(s) ==
  LET seen(i) == {<<ModelOf[s[j]], TaskOf[s[j]]>> : j \in 1..(i - 1)}
  IN  {s[i] : i \in {k \in 1..Len(s) : <<ModelOf[s[k]], TaskOf[s[k]]>> \notin seen(k)}}

LatestPerTask == FirstOfEach(NewestFirst(CompleteBench))

TaskScores(m, runs) ==
  [t \in {TaskOf[r] : r \in {q \in runs : ModelOf[q] = m}} |->
     score[CHOOSE r \in runs : ModelOf[r] = m /\ TaskOf[r] = t]]

(* The mean of the scores there are, as a pair of their sum and number     *)
Overall(scores) ==
  LET known == {t \in DOMAIN scores : scores[t] # NoScore}
  IN  <<MapThenSumSet(LAMBDA t : scores[t], known), Cardinality(known)>>

CtiLeaderboard ==
  [m \in {ModelOf[r] : r \in LatestPerTask} |->
     [tasks |-> TaskScores(m, LatestPerTask),
      overall |-> Overall(TaskScores(m, LatestPerTask))]]

(* The rows of a model's detail, in the order of the tasks                 *)
Ordered(runs) ==
  LET of == [i \in 1..Len(TaskOrder) |-> {r \in runs : TaskOf[r] = TaskOrder[i]}]
  IN  Pick(of, {i \in 1..Len(TaskOrder) : of[i] # {}})
CtiModelDetail(m) == Ordered({r \in LatestPerTask : ModelOf[r] = m})
-----------------------------------------------------------------------------
(* The copy: for each model and task, the row with the greatest            *)
(* completed_at.                                                           *)

Index(r) == CHOOSE i \in 1..Len(finished) : finished[i] = r
LatestCompleteRuns ==
  LET complete == {r \in Runs : verdict[r] = "complete"}
      same(r) == {q \in complete : ModelOf[q] = ModelOf[r] /\ TaskOf[q] = TaskOf[r]}
  IN  {r \in complete : \A q \in same(r) : Index(q) <= Index(r)}

LiteLeaderboard ==
  [m \in {ModelOf[r] : r \in LatestCompleteRuns} |->
     [tasks |-> TaskScores(m, LatestCompleteRuns),
      overall |-> Overall(TaskScores(m, LatestCompleteRuns))]]
LiteModelRuns(m) == Ordered({r \in LatestCompleteRuns : ModelOf[r] = m})
-----------------------------------------------------------------------------
(* Correctness *)

(* The two leaderboards show the same scores, and a row opens the run its  *)
(* score is from in both.                                                  *)
CtiViewsAgree ==
  /\ CtiLeaderboard = LiteLeaderboard
  /\ \A m \in Models :
       /\ CtiModelDetail(m) = LiteModelRuns(m)
       /\ \A i \in 1..Len(CtiModelDetail(m)) : \E r \in CtiModelDetail(m)[i] :
            /\ CtiModelDetail(m)[i] = {r}
            /\ CtiLeaderboard[m].tasks[TaskOf[r]] = score[r]
=============================================================================
