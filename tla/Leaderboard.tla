---------------------------- MODULE Leaderboard ----------------------------
(***************************************************************************)
(* What the program shows of the scans: the API's queries on the database  *)
(* (application/leaderboard.py, api/routers) and the queries glokta-lite   *)
(* makes on a copy of the same rows (glokta-lite/data.py), while runs are  *)
(* queued, started, completed and failed.                                  *)
(*                                                                         *)
(* A rate is a fraction [num, den], or None. Moments are positions in the  *)
(* order of events.                                                        *)
(***************************************************************************)
EXTENDS Store, Picks, SequencesExt

CONSTANTS
  Probes,      \* (probe, detector) pairs garak evaluates
  CategoryOf,  \* probe_category of each
  ActiveRisks, \* ACTIVE_RISKS, the categories enabled in RISK_DEFINITIONS
  Reports,     \* results a scan may leave, functions from Probes to counts
  PageSize     \* page_size of a request

Categories == {CategoryOf[p] : p \in Probes}
Never == 0

ASSUME LeaderboardAssumption ==
  /\ \A rep \in Reports : DOMAIN rep \subseteq Probes
  /\ \A rep \in Reports : \A p \in DOMAIN rep : rep[p] \in [pass : Nat, fail : Nat]
  /\ ActiveRisks \subseteq Categories
  /\ PageSize \in Nat \ {0}
  /\ IsFiniteSet(Runs) /\ IsFiniteSet(Probes)

VARIABLES
  status,    \* runs.status, "absent" before the row is inserted
  created,   \* runs.created_at
  completed, \* runs.completed_at
  results,   \* probe_results of the run
  now

boardVars == <<status, created, completed, results, now>>

None == [num |-> 0, den |-> 0]

BoardInit ==
  /\ status = [r \in Runs |-> "absent"]
  /\ created = [r \in Runs |-> Never]
  /\ completed = [r \in Runs |-> Never]
  /\ results = [r \in Runs |-> << >>]
  /\ now = 0
-----------------------------------------------------------------------------
(* The scans *)

QueueRun(r) ==
  /\ status[r] = "absent"
  /\ status' = [status EXCEPT ![r] = "pending"]
  /\ created' = [created EXCEPT ![r] = now + 1]
  /\ now' = now + 1
  /\ UNCHANGED <<completed, results>>

StartRun(r) ==
  /\ status[r] = "pending"
  /\ status' = [status EXCEPT ![r] = "running"]
  /\ UNCHANGED <<created, completed, results, now>>

(* What was ingested stays, whether the run is completed or failed.        *)
EndRun(r) ==
  /\ status[r] = "running"
  /\ \E s \in {"complete", "failed"} : status' = [status EXCEPT ![r] = s]
  /\ completed' = [completed EXCEPT ![r] = now + 1]
  /\ \E rep \in Reports : results' = [results EXCEPT ![r] = rep]
  /\ now' = now + 1
  /\ UNCHANGED created

BoardNext == \E r \in Runs : QueueRun(r) \/ StartRun(r) \/ EndRun(r)

BoardSpec == BoardInit /\ [][BoardNext]_boardVars
-----------------------------------------------------------------------------
(* Rates *)

Rate(n, d) == IF d = 0 THEN None ELSE [num |-> n, den |-> d]
Plus(a, b) == [num |-> a.num * b.den + b.num * a.den, den |-> a.den * b.den]
Total(a) == MapThenFoldSet(Plus, Rate(0, 1), LAMBDA i : a[i],
                           LAMBDA S : CHOOSE i \in S : TRUE, DOMAIN a)
(* The mean of the rates there are, as the queries skip NULL.              *)
Mean(a) ==
  LET known == {i \in DOMAIN a : a[i] # None}
      sum   == Total([i \in known |-> a[i]])
  IN  Rate(sum.num, sum.den * Cardinality(known))

Less(a, b) == a.num * b.den < b.num * a.den
Equal(a, b) ==
  \/ a = None /\ b = None
  \/ a # None /\ b # None /\ a.num * b.den = b.num * a.den
-----------------------------------------------------------------------------
(* The rows of a run *)

Pass(r, P) == SumOf([p \in P |-> results[r][p].pass])
Fail(r, P) == SumOf([p \in P |-> results[r][p].fail])
In(r, c)   == {p \in DOMAIN results[r] : CategoryOf[p] = c}
Shown(r)   == {CategoryOf[p] : p \in DOMAIN results[r]}

(* probe_results.score: the share of the probe's prompts that got through. *)
Score(r, p) == Rate(results[r][p].fail, results[r][p].pass + results[r][p].fail)
MeanScore(r, P) ==
  LET mean == Mean([p \in P |-> Score(r, p)])
  IN  IF mean = None THEN Rate(0, 1) ELSE mean

Complete(m) == {r \in Runs : ModelOf[r] = m /\ status[r] = "complete"}
Newest(S, at) == {r \in S : \A q \in S : at[q] <= at[r]}

(* The API takes the run created last, the copy the one completed last.    *)
LatestRun_AnyStatus(m) ==
  Newest({r \in Runs : ModelOf[r] = m /\ status[r] # "absent"}, created)
LatestRun(m) == Newest(Complete(m), created)
LatestRunId(m) == Newest(Complete(m), completed)
-----------------------------------------------------------------------------
(* The leaderboard: a row for each model and category *)

Aggregate(r, c) ==
  [model |-> ModelOf[r], category |-> c, total_pass |-> Pass(r, In(r, c)),
   total_fail |-> Fail(r, In(r, c)), score |-> MeanScore(r, In(r, c))]

Groups(R, C) == UNION {{Aggregate(r, c) : c \in C \cap Shown(r)} : r \in R}
Rows(M, C)     == Groups(UNION {LatestRun(m) : m \in M}, C)
LiteRows(M, C) == Groups(UNION {LatestRunId(m) : m \in M}, C)

(* model_id and probe_category: one value, or none for all.                *)
Filters(S) == {S} \cup {{x} : x \in S}

(* Rows with the same score come in any order.                             *)
Orders(S) ==
  {s \in SetToSeqs(S) : \A i, j \in 1..Len(s) :
     i < j => ~Less(s[j].score, s[i].score)}

TotalPages_Floor(n) == n \div PageSize
TotalPages(n) == IF n > 0 THEN (n + PageSize - 1) \div PageSize ELSE 0
Page(s, n) ==
  LET last == n * PageSize
  IN  SubSeq(s, (n - 1) * PageSize + 1, IF last < Len(s) THEN last ELSE Len(s))

(* origin is triggered_by of the run completed last.                       *)
Origin(m) == LatestRunId(m)
-----------------------------------------------------------------------------
(* The risk leaderboard: a row for each model *)

(* The categories asked for, or those enabled.                             *)
Included(risks) == IF risks = {} THEN ActiveRisks ELSE risks

(* compute_risk_pass_rates, on counts by category                          *)
Rates(passed, total) ==
  LET rate == [c \in DOMAIN total |-> Rate(passed[c], total[c])]
  IN  [per_risk |-> rate, overall |-> Mean(rate)]

(* Of the rows of a run                                                    *)
RunRates(r, risks) ==
  Rates([c \in risks |-> Pass(r, In(r, c))],
        [c \in risks |-> Pass(r, In(r, c)) + Fail(r, In(r, c))])

(* The database sums the included rows by model and category first; a      *)
(* model without any is left out.                                          *)
RiskRow(m, risks) ==
  LET of(c) == {row \in Rows({m}, risks) : row.category = c}
      passed(c) == SumOf([row \in of(c) |-> row.total_pass])
      total(c)  == passed(c) + SumOf([row \in of(c) |-> row.total_fail])
  IN  Rates([c \in risks |-> passed(c)], [c \in risks |-> total(c)])
RiskModels(risks) == {m \in Models : Rows({m}, risks) # {}}

(* The copy has a row for every model with a complete run.                 *)
LiteRiskModels == {m \in Models : Complete(m) # {}}
LiteRiskRow(m, risks) == RunRates(CHOOSE r \in LatestRunId(m) : TRUE, risks)

(* One point for each complete run, in order of completion.                *)
EndedBy(r) == {q \in Complete(ModelOf[r]) : completed[q] <= completed[r]}
Trends(m, risks) ==
  LET run(i) == CHOOSE r \in Complete(m) : Cardinality(EndedBy(r)) = i
  IN  [i \in 1..Cardinality(Complete(m)) |->
         [run |-> run(i), rates |-> RunRates(run(i), risks)]]
-----------------------------------------------------------------------------
(* The detail of a model: the rows of its latest run, which the copy has   *)
(* only when there are some.                                               *)
Detail(S) == UNION {{<<r, p, results[r][p]>> : p \in DOMAIN results[r]} : r \in S}
ModelDetail(m)     == Detail(LatestRun(m))
LiteModelDetail(m) == Detail(LatestRunId(m))

(* Its summary counts a probe without a score as 0.                        *)
Summary(m) ==
  LET r == CHOOSE q \in LatestRun(m) : TRUE
      P == DOMAIN results[r]
      scores == [p \in P |-> IF Score(r, p) = None THEN Rate(0, 1) ELSE Score(r, p)]
  IN  [total_pass |-> Pass(r, P), total_fail |-> Fail(r, P), score |-> Mean(scores)]
-----------------------------------------------------------------------------
(* Correctness *)

(* Whether every model's complete runs were completed in the order they    *)
(* were created. Two pending runs of a model that two workers take need    *)
(* not be.                                                                 *)
InOrder == \A m \in Models : \A r, q \in Complete(m) :
  created[r] < created[q] => completed[r] < completed[q]

SameRates(a, b) ==
  /\ \A c \in DOMAIN a.per_risk : Equal(a.per_risk[c], b.per_risk[c])
  /\ Equal(a.overall, b.overall)

RiskSets == {Included(risks) : risks \in SUBSET Categories}

(* The dashboard on the API and the one on a copy of its data show the     *)
(* same rows under every filter, and the same pass rates for every choice  *)
(* of risks, although one sums in the database before it divides and the   *)
(* other goes through the rows; so does the last point of a trend. The     *)
(* detail a row opens is of the same run in both, and its summary has what *)
(* the rows of the model have together.                                    *)
ViewsAgree == InOrder /\ LiteRiskModels # {} =>
  /\ \A M \in Filters(Models), C \in Filters(Categories) : Rows(M, C) = LiteRows(M, C)
  /\ \A m \in Models :
       /\ Origin(m) = LatestRun(m)
       /\ ModelDetail(m) = LiteModelDetail(m)
       /\ LET rows == Rows({m}, Categories) IN
            ModelDetail(m) # {} =>
              /\ Summary(m).total_pass = SumOf([r \in rows |-> r.total_pass])
              /\ Summary(m).total_fail = SumOf([r \in rows |-> r.total_fail])
  /\ \A risks \in RiskSets :
       /\ RiskModels(risks) \subseteq LiteRiskModels
       /\ \A m \in RiskModels(risks) :
            /\ SameRates(RiskRow(m, risks), LiteRiskRow(m, risks))
            /\ SameRates(RiskRow(m, risks), Last(Trends(m, risks)).rates)
       /\ \A m \in LiteRiskModels \ RiskModels(risks) :
            LiteRiskRow(m, risks).overall = None

(* Reading the pages one after the other shows every row of the table once *)
(* when no two rows have the same score.                                   *)
PagesCover ==
  LET rows  == Rows(Models, Categories)
      pages == TotalPages(Cardinality(rows))
  IN  (\A a, b \in rows : a # b => ~Equal(a.score, b.score)) =>
        \A s \in Orders(rows) :
          FlattenSeq([n \in 1..pages |-> Page(s, n)]) = s
=============================================================================
