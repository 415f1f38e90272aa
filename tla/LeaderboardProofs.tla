-------------------------- MODULE LeaderboardProofs --------------------------
(***************************************************************************)
(* Proofs about Leaderboard for every finite set of runs, probes and       *)
(* reports and every size of a page: that the two dashboards show the same,*)
(* and that the pages of a table are the table.                            *)
(***************************************************************************)
EXTENDS Leaderboard, PicksProofs

(* The scans                                                               *)

USE StoreAssumption, LeaderboardAssumption

Statuses == {"absent", "pending", "running", "complete", "failed"}

Tallied(rep) ==
  DOMAIN rep \subseteq Probes /\ \A p \in DOMAIN rep : rep[p] \in [pass : Nat, fail : Nat]

(* Moments are apart: no two runs are created in the same.                 *)
BoardInv ==
  /\ now \in Nat
  /\ status \in [Runs -> Statuses]
  /\ created \in [Runs -> Nat] /\ completed \in [Runs -> Nat]
  /\ \A r \in Runs : created[r] <= now
  /\ \A r, q \in Runs : status[r] # "absent" /\ status[q] # "absent" /\ created[r] = created[q]
                          => r = q
  /\ results = [r \in Runs |-> results[r]] /\ \A r \in Runs : Tallied(results[r])

LEMMA BoardStart == BoardInit => BoardInv
<1>1. Tallied(<< >>)
  BY DEF Tallied
<1>. QED
  BY <1>1 DEF BoardInit, BoardInv, Statuses, Never

LEMMA BoardStep == BoardInv /\ [BoardNext]_boardVars => BoardInv'
<1>. SUFFICES ASSUME BoardInv, [BoardNext]_boardVars PROVE BoardInv'
  OBVIOUS
<1>1. ASSUME NEW r \in Runs, QueueRun(r) PROVE BoardInv'
  <2>1. now' \in Nat /\ now' = now + 1 /\ completed' = completed /\ results' = results
        /\ status' = [status EXCEPT ![r] = "pending"]
        /\ created' = [created EXCEPT ![r] = now + 1]
    BY <1>1 DEF QueueRun, BoardInv
  <2>2. status' \in [Runs -> Statuses] /\ created' \in [Runs -> Nat]
    BY <2>1 DEF BoardInv, Statuses
  <2>3. \A q \in Runs : created'[q] <= now'
    BY <2>1 DEF BoardInv
  <2>4. \A p, q \in Runs : status'[p] # "absent" /\ status'[q] # "absent"
                             /\ created'[p] = created'[q] => p = q
    BY <2>1 DEF BoardInv
  <2>. QED
    BY <2>1, <2>2, <2>3, <2>4 DEF BoardInv
<1>2. ASSUME NEW r \in Runs, StartRun(r) PROVE BoardInv'
  <2>1. UNCHANGED <<created, completed, results, now>> /\ status[r] = "pending"
        /\ status' = [status EXCEPT ![r] = "running"]
    BY <1>2 DEF StartRun
  <2>. QED
    BY <2>1 DEF BoardInv, Statuses
<1>3. ASSUME NEW r \in Runs, EndRun(r) PROVE BoardInv'
  <2>1. PICK s \in {"complete", "failed"} : status' = [status EXCEPT ![r] = s]
    BY <1>3 DEF EndRun
  <2>2. PICK rep \in Reports : results' = [results EXCEPT ![r] = rep]
    BY <1>3 DEF EndRun
  <2>3. created' = created /\ now' = now + 1 /\ completed' = [completed EXCEPT ![r] = now + 1]
        /\ status[r] = "running"
    BY <1>3 DEF EndRun
  <2>4. Tallied(rep)
    BY DEF Tallied
  <2>5. results' = [q \in Runs |-> results'[q]] /\ \A q \in Runs : Tallied(results'[q])
    BY <2>2, <2>4 DEF BoardInv
  <2>6. status' \in [Runs -> Statuses] /\ completed' \in [Runs -> Nat] /\ now' \in Nat
        /\ \A q \in Runs : created'[q] <= now'
    BY <2>1, <2>3 DEF BoardInv, Statuses
  <2>7. \A q \in Runs : status'[q] # "absent" => status[q] # "absent"
    BY <2>1, <2>3 DEF BoardInv
  <2>. QED
    BY <2>3, <2>5, <2>6, <2>7 DEF BoardInv
<1>4. ASSUME UNCHANGED boardVars PROVE BoardInv'
  BY <1>4 DEF boardVars, BoardInv
<1>. QED
  BY <1>1, <1>2, <1>3, <1>4 DEF BoardNext
-----------------------------------------------------------------------------
(* The latest run of a model                                               *)

LEMMA LatestRunsAgree ==
  ASSUME BoardInv, InOrder, NEW m \in Models
  PROVE  LatestRun(m) = LatestRunId(m)
<1>1. \A r, q \in Complete(m) :
        /\ created[r] \in Nat /\ created[q] \in Nat
        /\ completed[r] \in Nat /\ completed[q] \in Nat
        /\ created[r] < created[q] => completed[r] < completed[q]
        /\ created[r] = created[q] => r = q
  BY DEF BoardInv, InOrder, Complete
<1>2. ASSUME NEW r \in Complete(m)
      PROVE  (\A q \in Complete(m) : created[q] <= created[r])
               <=> (\A q \in Complete(m) : completed[q] <= completed[r])
  BY <1>1
<1>. QED
  BY <1>2 DEF LatestRun, LatestRunId, Newest

LEMMA LatestRunIsOne ==
  ASSUME BoardInv, NEW m \in Models, Complete(m) # {}
  PROVE  \E r \in Complete(m) : LatestRun(m) = {r}
<1>. DEFINE S == Complete(m)
            Q == {T \in SUBSET S : T # {} => \E r \in T : \A q \in T : created[q] <= created[r]}
<1>1. IsFiniteSet(S) /\ \A r \in S : created[r] \in Nat
  <2>1. S \in SUBSET Runs
    BY DEF Complete
  <2>. QED
    BY <2>1, FS_Subset DEF BoardInv
<1>2. \A r, q \in S : created[r] = created[q] => r = q
  BY DEF BoardInv, Complete
<1>. HIDE DEF S
<1>3. {} \in Q
  OBVIOUS
<1>4. ASSUME NEW T, NEW x, T \subseteq S, x \in S, x \notin T, T \in Q
      PROVE  T \cup {x} \in Q
  <2>1. CASE T = {}
    BY <1>1, <1>4, <2>1
  <2>2. CASE T # {}
    <3>1. PICK r \in T : \A q \in T : created[q] <= created[r]
      BY <1>4, <2>2
    <3>2. CASE created[x] <= created[r]
      BY <1>4, <3>1, <3>2
    <3>3. CASE ~(created[x] <= created[r])
      <4>1. \A q \in T \cup {x} : created[q] <= created[x]
        BY <1>1, <1>4, <3>1, <3>3
      <4>. QED
        BY <1>4, <4>1
    <3>. QED
      BY <3>2, <3>3
  <2>. QED
    BY <2>1, <2>2
<1>5. S \in Q
  <2>. HIDE DEF Q
  <2>1. \A T : T \subseteq S => T \in Q
    BY ONLY <1>1, <1>3, <1>4, PartsInduction
  <2>. QED
    BY <2>1
<1>6. PICK r \in S : \A q \in S : created[q] <= created[r]
  BY <1>5 DEF S
<1>7. LatestRun(m) = {r}
  BY <1>1, <1>2, <1>6 DEF LatestRun, Newest, S
<1>. QED
  BY <1>6, <1>7 DEF S
-----------------------------------------------------------------------------
(* The rows of the latest run                                              *)

LEMMA TalliesAreNumbers ==
  ASSUME BoardInv, NEW r \in Runs
  PROVE  /\ IsFiniteSet(DOMAIN results[r])
         /\ [p \in DOMAIN results[r] |-> results[r][p].pass] \in [DOMAIN results[r] -> Nat]
         /\ [p \in DOMAIN results[r] |-> results[r][p].fail] \in [DOMAIN results[r] -> Nat]
<1>1. DOMAIN results[r] \in SUBSET Probes
  BY DEF BoardInv, Tallied
<1>2. IsFiniteSet(DOMAIN results[r])
  BY <1>1, FS_Subset
<1>3. \A p \in DOMAIN results[r] : results[r][p].pass \in Nat /\ results[r][p].fail \in Nat
  BY DEF BoardInv, Tallied
<1>. QED
  BY <1>2, <1>3

LEMMA PartsAreNumbers ==
  ASSUME BoardInv, NEW r \in Runs, NEW P, P \subseteq DOMAIN results[r]
  PROVE  /\ Pass(r, P) \in Nat /\ Fail(r, P) \in Nat
         /\ P = {} => Pass(r, P) = 0 /\ Fail(r, P) = 0
<1>. DEFINE f == [p \in P |-> results[r][p].pass]
            g == [p \in P |-> results[r][p].fail]
<1>1. IsFiniteSet(P)
  <2>1. P \in SUBSET DOMAIN results[r]
    OBVIOUS
  <2>. QED
    BY <2>1, TalliesAreNumbers, FS_Subset
<1>2. f \in [P -> Nat] /\ g \in [P -> Nat]
  <2>1. \A p \in P : results[r][p].pass \in Nat /\ results[r][p].fail \in Nat
    BY DEF BoardInv, Tallied
  <2>. QED
    BY <2>1
<1>. HIDE DEF f, g
<1>3. SumOf(f) \in Nat /\ SumOf(g) \in Nat
  BY ONLY <1>1, <1>2, SumProperties
<1>4. P = {} => SumOf(f) = 0 /\ SumOf(g) = 0
  BY ONLY <1>1, <1>2, SumProperties
<1>. QED
  BY <1>3, <1>4 DEF Pass, Fail, f, g

LEMMA RowsOfLatest ==
  ASSUME NEW m, NEW r, LatestRun(m) = {r}, NEW C
  PROVE  Rows({m}, C) = {Aggregate(r, c) : c \in C \cap Shown(r)}
<1>1. UNION {LatestRun(x) : x \in {m}} = {r}
  OBVIOUS
<1>. QED
  BY <1>1 DEF Rows, Groups

(* All rows of the run together                                            *)
LEMMA RowsSumUp ==
  ASSUME BoardInv, NEW m, NEW r \in Runs, LatestRun(m) = {r}
  PROVE  LET rows == Rows({m}, Categories)
             all  == DOMAIN results[r]
         IN  /\ SumOf([x \in rows |-> x.total_pass]) = Pass(r, all)
             /\ SumOf([x \in rows |-> x.total_fail]) = Fail(r, all)
<1>. DEFINE rows == Rows({m}, Categories)
            D == DOMAIN results[r]
            C == Shown(r)
            row == [c \in C |-> Aggregate(r, c)]
            f == [p \in D |-> results[r][p].pass]
            g == [p \in D |-> results[r][p].fail]
            F == [x \in {row[c] : c \in C} |-> x.total_pass]
            G == [x \in {row[c] : c \in C} |-> x.total_fail]
            cat == CategoryOf
<1>1. IsFiniteSet(D) /\ f \in [D -> Nat] /\ g \in [D -> Nat]
  BY TalliesAreNumbers
<1>2. IsFiniteSet(C) /\ C \subseteq Categories /\ \A p \in D : cat[p] \in C
  <2>1. C = {cat[p] : p \in D}
    BY DEF Shown
  <2>2. IsFiniteSet(C)
    <3>. HIDE DEF C, D
    <3>. QED
      BY <1>1, <2>1, FiniteImage
  <2>3. D \subseteq Probes
    BY DEF BoardInv, Tallied
  <2>. QED
    BY <2>1, <2>2, <2>3 DEF Categories
<1>3. rows = {row[c] : c \in C}
  <2>1. Categories \cap C = C
    BY <1>2
  <2>2. rows = {Aggregate(r, c) : c \in Categories \cap C}
    BY RowsOfLatest
  <2>. QED
    BY <2>1, <2>2
<1>4. \A c \in C : row[c] = Aggregate(r, c) /\ row[c].category = c
  BY DEF Aggregate
<1>5. \A b, c \in C : row[b] = row[c] => b = c
  BY <1>4
<1>6. ASSUME NEW c \in C
      PROVE  /\ F[row[c]] = SumOf([p \in {i \in D : cat[i] = c} |-> f[p]])
             /\ G[row[c]] = SumOf([p \in {i \in D : cat[i] = c} |-> g[p]])
             /\ F[row[c]] \in Nat /\ G[row[c]] \in Nat
  <2>1. {i \in D : cat[i] = c} = In(r, c) /\ In(r, c) \subseteq D
    BY DEF In
  <2>2. /\ [p \in In(r, c) |-> f[p]] = [p \in In(r, c) |-> results[r][p].pass]
        /\ [p \in In(r, c) |-> g[p]] = [p \in In(r, c) |-> results[r][p].fail]
    BY <2>1
  <2>3. F[row[c]] = row[c].total_pass /\ G[row[c]] = row[c].total_fail
    OBVIOUS
  <2>4. F[row[c]] = Pass(r, In(r, c)) /\ G[row[c]] = Fail(r, In(r, c))
    BY <1>4, <2>3 DEF Aggregate
  <2>5. Pass(r, In(r, c)) \in Nat /\ Fail(r, In(r, c)) \in Nat
    BY <2>1, PartsAreNumbers
  <2>. QED
    BY <2>1, <2>2, <2>4, <2>5 DEF Pass, Fail
<1>7. F \in [{row[c] : c \in C} -> Nat] /\ G \in [{row[c] : c \in C} -> Nat]
  BY <1>6
<1>8. /\ F = [x \in rows |-> x.total_pass] /\ G = [x \in rows |-> x.total_fail]
      /\ Pass(r, D) = SumOf(f) /\ Fail(r, D) = SumOf(g)
  BY <1>3 DEF Pass, Fail
<1>. HIDE DEF F, G, f, g, row, C, cat, D
<1>9. SumOf(F) = SumOf(f)
  <2>1. Grouped(F, row, C, f, D, cat)
    BY <1>1, <1>2, <1>5, <1>6, <1>7 DEF Grouped
  <2>. QED
    BY <2>1, SumOfGroups
<1>10. SumOf(G) = SumOf(g)
  <2>1. Grouped(G, row, C, g, D, cat)
    BY <1>1, <1>2, <1>5, <1>6, <1>7 DEF Grouped
  <2>. QED
    BY <2>1, SumOfGroups
<1>. QED
  BY <1>8, <1>9, <1>10 DEF D

(* What the database sums up for a category is what the rows of the run    *)
(* have of it.                                                             *)
LEMMA CategorySums ==
  ASSUME BoardInv, NEW m, NEW r \in Runs, LatestRun(m) = {r}, NEW risks, NEW c \in risks
  PROVE  LET of == {row \in Rows({m}, risks) : row.category = c}
         IN  /\ SumOf([row \in of |-> row.total_pass]) = Pass(r, In(r, c))
             /\ SumOf([row \in of |-> row.total_fail]) = Fail(r, In(r, c))
<1>. DEFINE of == {row \in Rows({m}, risks) : row.category = c}
            f == [row \in of |-> row.total_pass]
            g == [row \in of |-> row.total_fail]
            a == Aggregate(r, c)
<1>1. Rows({m}, risks) = {Aggregate(r, d) : d \in risks \cap Shown(r)}
  BY RowsOfLatest
<1>2. \A d : Aggregate(r, d).category = d
  BY DEF Aggregate
<1>3. a.total_pass = Pass(r, In(r, c)) /\ a.total_fail = Fail(r, In(r, c))
  BY DEF Aggregate
<1>4. In(r, c) \subseteq DOMAIN results[r] /\ (c \notin Shown(r) => In(r, c) = {})
  BY DEF In, Shown
<1>5. /\ Pass(r, In(r, c)) \in Nat /\ Fail(r, In(r, c)) \in Nat
      /\ In(r, c) = {} => Pass(r, In(r, c)) = 0 /\ Fail(r, In(r, c)) = 0
  BY <1>4, PartsAreNumbers
<1>6. CASE c \in Shown(r)
  <2>1. of = {a}
    BY <1>1, <1>2, <1>6
  <2>2. f \in [{a} -> Nat] /\ g \in [{a} -> Nat] /\ f[a] = a.total_pass /\ g[a] = a.total_fail
    BY <1>3, <1>5, <2>1
  <2>. HIDE DEF f, g, a, of
  <2>3. SumOf(f) = f[a] /\ SumOf(g) = g[a]
    BY ONLY <2>2, SumOfSingle
  <2>. QED
    BY <1>3, <2>2, <2>3 DEF f, g, of
<1>7. CASE c \notin Shown(r)
  <2>1. of = {}
    BY <1>1, <1>2, <1>7
  <2>2. f \in [of -> Nat] /\ g \in [of -> Nat]
    BY <2>1
  <2>. HIDE DEF f, g, of
  <2>3. SumOf(f) = 0 /\ SumOf(g) = 0
    BY ONLY <2>1, <2>2, SumOfNone
  <2>. QED
    BY <1>4, <1>5, <1>7, <2>3 DEF f, g, of
<1>. QED
  BY <1>6, <1>7

LEMMA RatesAgree ==
  ASSUME BoardInv, NEW m, NEW r \in Runs, LatestRun(m) = {r}, NEW risks
  PROVE  RiskRow(m, risks) = RunRates(r, risks)
<1>. DEFINE of(c) == {row \in Rows({m}, risks) : row.category = c}
            passed(c) == SumOf([row \in of(c) |-> row.total_pass])
            failed(c) == SumOf([row \in of(c) |-> row.total_fail])
<1>1. \A c \in risks : passed(c) = Pass(r, In(r, c)) /\ failed(c) = Fail(r, In(r, c))
  BY CategorySums
<1>2. RiskRow(m, risks) = Rates([c \in risks |-> passed(c)], [c \in risks |-> passed(c) + failed(c)])
  BY DEF RiskRow
<1>. HIDE DEF passed, failed
<1>3. /\ [c \in risks |-> passed(c)] = [c \in risks |-> Pass(r, In(r, c))]
      /\ [c \in risks |-> passed(c) + failed(c)]
           = [c \in risks |-> Pass(r, In(r, c)) + Fail(r, In(r, c))]
  BY <1>1
<1>. QED
  BY <1>2, <1>3 DEF RunRates

LEMMA TrendsEndWithLatest ==
  ASSUME BoardInv, NEW m \in Models, NEW r \in Complete(m), LatestRunId(m) = {r}, NEW risks
  PROVE  Last(Trends(m, risks)).rates = RunRates(r, risks)
<1>. DEFINE S == Complete(m)
            n == Cardinality(S)
            run(i) == CHOOSE q \in S : Cardinality(EndedBy(q)) = i
            points == [i \in 1..n |-> [run |-> run(i), rates |-> RunRates(run(i), risks)]]
<1>1. IsFiniteSet(S) /\ n \in Nat \ {0} /\ \A q \in S : ModelOf[q] = m
  <2>1. S \in SUBSET Runs
    BY DEF Complete
  <2>2. IsFiniteSet(S)
    BY <2>1, FS_Subset
  <2>3. n \in Nat /\ n # 0
    BY <2>2, FS_CardinalityType, FS_EmptySet
  <2>. QED
    BY <2>2, <2>3 DEF Complete
<1>2. EndedBy(r) = S
  <2>1. \A q \in S : completed[q] <= completed[r]
    BY DEF LatestRunId, Newest
  <2>. QED
    BY <1>1, <2>1 DEF EndedBy
<1>3. ASSUME NEW q \in S, Cardinality(EndedBy(q)) = n PROVE q = r
  <2>1. EndedBy(q) \in SUBSET S
    BY <1>1 DEF EndedBy
  <2>2. EndedBy(q) = S
    BY <1>1, <1>3, <2>1, FS_Subset
  <2>3. \A p \in S : completed[p] <= completed[q]
    BY <1>1, <2>2 DEF EndedBy
  <2>. QED
    BY <2>3 DEF LatestRunId, Newest
<1>4. run(n) = r
  BY <1>2, <1>3
<1>5. Trends(m, risks) = points
  BY DEF Trends
<1>. HIDE DEF n, run
<1>6. points \in Seq(Range(points)) /\ Len(points) = n
  <2>1. points \in [1..n -> Range(points)]
    BY DEF Range
  <2>. QED
    BY <1>1, <2>1
<1>7. Last(points) = points[n]
  BY <1>6 DEF Last
<1>8. points[n].rates = RunRates(r, risks)
  BY <1>1, <1>4
<1>. QED
  BY <1>5, <1>7, <1>8

(* A model without any of the risks has no rate.                           *)
LEMMA NoRates ==
  ASSUME BoardInv, NEW r \in Runs, NEW risks, risks \cap Shown(r) = {}
  PROVE  RunRates(r, risks).overall = None
<1>. DEFINE passed == [c \in risks |-> Pass(r, In(r, c))]
            total == [c \in risks |-> Pass(r, In(r, c)) + Fail(r, In(r, c))]
            rate == [c \in DOMAIN total |-> Rate(passed[c], total[c])]
            known == {i \in DOMAIN rate : rate[i] # None}
            none == [i \in known |-> rate[i]]
<1>1. ASSUME NEW c \in risks PROVE rate[c] = None
  <2>1. In(r, c) = {} /\ In(r, c) \subseteq DOMAIN results[r]
    BY DEF In, Shown
  <2>2. Pass(r, In(r, c)) = 0 /\ Fail(r, In(r, c)) = 0
    BY <2>1, PartsAreNumbers
  <2>. QED
    BY <2>2 DEF Rate
<1>2. known = {}
  BY <1>1
<1>3. DOMAIN none = {}
  BY <1>2
<1>. HIDE DEF none
<1>4. Total(none) = Rate(0, 1)
  <2>. DEFINE Sum(h) == [s \in SUBSET DOMAIN none |->
                 IF s = {} THEN Rate(0, 1)
                 ELSE Plus(none[CHOOSE i \in s : TRUE], h[s \ {CHOOSE i \in s : TRUE}])]
              z == [s \in {{}} |-> Rate(0, 1)]
              iter == CHOOSE h : h = Sum(h)
  <2>1. Total(none) = iter[DOMAIN none]
    BY Zenon DEF Total, MapThenFoldSet
  <2>2. SUBSET DOMAIN none = {{}}
    BY <1>3
  <2>3. z = Sum(z)
    BY <2>2
  <2>4. iter = Sum(iter)
    BY <2>3
  <2>. HIDE DEF iter
  <2>5. iter[{}] = Rate(0, 1)
    BY <2>2, <2>4
  <2>. QED
    BY <1>3, <2>1, <2>5
<1>5. Cardinality(known) = 0
  BY <1>2, FS_EmptySet
<1>6. Mean(rate) = None
  <2>1. Mean(rate) = Rate(Total(none).num, Total(none).den * Cardinality(known))
    BY DEF Mean, none
  <2>2. Total(none) = [num |-> 0, den |-> 1]
    BY <1>4 DEF Rate
  <2>. HIDE DEF known
  <2>. QED
    BY <1>5, <2>1, <2>2 DEF Rate
<1>7. RunRates(r, risks).overall = Mean(rate)
  <2>. HIDE DEF rate
  <2>1. RunRates(r, risks) = [per_risk |-> rate, overall |-> Mean(rate)]
    BY DEF RunRates, Rates, rate
  <2>. QED
    BY <2>1
<1>. QED
  BY <1>6, <1>7

LEMMA SameAsItself == ASSUME NEW a PROVE SameRates(a, a)
BY DEF SameRates, Equal

(* The same of all views: those on the database and those on the copy are  *)
(* both of the run that is last in either order.                           *)
LEMMA OneRunOneView ==
  ASSUME BoardInv, InOrder PROVE ViewsAgree
<1>1. \A m \in Models : LatestRun(m) = LatestRunId(m)
  BY LatestRunsAgree
<1>2. \A m \in Models : Complete(m) # {} => \E r \in Complete(m) : LatestRun(m) = {r}
  BY LatestRunIsOne
<1>3. \A m \in Models : LatestRun(m) # {} => Complete(m) # {}
  BY DEF LatestRun, Newest
<1>4. \A m : \A r \in Complete(m) : r \in Runs
  BY DEF Complete
<1>5. ASSUME NEW M \in Filters(Models), NEW C \in Filters(Categories)
      PROVE  Rows(M, C) = LiteRows(M, C)
  <2>1. M \subseteq Models
    BY DEF Filters
  <2>2. {LatestRun(m) : m \in M} = {LatestRunId(m) : m \in M}
    BY <1>1, <2>1
  <2>. QED
    BY <2>2 DEF Rows, LiteRows
<1>6. ASSUME NEW m \in Models
      PROVE  /\ Origin(m) = LatestRun(m)
             /\ ModelDetail(m) = LiteModelDetail(m)
             /\ LET rows == Rows({m}, Categories) IN
                  ModelDetail(m) # {} =>
                    /\ Summary(m).total_pass = SumOf([r \in rows |-> r.total_pass])
                    /\ Summary(m).total_fail = SumOf([r \in rows |-> r.total_fail])
  <2>1. Origin(m) = LatestRun(m) /\ ModelDetail(m) = LiteModelDetail(m)
    BY <1>1 DEF Origin, ModelDetail, LiteModelDetail
  <2>. DEFINE rows == Rows({m}, Categories)
  <2>2. ASSUME ModelDetail(m) # {}
        PROVE  /\ Summary(m).total_pass = SumOf([r \in rows |-> r.total_pass])
               /\ Summary(m).total_fail = SumOf([r \in rows |-> r.total_fail])
    <3>1. LatestRun(m) # {}
      BY <2>2 DEF ModelDetail, Detail
    <3>2. PICK r \in Complete(m) : LatestRun(m) = {r}
      BY <1>2, <1>3, <3>1
    <3>3. r = CHOOSE q \in LatestRun(m) : TRUE
      BY <3>2
    <3>4. /\ Summary(m).total_pass = Pass(r, DOMAIN results[r])
          /\ Summary(m).total_fail = Fail(r, DOMAIN results[r])
      BY <3>3 DEF Summary
    <3>. HIDE DEF rows
    <3>5. /\ SumOf([x \in rows |-> x.total_pass]) = Pass(r, DOMAIN results[r])
          /\ SumOf([x \in rows |-> x.total_fail]) = Fail(r, DOMAIN results[r])
      BY <1>4, <3>2, RowsSumUp DEF rows
    <3>. QED
      BY <3>4, <3>5
  <2>. QED
    BY <2>1, <2>2
<1>7. ASSUME NEW risks \in RiskSets
      PROVE  /\ RiskModels(risks) \subseteq LiteRiskModels
             /\ \A m \in RiskModels(risks) :
                  /\ SameRates(RiskRow(m, risks), LiteRiskRow(m, risks))
                  /\ SameRates(RiskRow(m, risks), Last(Trends(m, risks)).rates)
             /\ \A m \in LiteRiskModels \ RiskModels(risks) :
                  LiteRiskRow(m, risks).overall = None
  <2>1. ASSUME NEW m \in RiskModels(risks) PROVE m \in Models /\ Complete(m) # {}
    <3>1. m \in Models /\ Rows({m}, risks) # {}
      BY DEF RiskModels
    <3>2. LatestRun(m) # {}
      BY <3>1 DEF Rows, Groups
    <3>. QED
      BY <1>3, <3>1, <3>2
  <2>2. RiskModels(risks) \subseteq LiteRiskModels
    BY <2>1 DEF LiteRiskModels
  <2>3. ASSUME NEW m \in LiteRiskModels
        PROVE  \E r \in Complete(m) : /\ LatestRun(m) = {r} /\ LatestRunId(m) = {r}
                                      /\ LiteRiskRow(m, risks) = RunRates(r, risks)
    <3>1. m \in Models /\ Complete(m) # {}
      BY DEF LiteRiskModels
    <3>2. PICK r \in Complete(m) : LatestRun(m) = {r}
      BY <1>2, <3>1
    <3>3. LatestRunId(m) = {r}
      BY <1>1, <3>1, <3>2
    <3>4. r = CHOOSE q \in LatestRunId(m) : TRUE
      BY <3>3
    <3>5. LiteRiskRow(m, risks) = RunRates(r, risks)
      BY <3>4 DEF LiteRiskRow
    <3>. QED
      BY <3>2, <3>3, <3>5
  <2>4. ASSUME NEW m \in RiskModels(risks)
        PROVE  /\ SameRates(RiskRow(m, risks), LiteRiskRow(m, risks))
               /\ SameRates(RiskRow(m, risks), Last(Trends(m, risks)).rates)
    <3>1. PICK r \in Complete(m) : /\ LatestRun(m) = {r} /\ LatestRunId(m) = {r}
                                   /\ LiteRiskRow(m, risks) = RunRates(r, risks)
      BY <2>2, <2>3
    <3>2. RiskRow(m, risks) = RunRates(r, risks)
      BY <1>4, <3>1, RatesAgree
    <3>3. Last(Trends(m, risks)).rates = RunRates(r, risks)
      BY <2>1, <3>1, TrendsEndWithLatest
    <3>. QED
      BY <3>1, <3>2, <3>3, SameAsItself
  <2>5. ASSUME NEW m \in LiteRiskModels, m \notin RiskModels(risks)
        PROVE  LiteRiskRow(m, risks).overall = None
    <3>1. PICK r \in Complete(m) : /\ LatestRun(m) = {r} /\ LatestRunId(m) = {r}
                                   /\ LiteRiskRow(m, risks) = RunRates(r, risks)
      BY <2>3
    <3>2. Rows({m}, risks) = {}
      BY <2>5 DEF RiskModels, LiteRiskModels
    <3>3. Rows({m}, risks) = {Aggregate(r, c) : c \in risks \cap Shown(r)}
      BY <3>1, RowsOfLatest
    <3>4. risks \cap Shown(r) = {}
      BY <3>2, <3>3
    <3>. QED
      BY <1>4, <3>1, <3>4, NoRates
  <2>. QED
    BY <2>2, <2>4, <2>5
<1>. QED
  BY <1>5, <1>6, <1>7 DEF ViewsAgree

(* The API and the copy show the same leaderboard, risk table, trends and  *)
(* detail for any number of models, runs, probes and categories.           *)
THEOREM BoardsAgree == BoardSpec => []ViewsAgree
<1>1. BoardInv => ViewsAgree
  <2>1. InOrder \/ ~InOrder
    OBVIOUS
  <2>. QED
    BY <2>1, OneRunOneView DEF ViewsAgree
<1>. QED
  BY <1>1, BoardStart, BoardStep, PTL DEF BoardSpec
-----------------------------------------------------------------------------
(* The pages                                                               *)

(* The number of pages is the least that has room for all.                 *)
LEMMA EnoughPages ==
  ASSUME NEW n \in Nat
  PROVE  /\ TotalPages(n) \in Nat
         /\ n <= TotalPages(n) * PageSize
         /\ \A k \in 1..TotalPages(n) : (k - 1) * PageSize < n
<1>. DEFINE t == TotalPages(n)
            p == PageSize
            m == n + p - 1
            d == m \div p
<1>1. p \in Nat \ {0} /\ m \in Nat
  OBVIOUS
<1>2. CASE n = 0
  <2>1. t = 0
    BY <1>2 DEF TotalPages
  <2>. QED
    BY <1>2, <2>1
<1>3. CASE n # 0
  <2>1. t = d
    BY <1>3 DEF TotalPages
  <2>2. d \in Nat /\ d * p <= m /\ m < d * p + p
    <3>. HIDE DEF m, p
    <3>. QED
      BY <1>1
  <2>. HIDE DEF d
  <2>3. n <= d * p
    BY <1>1, <2>2
  <2>4. ASSUME NEW k \in 1..d PROVE (k - 1) * p < n
    <3>. HIDE DEF m, p
    <3>1. (k - 1) * p + p <= d * p
      BY <1>1, <2>2
    <3>2. (k - 1) * p + p <= m /\ (k - 1) * p \in Nat
      BY <1>1, <2>2, <3>1
    <3>. QED
      BY <1>1, <3>2 DEF m
  <2>. QED
    BY <2>1, <2>2, <2>3, <2>4
<1>. QED
  BY <1>2, <1>3

(* A page is the rows from its first position on, up to PageSize of them.  *)
LEMMA PageProperties ==
  ASSUME NEW S, NEW s \in Seq(S), NEW k \in 1..TotalPages(Len(s))
  PROVE  LET first == (k - 1) * PageSize
             size  == IF first + PageSize < Len(s) THEN PageSize ELSE Len(s) - first
         IN  /\ first \in Nat /\ size \in 1..PageSize
             /\ Page(s, k) \in Seq(S) /\ Len(Page(s, k)) = size
             /\ \A j \in 1..size : Page(s, k)[j] = s[first + j]
<1>. DEFINE n == Len(s)
            first == (k - 1) * PageSize
            last  == k * PageSize
            size  == IF first + PageSize < n THEN PageSize ELSE n - first
<1>1. n \in Nat
  BY LenProperties
<1>2. k \in Nat /\ k - 1 \in Nat /\ first < n
  <2>1. TotalPages(n) \in Nat /\ \A i \in 1..TotalPages(n) : (i - 1) * PageSize < n
    BY <1>1, EnoughPages
  <2>. QED
    BY <2>1
<1>3. first \in Nat
  BY <1>2
<1>4. last = first + PageSize
  BY <1>2
<1>. HIDE DEF first, last, n
<1>5. size \in 1..PageSize /\ first + size \in 0..n
  BY <1>1, <1>2, <1>3
<1>6. Page(s, k) = SubSeq(s, first + 1, first + size)
  <2>1. Page(s, k) = SubSeq(s, first + 1, IF last < n THEN last ELSE n)
    BY DEF Page, first, last, n
  <2>2. (IF last < n THEN last ELSE n) = first + size
    BY <1>1, <1>3, <1>4
  <2>. QED
    BY <2>1, <2>2
<1>. HIDE DEF size
<1>7. /\ SubSeq(s, first + 1, first + size) \in Seq(S)
      /\ Len(SubSeq(s, first + 1, first + size)) = size
      /\ \A j \in 1..size : SubSeq(s, first + 1, first + size)[j] = s[first + j]
  <2>1. first + 1 \in 1..(n + 1) /\ first + size \in 0..n
    BY <1>1, <1>2, <1>3, <1>5
  <2>. DEFINE lo == first + 1
              hi == first + size
              sub == SubSeq(s, lo, hi)
  <2>2. lo \in Int /\ hi \in Int /\ lo <= hi /\ hi - lo + 1 = size
    BY <1>3, <1>5
  <2>3. \A i \in lo..hi : s[i] \in S
    <3>1. \A i \in lo..hi : i \in 1..n
      BY <1>1, <1>3, <1>5, <2>1
    <3>. QED
      BY <3>1, ElementOfSeq DEF n
  <2>4. size = hi - lo + 1 /\ \A j \in 1..size : lo + j - 1 = first + j
    BY <1>3, <1>5
  <2>. HIDE DEF lo, hi
  <2>5. /\ sub \in Seq(S)
        /\ Len(sub) = hi - lo + 1
        /\ \A j \in 1..(hi - lo + 1) : sub[j] = s[lo + j - 1]
    BY <2>2, <2>3, SubSeqProperties
  <2>. HIDE DEF sub
  <2>6. \A j \in 1..size : sub[j] = s[first + j]
    BY <2>4, <2>5
  <2>. QED
    BY <2>4, <2>5, <2>6 DEF sub, lo, hi
<1>. QED
  BY <1>3, <1>5, <1>6, <1>7 DEF first, size, n

LEMMA PagesFlatten ==
  ASSUME NEW S, NEW s \in Seq(S)
  PROVE  FlattenSeq([k \in 1..TotalPages(Len(s)) |-> Page(s, k)]) = s
<1>. DEFINE n == Len(s)
            t == TotalPages(n)
            ss == [k \in 1..t |-> Page(s, k)]
            F == FlattenSeq(ss)
            a == Len(F)
            p == PageSize
<1>1. n \in Nat /\ p \in Nat \ {0}
  BY LenProperties
<1>2. /\ t \in Nat /\ n <= t * p
      /\ \A k \in 1..t : (k - 1) * p < n
  BY <1>1, EnoughPages
<1>3. ASSUME NEW k \in 1..t
      PROVE  /\ ss[k] \in Seq(S) /\ (k - 1) * p \in Nat
             /\ Len(ss[k]) \in 1..p /\ (k - 1) * p + Len(ss[k]) <= n
             /\ Len(ss[k]) = p \/ (k - 1) * p + Len(ss[k]) = n
             /\ \A j \in 1..Len(ss[k]) : ss[k][j] = s[(k - 1) * p + j]
  <2>. DEFINE first == (k - 1) * p
              size == IF first + p < n THEN p ELSE n - first
  <2>1. /\ first \in Nat /\ size \in 1..p
        /\ Page(s, k) \in Seq(S) /\ Len(Page(s, k)) = size
        /\ \A j \in 1..size : Page(s, k)[j] = s[first + j]
    BY PageProperties
  <2>2. ss[k] = Page(s, k)
    OBVIOUS
  <2>3. first + size <= n /\ (size = p \/ first + size = n)
    <3>. HIDE DEF first, p
    <3>. QED
      BY <1>1, <2>1
  <2>. HIDE DEF ss, size
  <2>. QED
    BY <2>1, <2>2, <2>3
<1>4. ss \in Seq(Seq(S)) /\ Len(ss) = t
  BY <1>2, <1>3
<1>. HIDE DEF ss, t
<1>5. F \in Seq(S) /\ Joins(F, ss, t)
  BY <1>4, FlattenProperties
<1>. HIDE DEF F
<1>6. PICK q, r : JoinsBy(F, ss, t, q, r)
  BY <1>5 DEF Joins
<1>7. /\ a \in Nat /\ q \in [1..a -> 1..t] /\ r \in [1..a -> Nat]
      /\ \A k \in 1..a : r[k] \in 1..Len(ss[q[k]]) /\ F[k] = ss[q[k]][r[k]]
      /\ \A k, l \in 1..a : k < l => q[k] < q[l] \/ (q[k] = q[l] /\ r[k] < r[l])
      /\ \A i \in 1..t : \A j \in 1..Len(ss[i]) : \E k \in 1..a : q[k] = i /\ r[k] = j
  BY <1>5, <1>6, LenProperties DEF JoinsBy
<1>. HIDE DEF n, p, a
<1>. DEFINE first == [i \in 1..t |-> (i - 1) * p]
            at == [k \in 1..a |-> first[q[k]] + r[k]]
<1>8. ASSUME NEW k \in 1..a
      PROVE  /\ q[k] \in 1..t /\ first[q[k]] \in Nat /\ r[k] \in 1..p
             /\ at[k] = first[q[k]] + r[k] /\ at[k] \in 1..n /\ F[k] = s[at[k]]
  <2>1. q[k] \in 1..t /\ r[k] \in 1..Len(ss[q[k]]) /\ F[k] = ss[q[k]][r[k]]
    BY <1>7
  <2>2. /\ first[q[k]] \in Nat
        /\ Len(ss[q[k]]) \in 1..p /\ first[q[k]] + Len(ss[q[k]]) <= n
        /\ ss[q[k]][r[k]] = s[first[q[k]] + r[k]]
    BY <1>3, <2>1
  <2>. HIDE DEF first
  <2>3. at[k] = first[q[k]] + r[k]
    OBVIOUS
  <2>4. at[k] \in 1..n /\ r[k] \in 1..p
    <3>. HIDE DEF at
    <3>. QED
      BY <1>1, <2>1, <2>2, <2>3
  <2>. HIDE DEF at
  <2>. QED
    BY <2>1, <2>2, <2>3, <2>4
<1>. HIDE DEF at
<1>9. \A k, l \in 1..a : k < l => at[k] < at[l]
  <2>. SUFFICES ASSUME NEW k \in 1..a, NEW l \in 1..a, k < l PROVE at[k] < at[l]
    OBVIOUS
  <2>1. q[k] < q[l] \/ (q[k] = q[l] /\ r[k] < r[l])
    BY <1>7
  <2>2. CASE q[k] = q[l] /\ r[k] < r[l]
    <3>. HIDE DEF first
    <3>. QED
      BY <1>1, <1>8, <2>2
  <2>3. CASE q[k] < q[l]
    <3>. DEFINE i == q[k] - 1
                j == q[l] - 1
    <3>1. i \in Nat /\ j \in Nat /\ i < j
      <4>. DEFINE u == q[k]
                  v == q[l]
      <4>1. u \in 1..t /\ v \in 1..t /\ u < v /\ t \in Nat
        BY <1>2, <1>8, <2>3
      <4>. HIDE DEF u, v
      <4>2. u - 1 \in Nat /\ v - 1 \in Nat /\ u - 1 < v - 1
        BY ONLY <4>1
      <4>. QED
        BY <4>2 DEF u, v
    <3>2. first[q[k]] = i * p /\ first[q[l]] = j * p
      BY <1>8
    <3>. HIDE DEF i, j
    <3>3. i * p + p <= j * p
      BY <1>1, <3>1
    <3>4. first[q[k]] + p <= first[q[l]]
      BY <3>2, <3>3
    <3>. HIDE DEF first
    <3>5. /\ at[k] = first[q[k]] + r[k] /\ first[q[k]] \in Nat /\ r[k] \in 1..p
          /\ at[l] = first[q[l]] + r[l] /\ first[q[l]] \in Nat /\ r[l] \in 1..p
      BY <1>8
    <3>. DEFINE fk == first[q[k]]
                fl == first[q[l]]
                rk == r[k]
                rl == r[l]
    <3>6. fk \in Nat /\ fl \in Nat /\ rk \in 1..p /\ rl \in 1..p /\ fk + p <= fl
      BY <3>4, <3>5
    <3>. HIDE DEF fk, fl, rk, rl
    <3>7. fk + rk < fl + rl
      BY ONLY <1>1, <3>6
    <3>. QED
      BY <3>5, <3>7 DEF fk, fl, rk, rl
  <2>. QED
    BY <2>1, <2>2, <2>3
<1>10. \A i \in 1..n : \E k \in 1..a : at[k] = i
  <2>. SUFFICES ASSUME NEW i \in 1..n PROVE \E k \in 1..a : at[k] = i
    OBVIOUS
  <2>. DEFINE d == (i - 1) \div p
              e == (i - 1) % p
              x == d * p
  <2>1. d \in Nat /\ e \in 0..(p - 1) /\ i - 1 = x + e
    BY <1>1, i - 1 \in Nat
  <2>. HIDE DEF d, e
  <2>2. x \in Nat
    BY <1>1, <2>1
  <2>3. d < t
    <3>1. ~(t <= d)
      <4>1. t <= d => t * p <= x
        BY <1>1, <1>2, <2>1
      <4>. HIDE DEF x
      <4>. QED
        BY <1>1, <1>2, <2>1, <2>2, <4>1
    <3>. QED
      BY <1>2, <2>1, <3>1
  <2>4. d + 1 \in 1..t /\ (d + 1) - 1 = d
    BY <1>2, <2>1, <2>3
  <2>5. first[d + 1] = x
    BY <2>4
  <2>6. Len(ss[d + 1]) \in 1..p /\ (Len(ss[d + 1]) = p \/ x + Len(ss[d + 1]) = n)
    BY <1>3, <2>4
  <2>. HIDE DEF x, first
  <2>7. e + 1 \in 1..Len(ss[d + 1])
    BY <1>1, <2>1, <2>2, <2>6
  <2>8. PICK k \in 1..a : q[k] = d + 1 /\ r[k] = e + 1
    BY <1>7, <2>4, <2>7
  <2>9. at[k] = x + (e + 1)
    BY <1>8, <2>5, <2>8
  <2>. QED
    BY <2>1, <2>2, <2>9
<1>11. at \in [1..a -> 1..n]
  <2>1. at = [k \in 1..a |-> at[k]]
    BY DEF at
  <2>. QED
    BY <1>8, <2>1
<1>12. a = n /\ \A k \in 1..a : at[k] = k
  <2>1. a \in Nat /\ n \in Nat
    BY <1>1, <1>7
  <2>2. Climbs(at, a, n)
    BY <1>9, <1>10, <1>11 DEF Climbs
  <2>. QED
    BY ONLY <2>1, <2>2, NoneLeftOut
<1>13. \A k \in 1..n : F[k] = s[k]
  BY <1>8, <1>12
<1>14. F = s
  BY <1>5, <1>12, <1>13, SeqEqual DEF a, n
<1>. QED
  BY <1>14 DEF F, ss, t, n

LEMMA RowsAreCounted == Cardinality(Rows(Models, Categories)) \in Nat
<1>. DEFINE g == [x \in Runs \X Categories |-> Aggregate(x[1], x[2])]
            T == {g[x] : x \in Runs \X Categories}
            rows == Rows(Models, Categories)
<1>1. IsFiniteSet(Categories)
  BY FiniteImage DEF Categories
<1>2. IsFiniteSet(Runs \X Categories)
  BY <1>1, FS_Product
<1>3. IsFiniteSet(T)
  <2>. HIDE DEF g
  <2>. QED
    BY <1>2, FiniteImage
<1>4. rows \in SUBSET T
  <2>1. ASSUME NEW row \in rows PROVE row \in T
    <3>1. PICK r \in UNION {LatestRun(m) : m \in Models} :
            \E c \in Categories \cap Shown(r) : row = Aggregate(r, c)
      BY <2>1 DEF Rows, Groups
    <3>2. PICK c \in Categories \cap Shown(r) : row = Aggregate(r, c)
      BY <3>1
    <3>3. r \in Runs /\ c \in Categories
      BY DEF LatestRun, Newest, Complete
    <3>4. <<r, c>> \in Runs \X Categories /\ g[<<r, c>>] = Aggregate(r, c)
      BY <3>3
    <3>. QED
      BY <3>2, <3>4
  <2>. QED
    BY <2>1
<1>. HIDE DEF rows, T
<1>5. Cardinality(rows) \in Nat
  BY <1>3, <1>4, FS_Subset, FS_CardinalityType
<1>. QED
  BY <1>5 DEF rows

(* All rows are on the pages, once and in their order.                     *)
THEOREM PagesShowAll == BoardSpec => []PagesCover
<1>1. PagesCover
  <2>. DEFINE rows == Rows(Models, Categories)
              n == Cardinality(rows)
  <2>1. ASSUME NEW s \in Orders(rows)
        PROVE  FlattenSeq([k \in 1..TotalPages(n) |-> Page(s, k)]) = s
    <3>1. n \in Nat
      BY RowsAreCounted
    <3>. HIDE DEF rows
    <3>2. s \in [1..n -> rows]
      <4>1. s \in SetToSeqs(rows)
        BY DEF Orders
      <4>. QED
        BY <4>1 DEF SetToSeqs
    <3>. HIDE DEF n
    <3>3. s \in Seq(rows) /\ Len(s) = n
      BY <3>1, <3>2
    <3>. QED
      BY <3>3, PagesFlatten
  <2>. QED
    BY Zenon, <2>1 DEF PagesCover
<1>. QED
  BY <1>1, PTL
=============================================================================
