-------------------------- MODULE PipelinesProofs ---------------------------
(***************************************************************************)
(* Proofs about the pipelines: GarakReport for every list of probes and    *)
(* detectors and every cut of a report, CtiSources for every page,         *)
(* priority of sources and number of flow runs, Discovery for every        *)
(* catalogue, list length and number of sync flows, Inference for every    *)
(* interval, latency and number of prompts, retries and attempts, Schema   *)
(* for every set of tables and number of processes.                        *)
(***************************************************************************)
EXTENDS GarakReport, CtiSources, Discovery, Inference, Schema, PicksProofs

(* The verdicts of a scan                                                  *)

(* Lines in which a detector evaluates a probe once, and only probes of P  *)
SameEval(l, k) ==
  l.kind = "eval" /\ k.kind = "eval" /\ l.probe = k.probe /\ l.detector = k.detector
Clean(lines, P) ==
  /\ lines \in Seq(Range(lines))
  /\ \A i \in 1..Len(lines) : lines[i].kind = "eval" => lines[i].probe \in P
  /\ \A i, j \in 1..Len(lines) : SameEval(lines[i], lines[j]) => i = j

LEMMA LinesOfProperties ==
  ASSUME NEW p \in Range(Installed), NEW n
  PROVE  /\ Clean(LinesOf(p, n), {p})
         /\ \A i \in 1..Len(LinesOf(p, n)) : LinesOf(p, n)[i].probe = p
<1>. DEFINE D == DetectorsOf[p]
            m == Len(D)
            x == Line("attempt", p, "none", <<0, 0>>)
            y(i) == Line("eval", p, D[i], n)
            a == <<x>>
            b == [i \in DOMAIN D |-> y(i)]
            Q == {x} \cup {y(i) : i \in 1..m}
            ls == a \o b
<1>1. /\ m \in Nat /\ DOMAIN D = 1..m
      /\ \A i, j \in 1..m : D[i] = D[j] => i = j
  <2>1. D \in Seq(Range(D)) /\ IsInjective(D)
    BY GarakReportAssumption
  <2>2. m \in Nat /\ DOMAIN D = 1..m
    BY <2>1, LenProperties
  <2>. QED
    BY <2>1, <2>2 DEF IsInjective
<1>2. LinesOf(p, n) = ls
  BY DEF LinesOf
<1>3. x.kind = "attempt" /\ x.probe = p
  BY DEF Line
<1>4. \A i : y(i).kind = "eval" /\ y(i).probe = p /\ y(i).detector = D[i]
  BY DEF Line
<1>. HIDE DEF x, y, D
<1>5. x \in Q /\ b \in [1..m -> Q]
  BY <1>1
<1>. HIDE DEF Q
<1>6. a \in Seq(Q) /\ Len(a) = 1 /\ a[1] = x /\ b \in Seq(Q) /\ Len(b) = m
  BY <1>1, <1>5
<1>7. \A i \in 1..m : b[i] = y(i)
  BY <1>1
<1>. HIDE DEF a, b
<1>8. /\ ls \in Seq(Q) /\ Len(ls) = 1 + m
      /\ \A i \in 1..Len(ls) : ls[i] = IF i <= Len(a) THEN a[i] ELSE b[i - Len(a)]
  <2>1. /\ a \o b \in Seq(Q) /\ Len(a \o b) = Len(a) + Len(b)
        /\ \A i \in 1..(Len(a) + Len(b)) :
             (a \o b)[i] = IF i <= Len(a) THEN a[i] ELSE b[i - Len(a)]
    BY <1>6, ConcatProperties
  <2>. QED
    BY <1>6, <2>1
<1>9. ASSUME NEW i \in 1..Len(ls)
      PROVE  \/ i = 1 /\ ls[i] = x
             \/ i - 1 \in 1..m /\ ls[i] = y(i - 1)
  <2>1. i = 1 \/ i - 1 \in 1..m
    BY <1>1, <1>8
  <2>2. i = 1 => ls[i] = x
    BY <1>6, <1>8
  <2>3. i - 1 \in 1..m => ls[i] = b[i - 1]
    BY <1>1, <1>6, <1>8
  <2>. QED
    BY <1>7, <2>1, <2>2, <2>3
<1>. HIDE DEF ls
<1>10. \A i \in 1..Len(ls) : ls[i].probe = p
  BY <1>3, <1>4, <1>9
<1>11. ASSUME NEW i \in 1..Len(ls), NEW j \in 1..Len(ls), SameEval(ls[i], ls[j]) PROVE i = j
  <2>1. i - 1 \in 1..m /\ ls[i] = y(i - 1) /\ j - 1 \in 1..m /\ ls[j] = y(j - 1)
    BY <1>3, <1>9, <1>11 DEF SameEval
  <2>2. D[i - 1] = D[j - 1]
    BY <1>4, <1>11, <2>1 DEF SameEval
  <2>3. i - 1 = j - 1
    BY <1>1, <2>1, <2>2
  <2>. QED
    BY <1>8, <2>3
<1>12. ls \in Seq(Range(ls))
  BY <1>8, SeqOfRange
<1>. QED
  BY <1>2, <1>10, <1>11, <1>12 DEF Clean

LEMMA WholeIsClean ==
  ASSUME NEW probes \in Seq(Range(Installed)), NEW n,
         \A i, j \in 1..Len(probes) : probes[i] = probes[j] => i = j
  PROVE  Clean(Whole(probes, n), Range(probes))
<1>. DEFINE m == Len(probes)
            ss == [i \in DOMAIN probes |-> LinesOf(probes[i], n)]
            S == UNION {Range(LinesOf(p, n)) : p \in Range(probes)}
            F == FlattenSeq(ss)
            a == <<Header>>
            w == a \o F
            T == S \cup {Header}
<1>1. /\ m \in Nat /\ DOMAIN probes = 1..m /\ Range(probes) = {probes[i] : i \in 1..m}
      /\ \A i \in 1..m : probes[i] \in Range(Installed)
  BY LenProperties, RangeEquality, ElementOfSeq
<1>2. ASSUME NEW i \in 1..m
      PROVE  /\ LinesOf(probes[i], n) \in Seq(S) /\ Clean(LinesOf(probes[i], n), {probes[i]})
             /\ \A j \in 1..Len(LinesOf(probes[i], n)) : LinesOf(probes[i], n)[j].probe = probes[i]
  <2>. DEFINE p == probes[i]
  <2>1. p \in Range(Installed) /\ p \in Range(probes)
    BY <1>1
  <2>. HIDE DEF p
  <2>2. /\ Clean(LinesOf(p, n), {p}) /\ LinesOf(p, n) \in Seq(Range(LinesOf(p, n)))
        /\ \A j \in 1..Len(LinesOf(p, n)) : LinesOf(p, n)[j].probe = p
    BY <2>1, LinesOfProperties DEF Clean
  <2>3. Range(LinesOf(p, n)) \subseteq S
    BY <2>1
  <2>4. LinesOf(p, n) \in Seq(S)
    BY <2>2, <2>3, SeqMonotonic
  <2>. QED
    BY <2>2, <2>4 DEF p
<1>. HIDE DEF S
<1>3. ss \in [1..m -> Seq(S)] /\ \A i \in 1..m : ss[i] = LinesOf(probes[i], n)
  BY <1>1, <1>2
<1>. HIDE DEF ss
<1>4. ss \in Seq(Seq(S)) /\ Len(ss) = m
  BY <1>1, <1>3
<1>5. F \in Seq(S) /\ Joins(F, ss, m)
  BY <1>4, FlattenProperties
<1>. HIDE DEF F
<1>6. PICK q, r : JoinsBy(F, ss, m, q, r)
  BY <1>5 DEF Joins
<1>7. ASSUME NEW k \in 1..Len(F)
      PROVE  /\ q[k] \in 1..m /\ r[k] \in 1..Len(LinesOf(probes[q[k]], n)) /\ r[k] \in Nat
             /\ F[k] = LinesOf(probes[q[k]], n)[r[k]] /\ F[k].probe = probes[q[k]]
  <2>1. q[k] \in 1..m /\ r[k] \in Nat /\ r[k] \in 1..Len(ss[q[k]]) /\ F[k] = ss[q[k]][r[k]]
    BY <1>6 DEF JoinsBy
  <2>2. ss[q[k]] = LinesOf(probes[q[k]], n)
    BY <1>3, <2>1
  <2>3. r[k] \in 1..Len(LinesOf(probes[q[k]], n)) /\ F[k] = LinesOf(probes[q[k]], n)[r[k]]
    BY <2>1, <2>2
  <2>. QED
    BY <1>2, <2>1, <2>3
<1>8. ASSUME NEW k \in 1..Len(F), NEW l \in 1..Len(F), SameEval(F[k], F[l]) PROVE k = l
  <2>1. probes[q[k]] = probes[q[l]]
    BY <1>7, <1>8 DEF SameEval
  <2>2. q[k] = q[l]
    BY <1>7, <2>1
  <2>3. r[k] = r[l]
    <3>. DEFINE L == LinesOf(probes[q[k]], n)
    <3>1. r[k] \in 1..Len(L) /\ F[k] = L[r[k]]
      BY <1>7
    <3>2. r[l] \in 1..Len(L) /\ F[l] = L[r[l]]
      BY <1>7, <2>2
    <3>3. \A i, j \in 1..Len(L) : SameEval(L[i], L[j]) => i = j
      BY <1>2, <1>7 DEF Clean
    <3>4. SameEval(L[r[k]], L[r[l]])
      BY <1>8, <3>1, <3>2
    <3>. QED
      BY <3>1, <3>2, <3>3, <3>4
  <2>4. Len(F) \in Nat /\ q[k] \in Nat /\ r[k] \in Nat
    BY <1>1, <1>5, <1>7, LenProperties
  <2>5. ~(k < l) /\ ~(l < k)
    <3>1. \A u, v \in 1..Len(F) : u < v => q[u] < q[v] \/ (q[u] = q[v] /\ r[u] < r[v])
      BY <1>6 DEF JoinsBy
    <3>. QED
      BY <2>2, <2>3, <2>4, <3>1
  <2>. QED
    BY <2>4, <2>5
<1>9. /\ a \in Seq(T) /\ Len(a) = 1 /\ a[1] = Header /\ F \in Seq(T) /\ Len(F) \in Nat
  <2>1. F \in Seq(T)
    BY <1>5, SeqMonotonic
  <2>2. Len(F) \in Nat
    BY <1>5, LenProperties
  <2>. QED
    BY <2>1, <2>2
<1>. HIDE DEF a, T
<1>10. /\ w \in Seq(T) /\ Len(w) = 1 + Len(F)
       /\ \A i \in 1..Len(w) : w[i] = IF i <= 1 THEN a[i] ELSE F[i - 1]
  <2>1. /\ a \o F \in Seq(T) /\ Len(a \o F) = Len(a) + Len(F)
        /\ \A i \in 1..(Len(a) + Len(F)) :
             (a \o F)[i] = IF i <= Len(a) THEN a[i] ELSE F[i - Len(a)]
    BY <1>9, ConcatProperties
  <2>. QED
    BY <1>9, <2>1
<1>11. Header.kind # "eval"
  BY DEF Header, Line
<1>12. ASSUME NEW i \in 1..Len(w), w[i].kind = "eval" PROVE i - 1 \in 1..Len(F) /\ w[i] = F[i - 1]
  <2>1. i # 1
    BY <1>9, <1>10, <1>11, <1>12
  <2>. QED
    BY <1>9, <1>10, <2>1
<1>. HIDE DEF w
<1>13. ASSUME NEW i \in 1..Len(w), w[i].kind = "eval" PROVE w[i].probe \in Range(probes)
  <2>1. i - 1 \in 1..Len(F) /\ w[i] = F[i - 1]
    BY <1>12, <1>13
  <2>2. q[i - 1] \in 1..m /\ F[i - 1].probe = probes[q[i - 1]]
    BY <1>7, <2>1
  <2>. QED
    BY <1>1, <2>1, <2>2
<1>14. ASSUME NEW i \in 1..Len(w), NEW j \in 1..Len(w), SameEval(w[i], w[j]) PROVE i = j
  <2>1. /\ i - 1 \in 1..Len(F) /\ j - 1 \in 1..Len(F)
        /\ w[i] = F[i - 1] /\ w[j] = F[j - 1]
    BY <1>12, <1>14 DEF SameEval
  <2>2. i - 1 = j - 1
    BY <1>8, <1>14, <2>1
  <2>3. Len(w) \in Nat
    BY <1>9, <1>10
  <2>. QED
    BY <2>2, <2>3
<1>15. w \in Seq(Range(w))
  BY <1>10, SeqOfRange
<1>16. Whole(probes, n) = w
  BY DEF Whole, w, a, F, ss
<1>. QED
  BY <1>13, <1>14, <1>15, <1>16 DEF Clean

(* A report cut short, with its last line broken or not                    *)
LEMMA CutIsClean ==
  ASSUME NEW w, NEW P, Clean(w, P), NEW short \in Cuts(w)
  PROVE  Clean(short, P)
<1>1. w \in Seq(Range(w)) /\ Len(w) \in Nat
  BY LenProperties DEF Clean
<1>2. PICK i \in 0..Len(w) - 1 : short = SubSeq(w, 1, i) \/ short = Append(SubSeq(w, 1, i), Broken)
  BY DEF Cuts
<1>. DEFINE s == SubSeq(w, 1, i)
            t == Append(s, Broken)
<1>3. i \in Nat /\ \A j \in 1..i : j \in 1..Len(w)
  BY <1>1
<1>4. \A j \in 1..i : w[j] \in Range(w)
  BY <1>1, <1>3, ElementOfSeq
<1>5. s \in Seq(Range(w)) /\ Len(s) = i /\ \A j \in 1..i : s[j] = w[j]
  <2>1. /\ s \in Seq(Range(w)) /\ Len(s) = IF 1 <= i THEN i - 1 + 1 ELSE 0
        /\ \A j \in 1..(i - 1 + 1) : s[j] = w[1 + j - 1]
    BY <1>3, <1>4, SubSeqProperties
  <2>2. i - 1 + 1 = i /\ (1 <= i \/ i = 0) /\ \A j \in 1..i : 1 + j - 1 = j
    BY <1>3
  <2>. QED
    BY <2>1, <2>2
<1>. HIDE DEF s
<1>6. Clean(s, P)
  <2>1. s \in Seq(Range(s))
    BY <1>5, SeqOfRange
  <2>. QED
    BY <1>3, <1>5, <2>1 DEF Clean
<1>7. Clean(t, P)
  <2>1. /\ t \in Seq(Range(w) \cup {Broken}) /\ Len(t) = i + 1 /\ t[i + 1] = Broken
        /\ \A j \in 1..i : t[j] = s[j]
    <3>1. s \in Seq(Range(w) \cup {Broken})
      BY <1>5, SeqMonotonic
    <3>. QED
      BY <1>3, <1>5, <3>1, AppendProperties
  <2>2. t \in Seq(Range(t))
    BY <2>1, SeqOfRange
  <2>3. Broken.kind # "eval"
    BY DEF Broken, Line
  <2>. HIDE DEF t
  <2>4. \A j \in 1..Len(t) : t[j].kind = "eval" => j \in 1..i /\ t[j] = s[j]
    BY <1>3, <2>1, <2>3
  <2>. QED
    BY <1>5, <1>6, <2>2, <2>4 DEF Clean, SameEval
<1>8. short = s \/ short = t
  BY <1>2 DEF s
<1>. HIDE DEF t
<1>. QED
  BY <1>6, <1>7, <1>8
-----------------------------------------------------------------------------
(* What a run asks for, whatever it has rows of                            *)
Asked == ComputeRemainingProbes({}, IF wanted = {} THEN Default ELSE wanted)

Distinct(s) == \A i, j \in 1..Len(s) : s[i] = s[j] => i = j

LEMMA RemainingProperties ==
  ASSUME NEW done, NEW entries
  PROVE  LET R == ComputeRemainingProbes(done, entries)
         IN  /\ R \in Seq(Range(Installed)) /\ Distinct(R)
             /\ Range(R) = {p \in Range(Installed) : p \notin Full /\ p \notin done /\ Asks(entries, p)}
<1>. DEFINE I == {i \in DOMAIN Installed : Remains(Installed[i], done, entries)}
<1>1. /\ DOMAIN Installed = 1..Len(Installed) /\ Installed \in Seq(Range(Installed))
      /\ Range(Installed) = {Installed[i] : i \in 1..Len(Installed)}
      /\ \A i, j \in 1..Len(Installed) : Installed[i] = Installed[j] => i = j
  <2>1. Installed \in Seq(Range(Installed)) /\ IsInjective(Installed)
    BY GarakReportAssumption
  <2>2. DOMAIN Installed = 1..Len(Installed)
    BY <2>1, LenProperties
  <2>3. Range(Installed) = {Installed[i] : i \in 1..Len(Installed)}
    BY <2>2 DEF Range
  <2>. QED
    BY <2>1, <2>2, <2>3 DEF IsInjective
<1>2. \A p : Remains(p, done, entries) <=> p \notin Full /\ p \notin done /\ Asks(entries, p)
  BY DEF Remains, RemovePrefix, FullName
<1>3. I \subseteq 1..Len(Installed) /\ I \in SUBSET (1..Len(Installed))
  BY <1>1
<1>4. {Installed[i] : i \in I} = {p \in Range(Installed) : p \notin Full /\ p \notin done /\ Asks(entries, p)}
  BY <1>1, <1>2
<1>. HIDE DEF I
<1>5. Pick(Installed, I) \in Seq(Range(Installed))
  BY <1>1, <1>3, PickProperties
<1>6. \A i, j \in I : Installed[i] = Installed[j] => i = j
  BY <1>1, <1>3
<1>7. Range(Pick(Installed, I)) = {Installed[i] : i \in I} /\ Distinct(Pick(Installed, I))
  <2>1. Installed \in Seq(Range(Installed)) /\ I \subseteq 1..Len(Installed)
    BY <1>1, <1>3
  <2>2. /\ Range(Pick(Installed, I)) = {Installed[i] : i \in I}
        /\ (\A i, j \in I : Installed[i] = Installed[j] => i = j) =>
             \A k, l \in 1..Len(Pick(Installed, I)) :
               Pick(Installed, I)[k] = Pick(Installed, I)[l] => k = l
    BY ONLY <2>1, PickRange
  <2>. QED
    BY <1>6, <2>2 DEF Distinct
<1>. QED
  BY <1>4, <1>5, <1>7 DEF ComputeRemainingProbes, I

(* The invariant: an attempt asks for probes without rows.                 *)
GarakInv ==
  /\ rows \in Seq(Range(rows))
  /\ spec \in Seq(Range(Installed)) /\ Distinct(spec) /\ Range(spec) \subseteq Range(Asked)
  /\ doing \in {"garak", "ingest"} => Range(spec) \cap Done = {}
  /\ doing = "ingest" => Clean(report, Range(spec))
  /\ VerdictsOnce

LEMMA GarakStart == GarakInit => GarakInv
<1>. SUFFICES ASSUME GarakInit PROVE GarakInv
  OBVIOUS
<1>1. /\ rows = << >> /\ spec = << >> /\ doing = "start" /\ DOMAIN << >> = {} /\ Len(<< >>) = 0
      /\ 1..0 = {} /\ << >> \in Seq({}) /\ << >> \in Seq(Range(Installed))
  BY DEF GarakInit
<1>2. Range(<< >>) = {}
  BY DEF Range
<1>. QED
  BY <1>1, <1>2 DEF GarakInv, VerdictsOnce, Distinct

(* Rows and what is wanted stay.                                           *)
LEMMA SameVerdicts ==
  ASSUME GarakInv, UNCHANGED <<rows, wanted>>
  PROVE  /\ VerdictsOnce' /\ rows' \in Seq(Range(rows')) /\ Asked' = Asked /\ Done' = Done
BY DEF GarakInv, VerdictsOnce, Asked, Done

LEMMA RaiseStep ==
  ASSUME GarakInv, Raise, UNCHANGED <<rows, wanted>>
  PROVE  GarakInv'
<1>1. /\ spec' = << >> /\ doing' \in {"failed", "start"} /\ Len(<< >>) = 0 /\ 1..0 = {}
      /\ << >> \in Seq(Range(Installed))
  BY DEF Raise
<1>2. Range(<< >>) = {}
  BY DEF Range
<1>. QED
  BY <1>1, <1>2, SameVerdicts DEF GarakInv, Distinct

LEMMA BuildStep ==
  ASSUME GarakInv, BuildConfig
  PROVE  GarakInv'
<1>. DEFINE entries == IF wanted = {} THEN Default ELSE wanted
<1>1. spec' = ComputeRemainingProbes(Done, entries) /\ UNCHANGED <<rows, wanted, report>>
  BY DEF BuildConfig
<1>2. doing' \in {"finished", "garak"}
  BY DEF BuildConfig
<1>. HIDE DEF entries
<1>3. /\ spec' \in Seq(Range(Installed)) /\ Distinct(spec')
      /\ Range(spec') = {p \in Range(Installed) : p \notin Full /\ p \notin Done /\ Asks(entries, p)}
  BY <1>1, RemainingProperties
<1>4. Range(Asked) = {p \in Range(Installed) : p \notin Full /\ Asks(entries, p)}
  BY RemainingProperties DEF Asked, entries
<1>5. Range(spec') \subseteq Range(Asked) /\ Range(spec') \cap Done = {}
  BY <1>3, <1>4
<1>. QED
  BY <1>1, <1>2, <1>3, <1>5, SameVerdicts DEF GarakInv

LEMMA RunStep ==
  ASSUME GarakInv, RunGarak
  PROVE  GarakInv'
<1>1. CASE Raise
  BY <1>1, RaiseStep DEF RunGarak
<1>2. CASE report' \in WholeReports \cup CutReports /\ doing' = "ingest" /\ UNCHANGED spec
  <2>1. UNCHANGED <<rows, wanted>> /\ doing = "garak"
    BY DEF RunGarak
  <2>2. /\ spec \in Seq(Range(Installed)) /\ DOMAIN spec = 1..Len(spec)
        /\ Range(spec) = {spec[i] : i \in 1..Len(spec)} /\ Distinct(spec)
    BY LenProperties, RangeEquality DEF GarakInv
  <2>3. ASSUME NEW I \in SUBSET DOMAIN spec, NEW n PROVE Clean(Whole(Pick(spec, I), n), Range(spec))
    <3>1. I \subseteq 1..Len(spec) /\ I \in SUBSET (1..Len(spec))
      BY <2>2
    <3>2. Pick(spec, I) \in Seq(Range(Installed))
      BY <2>2, <3>1, PickProperties
    <3>3. \A i, j \in I : spec[i] = spec[j] => i = j
      BY <2>2, <3>1 DEF Distinct
    <3>4. Range(Pick(spec, I)) \subseteq Range(spec) /\ Distinct(Pick(spec, I))
      <4>1. Range(Pick(spec, I)) = {spec[i] : i \in I} /\ Distinct(Pick(spec, I))
        BY <2>2, <3>1, <3>3, PickRange DEF Distinct
      <4>. QED
        BY <2>2, <3>1, <4>1
    <3>5. Clean(Whole(Pick(spec, I), n), Range(Pick(spec, I)))
      BY <3>2, <3>4, WholeIsClean DEF Distinct
    <3>. QED
      BY <3>4, <3>5 DEF Clean
  <2>4. ASSUME NEW n PROVE Clean(Whole(spec, n), Range(spec))
    BY <2>2, WholeIsClean DEF Distinct
  <2>5. Clean(report', Range(spec))
    <3>1. CASE report' \in WholeReports
      BY <2>3, <3>1 DEF WholeReports
    <3>2. CASE report' \in CutReports
      BY <2>4, <3>2, CutIsClean DEF CutReports
    <3>. QED
      BY <1>2, <3>1, <3>2
  <2>. QED
    BY <1>2, <2>1, <2>5, SameVerdicts DEF GarakInv
<1>. QED
  BY <1>1, <1>2 DEF RunGarak

(* The evaluations of a report become the rows of probes without any.      *)
LEMMA IngestStep ==
  ASSUME GarakInv, IngestJsonlFile
  PROVE  GarakInv'
<1>. DEFINE evals == LinesOfKind("eval", report)
            I == {i \in DOMAIN report : report[i].kind = "eval"}
            new == [i \in DOMAIN evals |-> ParseEval(evals[i])]
            m == Len(evals)
            P == Range(spec)
<1>1. doing = "ingest" /\ UNCHANGED wanted /\ Clean(report, P)
  BY DEF IngestJsonlFile, GarakInv
<1>2. CASE Raise /\ UNCHANGED rows
  BY <1>1, <1>2, RaiseStep
<1>3. CASE rows' = rows \o new /\ doing' \in {"failed", "ingested"} /\ UNCHANGED spec
  <2>1. /\ report \in Seq(Range(report)) /\ DOMAIN report = 1..Len(report)
        /\ I \subseteq 1..Len(report) /\ I \in SUBSET (1..Len(report))
    BY <1>1, LenProperties DEF Clean
  <2>2. evals = Pick(report, I)
    BY DEF LinesOfKind
  <2>3. \A i \in I : report[i].kind = "eval" /\ report[i].probe \in P
    BY <1>1, <2>1 DEF Clean
  <2>4. \A i, j \in I :
          report[i].probe = report[j].probe /\ report[i].detector = report[j].detector => i = j
    BY <1>1, <2>1, <2>3 DEF Clean, SameEval
  <2>. HIDE DEF I, evals
  <2>5. /\ Pick(report, I) \in Seq(Range(report)) /\ Cardinality(I) \in Nat
        /\ Len(Pick(report, I)) = Cardinality(I)
        /\ \A k \in 1..Cardinality(I) : /\ Place(I, k) \in I
                                        /\ Pick(report, I)[k] = report[Place(I, k)]
        /\ \A k, l \in 1..Cardinality(I) : k < l => Place(I, k) < Place(I, l)
    BY <2>1, PickProperties
  <2>6. /\ evals \in Seq(Range(report)) /\ m \in Nat /\ DOMAIN evals = 1..m
        /\ \A k \in 1..m : evals[k].probe \in P
    BY <2>2, <2>3, <2>5, LenProperties
  <2>7. ASSUME NEW k \in 1..m, NEW l \in 1..m,
               evals[k].probe = evals[l].probe, evals[k].detector = evals[l].detector
        PROVE  k = l
    <3>1. Place(I, k) = Place(I, l) /\ Place(I, k) \in Nat
      <4>1. \A i \in I : i \in Nat
        <5>1. Len(report) \in Nat
          BY <2>1, LenProperties
        <5>. QED
          BY <2>1, <5>1
      <4>. QED
        BY <2>2, <2>4, <2>5, <2>7, <4>1
    <3>2. ~(k < l) /\ ~(l < k)
      BY <2>2, <2>5, <3>1
    <3>. QED
      BY <2>6, <3>2
  <2>8. /\ new \in Seq(Range(new)) /\ Len(new) = m
        /\ \A k \in 1..m : new[k].probe = evals[k].probe /\ new[k].detector = evals[k].detector
    <3>1. \A k \in 1..m : /\ new[k].probe = evals[k].probe
                          /\ new[k].detector = evals[k].detector
      BY <2>6 DEF ParseEval
    <3>2. new \in [1..m -> Range(new)]
      BY <2>6 DEF Range
    <3>. HIDE DEF new
    <3>3. new \in Seq(Range(new)) /\ Len(new) = m
      BY <2>6, <3>2
    <3>. QED
      BY <3>1, <3>3
  <2>. HIDE DEF new, m
  <2>. DEFINE S == Range(rows) \cup Range(new)
              n == Len(rows)
              all == rows \o new
  <2>9. rows \in Seq(S) /\ new \in Seq(S) /\ rows \in Seq(Range(rows))
    BY <2>8, SeqMonotonic DEF GarakInv
  <2>. HIDE DEF S
  <2>10. /\ all \in Seq(S) /\ Len(all) = n + m /\ n \in Nat /\ DOMAIN all = 1..(n + m)
         /\ DOMAIN rows = 1..n
         /\ \A i \in 1..(n + m) : all[i] = IF i <= n THEN rows[i] ELSE new[i - n]
    <3>1. /\ all \in Seq(S) /\ Len(all) = Len(rows) + Len(new)
          /\ \A i \in 1..(Len(rows) + Len(new)) :
               all[i] = IF i <= Len(rows) THEN rows[i] ELSE new[i - Len(rows)]
      BY <2>9, ConcatProperties
    <3>. QED
      BY <2>8, <2>9, <3>1, LenProperties
  <2>. HIDE DEF all, n
  <2>11. ASSUME NEW i \in 1..(n + m)
         PROVE  \/ i \in 1..n /\ all[i] = rows[i]
                \/ /\ i - n \in 1..m /\ all[i] = new[i - n]
                   /\ all[i].probe = evals[i - n].probe /\ all[i].detector = evals[i - n].detector
    <3>1. i \in 1..n \/ i - n \in 1..m
      BY <2>6, <2>10 DEF m
    <3>2. i \in 1..n => i <= n
      BY <2>10
    <3>3. i - n \in 1..m => ~(i <= n)
      BY <2>6, <2>10 DEF m
    <3>. QED
      BY <2>8, <2>10, <3>1, <3>2, <3>3
  <2>12. \A i \in 1..n : rows[i].probe \notin P /\ rows[i].probe \in Range(Asked)
    <3>1. P \cap Done = {} /\ VerdictsOnce
      BY <1>1 DEF GarakInv
    <3>. QED
      BY <2>10, <3>1 DEF Done, VerdictsOnce, Asked
  <2>13. ASSUME NEW i \in 1..(n + m), NEW j \in 1..(n + m),
                all[i].probe = all[j].probe, all[i].detector = all[j].detector
         PROVE  i = j
    <3>1. CASE i \in 1..n /\ j \in 1..n
      BY <2>10, <2>11, <2>13, <3>1 DEF GarakInv, VerdictsOnce
    <3>2. CASE i \notin 1..n /\ j \notin 1..n
      <4>1. /\ i - n \in 1..m /\ j - n \in 1..m
            /\ evals[i - n].probe = evals[j - n].probe
            /\ evals[i - n].detector = evals[j - n].detector
        BY <2>11, <2>13, <3>2
      <4>2. i - n = j - n
        BY <2>7, <4>1
      <4>. QED
        BY <2>6, <2>10, <4>2 DEF m
    <3>3. CASE i \in 1..n /\ j \notin 1..n
      <4>1. /\ j - n \in 1..m
            /\ all[j].probe = evals[j - n].probe
        BY <2>11, <3>3
      <4>2. evals[j - n].probe \in P
        BY <2>6, <4>1
      <4>3. all[i] = rows[i]
        <5>1. i <= n
          BY <2>10, <3>3
        <5>. QED
          BY <2>10, <5>1
      <4>4. rows[i].probe \notin P
        BY <2>12, <3>3
      <4>. QED
        BY <2>13, <4>1, <4>2, <4>3, <4>4
    <3>4. CASE i \notin 1..n /\ j \in 1..n
      <4>1. /\ i - n \in 1..m
            /\ all[i].probe = evals[i - n].probe
        BY <2>11, <3>4
      <4>2. evals[i - n].probe \in P
        BY <2>6, <4>1
      <4>3. all[j] = rows[j]
        <5>1. j <= n
          BY <2>10, <3>4
        <5>. QED
          BY <2>10, <5>1
      <4>4. rows[j].probe \notin P
        BY <2>12, <3>4
      <4>. QED
        BY <2>13, <4>1, <4>2, <4>3, <4>4
    <3>. QED
      BY <3>1, <3>2, <3>3, <3>4
  <2>14. \A i \in 1..(n + m) : all[i].probe \in Range(Asked)
    <3>1. P \subseteq Range(Asked)
      BY DEF GarakInv
    <3>. QED
      BY <2>6, <2>11, <2>12, <3>1
  <2>15. rows' = all /\ Asked' = Asked
    BY <1>1, <1>3 DEF all, Asked
  <2>16. VerdictsOnce'
    BY <2>10, <2>13, <2>14, <2>15 DEF VerdictsOnce, Asked
  <2>17. rows' \in Seq(Range(rows'))
    BY <2>10, <2>15, SeqOfRange
  <2>. QED
    BY <1>3, <2>15, <2>16, <2>17 DEF GarakInv
<1>. QED
  BY <1>2, <1>3 DEF IngestJsonlFile

LEMMA GarakStep == GarakInv /\ [GarakNext]_scan => GarakInv'
<1>. SUFFICES ASSUME GarakInv, [GarakNext]_scan PROVE GarakInv'
  OBVIOUS
<1>1. ASSUME Finish PROVE GarakInv'
  <2>1. CASE Raise
    BY <1>1, <2>1, RaiseStep DEF Finish
  <2>2. CASE doing' = "finished" /\ UNCHANGED <<spec, report>>
    BY <1>1, <2>2, SameVerdicts DEF Finish, GarakInv
  <2>. QED
    BY <1>1, <2>1, <2>2 DEF Finish
<1>2. ASSUME UNCHANGED scan PROVE GarakInv'
  BY <1>2, SameVerdicts DEF scan, GarakInv
<1>. QED
  BY <1>1, <1>2, BuildStep, RunStep, IngestStep DEF GarakNext

(* However attempts fail and reports are cut, a detector's verdict on a    *)
(* probe is in the rows of a run once, and only if the run asks for it     *)
(* (compute_remaining_probes, ingest_jsonl_file).                          *)
THEOREM VerdictsCountOnce == GarakSpec => []VerdictsOnce
<1>1. GarakInv => VerdictsOnce
  BY DEF GarakInv
<1>. QED
  BY <1>1, GarakStart, GarakStep, PTL DEF GarakSpec
-----------------------------------------------------------------------------
(* Advisories and SYN items                                                *)

LEMMA DuplicatesBothWays ==
  ASSUME NEW a, NEW b, IsDuplicate(a, b)
  PROVE  IsDuplicate(b, a)
<1>1. ASSUME NEW A, NEW B, NEW k PROVE Overlap(A, B, k) = Overlap(B, A, k)
  <2>1. A \cap B = B \cap A /\ A \cup B = B \cup A
    OBVIOUS
  <2>. QED
    BY <2>1 DEF Overlap
<1>. QED
  BY <1>1 DEF IsDuplicate

-----------------------------------------------------------------------------
(* What is left of the first n of the ranked advisories.                   *)

Copy(a, k) == k.site # a.site /\ IsDuplicate(a, k)

KeptOf(K, ranked, n) ==
  /\ \A k \in 1..Len(K) : \E p \in 1..n : K[k] = ranked[p]
  /\ \A p \in 1..n :
       \/ \E k \in 1..Len(K) : K[k] = ranked[p]
       \/ \E k \in 1..Len(K), q \in 1..(p - 1) : K[k] = ranked[q] /\ Copy(ranked[p], K[k])
  /\ \A k, l \in 1..Len(K) : k < l => ~Copy(K[l], K[k])

LEMMA KeptStays ==
  ASSUME NEW S, NEW ranked \in Seq(S), NEW n \in 0..(Len(ranked) - 1), NEW K \in Seq(S),
         KeptOf(K, ranked, n), HasCopy(K, ranked[n + 1])
  PROVE  KeptOf(K, ranked, n + 1)
<1>1. \A p \in 1..n : p \in 1..(n + 1)
  OBVIOUS
<1>2. \A p \in 1..(n + 1) : p \in 1..n \/ p = n + 1
  OBVIOUS
<1>3. PICK k \in 1..Len(K) : Copy(ranked[n + 1], K[k])
  BY LenProperties DEF HasCopy, Range, Copy
<1>4. PICK q \in 1..n : K[k] = ranked[q]
  BY <1>3 DEF KeptOf
<1>5. q \in 1..((n + 1) - 1)
  BY <1>4
<1>. QED
  BY <1>1, <1>2, <1>3, <1>4, <1>5 DEF KeptOf

LEMMA KeptGrows ==
  ASSUME NEW S, NEW ranked \in Seq(S), NEW n \in 0..(Len(ranked) - 1), NEW K \in Seq(S),
         KeptOf(K, ranked, n), ~HasCopy(K, ranked[n + 1])
  PROVE  KeptOf(Append(K, ranked[n + 1]), ranked, n + 1)
<1>. DEFINE a == ranked[n + 1]
            L == Append(K, a)
            m == Len(K)
<1>1. m \in Nat /\ n + 1 \in 1..Len(ranked) /\ a \in S
  BY LenProperties, ElementOfSeq
<1>2. Len(L) = m + 1 /\ L[m + 1] = a /\ \A k \in 1..m : L[k] = K[k]
  BY <1>1, AppendProperties
<1>3. \A p \in 1..(n + 1) : p \in 1..n \/ p = n + 1
  OBVIOUS
<1>4. \A p \in 1..n : p \in 1..(n + 1)
  OBVIOUS
<1>5. \A k \in 1..(m + 1) : k \in 1..m \/ k = m + 1
  BY <1>1
<1>6. \A k \in 1..m : k \in 1..(m + 1) /\ m + 1 \in 1..(m + 1)
  BY <1>1
<1>7. \A k \in 1..m : ~Copy(a, K[k])
  BY LenProperties DEF HasCopy, Range, Copy
<1>8. m + 1 \in 1..(m + 1) /\ n + 1 \in 1..(n + 1)
  BY <1>1
<1>. HIDE DEF a, L, m
<1>9. ASSUME NEW k \in 1..(m + 1) PROVE \E p \in 1..(n + 1) : L[k] = ranked[p]
  <2>1. CASE k \in 1..m
    <3>1. PICK p \in 1..n : K[k] = ranked[p]
      BY <2>1 DEF KeptOf, m
    <3>. QED
      BY <2>1, <3>1, <1>2, <1>4
  <2>2. CASE k = m + 1
    BY <2>2, <1>2, <1>8 DEF a
  <2>. QED
    BY <1>5, <2>1, <2>2
<1>10. ASSUME NEW p \in 1..(n + 1)
       PROVE  \/ \E k \in 1..(m + 1) : L[k] = ranked[p]
              \/ \E k \in 1..(m + 1), q \in 1..(p - 1) : L[k] = ranked[q] /\ Copy(ranked[p], L[k])
  <2>1. CASE p \in 1..n
    <3>1. \/ \E k \in 1..m : K[k] = ranked[p]
          \/ \E k \in 1..m, q \in 1..(p - 1) : K[k] = ranked[q] /\ Copy(ranked[p], K[k])
      BY <2>1 DEF KeptOf, m
    <3>2. \A k \in 1..m : k \in 1..(m + 1) /\ L[k] = K[k]
      BY <1>2, <1>6
    <3>. QED
      BY ONLY <3>1, <3>2
  <2>2. CASE p = n + 1
    BY <2>2, <1>2, <1>8 DEF a
  <2>. QED
    BY <1>3, <2>1, <2>2
<1>11. ASSUME NEW k \in 1..(m + 1), NEW l \in 1..(m + 1), k < l PROVE ~Copy(L[l], L[k])
  <2>1. k \in 1..m
    BY <1>1, <1>11
  <2>2. CASE l \in 1..m
    BY <2>1, <2>2, <1>2, <1>11 DEF KeptOf, m
  <2>3. CASE l = m + 1
    BY <2>1, <2>3, <1>2, <1>7
  <2>. QED
    BY <1>5, <2>2, <2>3
<1>. QED
  BY <1>2, <1>9, <1>10, <1>11 DEF KeptOf, L, a

LEMMA KeepFirstProperties ==
  ASSUME NEW S, NEW ranked \in Seq(S)
  PROVE  KeepFirst(ranked) \in Seq(S) /\ KeptOf(KeepFirst(ranked), ranked, Len(ranked))
<1>. DEFINE n == Len(ranked)
            V == Seq(S)
            Next(i, K) == IF HasCopy(K, ranked[i]) THEN K ELSE Append(K, ranked[i])
            g == [i \in 1..n |-> [K \in V |-> Next(i, K)]]
            Keeps(f) == f = [i \in 0..n |-> IF i = 0 THEN << >>
                                             ELSE IF HasCopy(f[i - 1], ranked[i]) THEN f[i - 1]
                                             ELSE Append(f[i - 1], ranked[i])]
            keep == CHOOSE f : Keeps(f)
            e == << >>
<1>1. n \in Nat /\ e \in V /\ \A i \in 1..n : ranked[i] \in S
  BY LenProperties, ElementOfSeq
<1>2. g \in [1..n -> [V -> V]]
  <2>1. \A i \in 1..n : \A K \in V : Next(i, K) \in V
    BY <1>1, AppendProperties
  <2>. QED
    BY <2>1
<1>. HIDE DEF V, n, g, e
<1>3. PICK h : Iterates(h, n, V, e, g)
  BY ONLY <1>1, <1>2, Recursion
<1>4. ASSUME NEW i \in 1..n PROVE h[i] = Next(i, h[i - 1])
  <2>1. i - 1 \in 0..n
    BY <1>1
  <2>2. h[i - 1] \in V /\ h[i] = g[i][h[i - 1]]
    BY <1>3, <2>1 DEF Iterates
  <2>. QED
    BY <2>2 DEF g
<1>. DEFINE k == [i \in 0..n |-> h[i]]
<1>5. Keeps(k)
  <2>1. \A i \in 0..n : k[i] = h[i] /\ (i # 0 => i \in 1..n /\ i - 1 \in 0..n /\ k[i - 1] = h[i - 1])
    BY <1>1
  <2>2. h[0] = << >>
    BY <1>3 DEF Iterates, e
  <2>3. \A i \in 0..n : k[i] = IF i = 0 THEN << >> ELSE Next(i, k[i - 1])
    BY <1>4, <2>1, <2>2
  <2>. QED
    BY <2>3
<1>6. Keeps(keep)
  <2>. HIDE DEF k, Keeps
  <2>. QED
    BY <1>5
<1>7. KeepFirst(ranked) = keep[n]
  BY DEF KeepFirst, n
<1>. DEFINE f == keep
<1>. HIDE DEF f, keep
<1>8. f[0] = << >> /\ \A i \in 0..n : i # 0 => f[i] = Next(i, f[i - 1])
  <2>1. \A i \in 0..n : f[i] = IF i = 0 THEN << >> ELSE Next(i, f[i - 1])
    BY <1>6 DEF f
  <2>2. 0 \in 0..n
    BY <1>1
  <2>. QED
    BY <2>1, <2>2
<1>. DEFINE D == {i \in 0..n : f[i] \in Seq(S) /\ KeptOf(f[i], ranked, i)}
<1>9. ASSUME NEW i \in 0..(n - 1), i \in D PROVE i + 1 \in D
  <2>1. i + 1 \in 0..n /\ i + 1 # 0 /\ (i + 1) - 1 = i /\ i \in 0..(Len(ranked) - 1)
        /\ i + 1 \in 1..n
    BY <1>1 DEF n
  <2>2. f[i] \in Seq(S) /\ KeptOf(f[i], ranked, i)
    BY <1>9
  <2>3. f[i + 1] = Next(i + 1, f[i])
    BY <1>8, <2>1
  <2>4. CASE HasCopy(f[i], ranked[i + 1])
    <3>1. f[i + 1] = f[i]
      BY <2>3, <2>4
    <3>2. KeptOf(f[i], ranked, i + 1)
      BY <2>1, <2>2, <2>4, KeptStays
    <3>. QED
      BY <2>1, <2>2, <3>1, <3>2
  <2>5. CASE ~HasCopy(f[i], ranked[i + 1])
    <3>1. f[i + 1] = Append(f[i], ranked[i + 1])
      BY <2>3, <2>5
    <3>2. KeptOf(Append(f[i], ranked[i + 1]), ranked, i + 1)
      BY <2>1, <2>2, <2>5, KeptGrows
    <3>3. Append(f[i], ranked[i + 1]) \in Seq(S)
      BY <1>1, <2>1, <2>2, AppendProperties
    <3>. QED
      BY <2>1, <3>1, <3>2, <3>3
  <2>. QED
    BY <2>4, <2>5
<1>10. 0 \in D
  <2>1. << >> \in Seq(S) /\ Len(<< >>) = 0 /\ 1..0 = {}
    OBVIOUS
  <2>2. KeptOf(<< >>, ranked, 0)
    BY <2>1 DEF KeptOf
  <2>3. f[0] \in Seq(S) /\ KeptOf(f[0], ranked, 0)
    BY <1>8, <2>1, <2>2
  <2>4. 0 \in 0..n
    BY <1>1
  <2>. QED
    BY <2>3, <2>4
<1>. HIDE DEF D
<1>11. n \in D
  <2>1. 0..n \subseteq D
    BY <1>1, <1>9, <1>10, UptoInduction
  <2>. QED
    BY <1>1, <2>1
<1>. QED
  BY <1>7, <1>11 DEF D, f, n
-----------------------------------------------------------------------------
(* The advisories in the order of their sources                            *)

LEMMA SitesAndRanks ==
  ASSUME NEW i \in DOMAIN Priority
  PROVE  Priority[i] \in Range(Priority) /\ Rank(Priority[i]) = i
<1>1. \A j \in DOMAIN Priority : Priority[j] = Priority[i] => j = i
  BY SourcesAssumption DEF IsInjective
<1>2. Priority[i] \in Range(Priority)
  BY DEF Range
<1>. QED
  BY <1>1, <1>2 DEF Rank

LEMMA RankedProperties ==
  ASSUME NEW S, NEW advisories \in Seq(S),
         \A a \in Range(advisories) : a.site \in Range(Priority)
  PROVE  LET R == Ranked(advisories)
         IN  /\ R \in Seq(S) /\ Range(R) = Range(advisories)
             /\ \A k, l \in 1..Len(R) : k < l => Rank(R[k].site) <= Rank(R[l].site)
             /\ \A k \in 1..Len(R) : Rank(R[k].site) \in Nat
<1>. DEFINE n == Len(Priority)
            spot(i) == {j \in DOMAIN advisories : advisories[j].site = Priority[i]}
            ss == [i \in DOMAIN Priority |-> Pick(advisories, spot(i))]
            R == Ranked(advisories)
<1>1. /\ n \in Nat /\ DOMAIN Priority = 1..n /\ Range(Priority) = {Priority[i] : i \in 1..n}
      /\ DOMAIN advisories = 1..Len(advisories) /\ Len(advisories) \in Nat
      /\ Range(advisories) = {advisories[j] : j \in 1..Len(advisories)}
  BY SourcesAssumption, LenProperties, RangeEquality
<1>2. ASSUME NEW i \in 1..n
      PROVE  /\ Pick(advisories, spot(i)) \in Seq(S)
             /\ Len(Pick(advisories, spot(i))) \in Nat
             /\ \A k \in 1..Len(Pick(advisories, spot(i))) :
                  /\ Pick(advisories, spot(i))[k].site = Priority[i]
                  /\ Pick(advisories, spot(i))[k] \in Range(advisories)
             /\ \A j \in spot(i) : \E k \in 1..Len(Pick(advisories, spot(i))) :
                  Pick(advisories, spot(i))[k] = advisories[j]
  <2>. DEFINE I == spot(i)
  <2>1. I \in SUBSET (1..Len(advisories))
    BY <1>1
  <2>2. \A j \in I : advisories[j].site = Priority[i] /\ advisories[j] \in Range(advisories)
    BY <1>1
  <2>. HIDE DEF I
  <2>3. /\ Cardinality(I) \in Nat
        /\ Pick(advisories, I) \in Seq(S) /\ Len(Pick(advisories, I)) = Cardinality(I)
        /\ \A k \in 1..Cardinality(I) : /\ Place(I, k) \in I
                                        /\ Pick(advisories, I)[k] = advisories[Place(I, k)]
        /\ \A j \in I : \E k \in 1..Cardinality(I) : Place(I, k) = j
    BY <2>1, PickProperties
  <2>4. \A k \in 1..Cardinality(I) : /\ Pick(advisories, I)[k].site = Priority[i]
                                     /\ Pick(advisories, I)[k] \in Range(advisories)
    BY <2>2, <2>3
  <2>5. \A j \in I : \E k \in 1..Cardinality(I) : Pick(advisories, I)[k] = advisories[j]
    BY <2>3
  <2>. QED
    BY <2>3, <2>4, <2>5 DEF I
<1>3. ss \in Seq(Seq(S)) /\ Len(ss) = n /\ \A i \in 1..n : ss[i] = Pick(advisories, spot(i))
  <2>1. ss \in [1..n -> Seq(S)]
    BY <1>1, <1>2
  <2>. QED
    BY <1>1, <2>1
<1>4. R = FlattenSeq(ss)
  BY DEF Ranked
<1>. HIDE DEF ss, R
<1>5. ASSUME NEW i \in 1..n
      PROVE  /\ \A k \in 1..Len(ss[i]) : ss[i][k].site = Priority[i] /\ ss[i][k] \in Range(advisories)
             /\ \A j \in spot(i) : \E k \in 1..Len(ss[i]) : ss[i][k] = advisories[j]
  <2>. HIDE DEF spot
  <2>1. ss[i] = Pick(advisories, spot(i))
    BY <1>3
  <2>. QED
    BY <1>2, <2>1
<1>6. R \in Seq(S) /\ Joins(R, ss, n)
  BY <1>3, <1>4, FlattenProperties
<1>7. PICK q, r : JoinsBy(R, ss, n, q, r)
  BY <1>6 DEF Joins
<1>8. \A k \in 1..Len(R) : /\ q[k] \in 1..n /\ R[k].site = Priority[q[k]]
                           /\ R[k] \in Range(advisories)
  BY <1>5, <1>7 DEF JoinsBy
<1>9. \A k \in 1..Len(R) : Rank(R[k].site) = q[k]
  BY <1>1, <1>8, SitesAndRanks
<1>10. \A k, l \in 1..Len(R) : k < l => q[k] <= q[l]
  <2>1. \A k, l \in 1..Len(R) : k < l => q[k] < q[l] \/ q[k] = q[l]
    BY <1>7 DEF JoinsBy
  <2>. QED
    BY <1>1, <1>8, <2>1
<1>11. Range(R) = Range(advisories)
  <2>1. Range(R) = {R[k] : k \in 1..Len(R)}
    BY <1>6, RangeEquality
  <2>2. ASSUME NEW j \in 1..Len(advisories) PROVE \E k \in 1..Len(R) : R[k] = advisories[j]
    <3>1. advisories[j].site \in Range(Priority)
      BY <1>1
    <3>2. PICK i \in 1..n : advisories[j].site = Priority[i]
      BY <1>1, <3>1
    <3>3. PICK m \in 1..Len(ss[i]) : ss[i][m] = advisories[j]
      BY <1>1, <1>5, <3>2
    <3>4. PICK k \in 1..Len(R) : q[k] = i /\ r[k] = m
      BY <1>7, <3>3 DEF JoinsBy
    <3>5. R[k] = ss[i][m]
      BY <1>7, <3>4 DEF JoinsBy
    <3>. QED
      BY <3>3, <3>5
  <2>. QED
    BY <1>1, <1>8, <2>1, <2>2
<1>12. \A k, l \in 1..Len(R) : k < l => Rank(R[k].site) <= Rank(R[l].site)
  BY <1>9, <1>10
<1>13. \A k \in 1..Len(R) : Rank(R[k].site) \in Nat
  BY <1>1, <1>8, <1>9
<1>. QED
  BY <1>6, <1>11, <1>12, <1>13 DEF R
LEMMA DedupeProperties ==
  ASSUME NEW S, NEW advisories \in Seq(S),
         \A a \in Range(advisories) : a.site \in Range(Priority)
  PROVE  LET K == DedupeAdvisories(advisories)
         IN  /\ K \in Seq(S) /\ Range(K) \subseteq Range(advisories)
             /\ \A a, b \in Range(K) : a.site # b.site => ~IsDuplicate(a, b)
             /\ \A d \in Range(advisories) \ Range(K) : \E k \in Range(K) :
                  IsDuplicate(d, k) /\ Rank(k.site) < Rank(d.site)
<1>. DEFINE R == Ranked(advisories)
            K == DedupeAdvisories(advisories)
            n == Len(R)
<1>1. /\ R \in Seq(S) /\ Range(R) = Range(advisories)
      /\ \A k, l \in 1..n : k < l => Rank(R[k].site) <= Rank(R[l].site)
      /\ \A k \in 1..n : Rank(R[k].site) \in Nat
  BY RankedProperties
<1>2. K \in Seq(S) /\ KeptOf(K, R, n)
  BY <1>1, KeepFirstProperties DEF DedupeAdvisories
<1>. HIDE DEF R, K
<1>3. /\ Range(K) = {K[k] : k \in 1..Len(K)} /\ Len(K) \in Nat
      /\ Range(R) = {R[k] : k \in 1..n} /\ n \in Nat
  BY <1>1, <1>2, RangeEquality, LenProperties
<1>4. Range(K) \subseteq Range(R)
  BY <1>2, <1>3 DEF KeptOf
<1>5. ASSUME NEW a \in Range(K), NEW b \in Range(K), a.site # b.site, IsDuplicate(a, b)
      PROVE  FALSE
  <2>1. PICK k \in 1..Len(K), l \in 1..Len(K) : a = K[k] /\ b = K[l]
    BY <1>3
  <2>2. k < l \/ l < k
    BY <1>3, <1>5, <2>1
  <2>3. IsDuplicate(b, a)
    BY <1>5, DuplicatesBothWays
  <2>4. Copy(K[k], K[l]) /\ Copy(K[l], K[k])
    BY <1>5, <2>1, <2>3 DEF Copy
  <2>. QED
    BY <1>2, <2>2, <2>4 DEF KeptOf
<1>6. ASSUME NEW d \in Range(R), d \notin Range(K)
      PROVE  \E k \in Range(K) : IsDuplicate(d, k) /\ Rank(k.site) < Rank(d.site)
  <2>1. PICK p \in 1..n : d = R[p]
    BY <1>3
  <2>2. PICK k \in 1..Len(K), q \in 1..(p - 1) : K[k] = R[q] /\ Copy(R[p], K[k])
    BY <1>2, <1>3, <1>6, <2>1 DEF KeptOf
  <2>3. q \in 1..n /\ q < p
    BY <1>3
  <2>4. Rank(R[q].site) <= Rank(d.site) /\ Rank(R[q].site) \in Nat /\ Rank(d.site) \in Nat
    BY <1>1, <2>1, <2>3
  <2>5. Rank(R[q].site) # Rank(d.site)
    <3>1. R[q] \in Range(advisories) /\ d \in Range(advisories)
      BY <1>1, <1>3, <2>3
    <3>2. \A a \in Range(advisories) : Priority[Rank(a.site)] = a.site
      BY SitesAndRanks DEF Range
    <3>3. R[q].site # d.site
      BY <2>1, <2>2 DEF Copy
    <3>. QED
      BY <3>1, <3>2, <3>3
  <2>6. K[k] \in Range(K) /\ IsDuplicate(d, K[k])
    BY <1>3, <2>1, <2>2 DEF Copy
  <2>7. Rank(R[q].site) < Rank(d.site)
    BY ONLY <2>4, <2>5
  <2>8. K[k].site = R[q].site
    BY <2>2
  <2>. QED
    BY <2>6, <2>7, <2>8
<1>. QED
  BY <1>1, <1>2, <1>4, <1>5, <1>6 DEF K
-----------------------------------------------------------------------------
(* Items that show none of what they ask for                               *)

Withheld(row) ==
  /\ ~Shows(row.input, row.label.techniques \cup row.label.actor)
  /\ (\A x \in row.label.actor : Resolved(x, row.index) = x)
       => ~Shows(row.input, AliasesOf(row))
WithheldItem(item) == item[1][1] = "syn" => Withheld(item[2])
WithheldRows(stored) ==
  /\ stored = [key \in DOMAIN stored |-> stored[key]]
  /\ \A key \in DOMAIN stored : key[1] = "syn" => Withheld(stored[key])

LEMMA UpsertWithheld ==
  ASSUME NEW Keys, NEW R, NEW K, K \subseteq Keys, NEW stored \in [K -> R], WithheldRows(stored),
         NEW item, item[1] \in Keys, item[2] \in R, WithheldItem(item)
  PROVE  Upsert(stored, item) \in UNION {[L -> R] : L \in SUBSET Keys} /\ WithheldRows(Upsert(stored, item))
<1>. DEFINE key == item[1]
            put == [k \in DOMAIN stored \cup {key} |-> IF k = key THEN item[2] ELSE stored[k]]
<1>1. DOMAIN stored = K
  OBVIOUS
<1>2. put \in [K \cup {key} -> R] /\ K \cup {key} \subseteq Keys
  BY <1>1
<1>3. WithheldRows(put)
  BY DEF WithheldRows, WithheldItem
<1>4. Upsert(stored, item) = stored \/ Upsert(stored, item) = put
  BY DEF Upsert
<1>. HIDE DEF put, key
<1>5. K \cup {key} \in SUBSET Keys
  BY <1>2
<1>6. put \in UNION {[L -> R] : L \in SUBSET Keys}
  BY <1>2, <1>5
<1>. QED
  BY <1>3, <1>4, <1>6

LEMMA IngestWithheld ==
  ASSUME WithheldRows(corpus), NEW S, NEW new \in Seq(S), \A item \in S : WithheldItem(item)
  PROVE  WithheldRows(IngestItems(new))
<1>. DEFINE n == Len(new)
            Keys == DOMAIN corpus \cup {new[i][1] : i \in 1..n}
            R == {corpus[key] : key \in DOMAIN corpus} \cup {new[i][2] : i \in 1..n}
            V == {stored \in UNION {[K -> R] : K \in SUBSET Keys} : WithheldRows(stored)}
            g == [i \in 1..n |-> [stored \in V |-> Upsert(stored, new[i])]]
            Stores(f) == f = [i \in 0..n |-> IF i = 0 THEN corpus ELSE Upsert(f[i - 1], new[i])]
            store == CHOOSE f : Stores(f)
<1>1. n \in Nat /\ \A i \in 1..n : WithheldItem(new[i])
  BY LenProperties, ElementOfSeq
<1>2. corpus \in V
  <2>1. corpus \in [DOMAIN corpus -> R]
    BY DEF WithheldRows
  <2>. QED
    BY <2>1
<1>3. ASSUME NEW i \in 1..n, NEW stored \in V PROVE Upsert(stored, new[i]) \in V
  <2>1. new[i][1] \in Keys /\ new[i][2] \in R
    OBVIOUS
  <2>2. PICK K \in SUBSET Keys : stored \in [K -> R]
    BY <1>3
  <2>. HIDE DEF Keys, R
  <2>3. K \subseteq Keys /\ WithheldRows(stored) /\ WithheldItem(new[i])
    BY <1>1, <1>3
  <2>4. /\ Upsert(stored, new[i]) \in UNION {[L -> R] : L \in SUBSET Keys}
        /\ WithheldRows(Upsert(stored, new[i]))
    BY ONLY <2>1, <2>2, <2>3, UpsertWithheld
  <2>. QED
    BY <2>4
<1>4. g \in [1..n -> [V -> V]]
  <2>. HIDE DEF V
  <2>. QED
    BY <1>3
<1>. HIDE DEF V, n, g
<1>5. PICK h : Iterates(h, n, V, corpus, g)
  BY ONLY <1>1, <1>2, <1>4, Recursion
<1>. DEFINE k == [i \in 0..n |-> h[i]]
<1>6. Stores(k)
  <2>1. \A i \in 0..n : k[i] = h[i] /\ (i # 0 => i \in 1..n /\ i - 1 \in 0..n /\ k[i - 1] = h[i - 1])
    BY <1>1
  <2>2. h[0] = corpus
    BY <1>5 DEF Iterates
  <2>3. ASSUME NEW i \in 1..n PROVE h[i] = Upsert(h[i - 1], new[i])
    <3>1. i - 1 \in 0..n
      BY <1>1
    <3>2. h[i - 1] \in V /\ h[i] = g[i][h[i - 1]]
      BY <1>5, <3>1 DEF Iterates
    <3>. QED
      BY <3>2 DEF g
  <2>4. \A i \in 0..n : k[i] = IF i = 0 THEN corpus ELSE Upsert(k[i - 1], new[i])
    BY <2>1, <2>2, <2>3
  <2>. QED
    BY <2>4
<1>7. Stores(store)
  <2>. HIDE DEF k, Stores
  <2>. QED
    BY <1>6
<1>8. IngestItems(new) = store[n]
  BY DEF IngestItems, n
<1>. DEFINE f == store
<1>. HIDE DEF f, store
<1>9. f[0] = corpus /\ \A i \in 0..n : i # 0 => f[i] = Upsert(f[i - 1], new[i])
  <2>1. \A i \in 0..n : f[i] = IF i = 0 THEN corpus ELSE Upsert(f[i - 1], new[i])
    BY <1>7 DEF f
  <2>2. 0 \in 0..n
    BY <1>1
  <2>. QED
    BY <2>1, <2>2
<1>. DEFINE D == {i \in 0..n : f[i] \in V}
<1>10. ASSUME NEW i \in 0..(n - 1), i \in D PROVE i + 1 \in D
  <2>1. i + 1 \in 0..n /\ i + 1 # 0 /\ (i + 1) - 1 = i /\ i + 1 \in 1..n
    BY <1>1
  <2>2. f[i + 1] = Upsert(f[i], new[i + 1])
    BY <1>9, <2>1
  <2>. QED
    BY <1>3, <1>10, <2>1, <2>2
<1>11. 0 \in D
  BY <1>1, <1>2, <1>9
<1>. HIDE DEF D
<1>12. n \in D
  <2>1. 0..n \subseteq D
    BY <1>1, <1>10, <1>11, UptoInduction
  <2>. QED
    BY <1>1, <2>1
<1>. QED
  BY <1>8, <1>12 DEF D, V, f
(* A masked text shows none of the terms.                                  *)
LEMMA MaskedText ==
  ASSUME NEW text, NEW terms, "masked" \notin terms
  PROVE  ~Shows(MaskConclusions(text, terms), terms)
<1>. DEFINE masked == MaskConclusions(text, terms)
<1>1. DOMAIN masked = DOMAIN text
  BY DEF MaskConclusions
<1>2. ASSUME NEW i \in DOMAIN text PROVE masked[i].value \notin terms
  <2>1. masked[i] = Mask \/ (masked[i] = text[i] /\ text[i].value \notin terms)
    BY DEF MaskConclusions
  <2>2. Mask.value = "masked"
    BY DEF Mask
  <2>. QED
    BY <2>1, <2>2
<1>. HIDE DEF masked
<1>3. ~Shows(masked, terms)
  BY <1>1, <1>2 DEF Shows, Range
<1>. QED
  BY <1>3 DEF masked

(* The item of an advisory, if it becomes one                              *)
SynItem(a, fuzzy, index) ==
  LET terms == ActorTerms(a.actor, index)
  IN  Item("syn", a, Row(a.page, MaskConclusions(ReconstructInputs(a), terms),
                         BuildClaimSet(a, fuzzy), index))

LEMMA SynItemWithheld ==
  ASSUME NEW a, NEW fuzzy, NEW index
  PROVE  \/ BuildSynItem(a, fuzzy, index) = << >>
         \/ /\ BuildSynItem(a, fuzzy, index) = <<SynItem(a, fuzzy, index)>>
            /\ WithheldItem(SynItem(a, fuzzy, index))
<1>. DEFINE terms == ActorTerms(a.actor, index)
            inputs == MaskConclusions(ReconstructInputs(a), terms)
            claims == BuildClaimSet(a, fuzzy)
            item == Item("syn", a, Row(a.page, inputs, claims, index))
<1>1. "masked" \notin terms
  BY SourcesAssumption DEF ActorTerms
<1>2. ASSUME \A x \in a.actor : Resolved(x, index) = x
      PROVE  {n \in DOMAIN index : index[n] \in a.actor} \ Short \subseteq terms
  <2>1. {Resolved(x, index) : x \in a.actor} = a.actor
    BY <1>2
  <2>. QED
    BY <2>1 DEF ActorTerms
<1>. HIDE DEF terms
<1>3. ~Shows(inputs, terms)
  BY <1>1, MaskedText
<1>4. claims.actor = a.actor
  BY DEF BuildClaimSet
<1>. HIDE DEF inputs, claims
<1>5. BuildSynItem(a, fuzzy, index) # << >> =>
        ~Leaks(inputs, claims) /\ BuildSynItem(a, fuzzy, index) = <<item>>
  BY DEF BuildSynItem, terms, inputs, claims
<1>6. ASSUME ~Leaks(inputs, claims) PROVE WithheldItem(item)
  <2>1. ~Shows(inputs, claims.techniques \cup claims.actor)
    BY <1>6 DEF Leaks, Shows
  <2>2. item[2] = Row(a.page, inputs, claims, index)
    BY DEF Item
  <2>3. item[2].input = inputs /\ item[2].label = claims /\ item[2].index = index
    BY <2>2 DEF Row
  <2>. DEFINE row == item[2]
  <2>. HIDE DEF item
  <2>4. ASSUME \A x \in row.label.actor : Resolved(x, row.index) = x
        PROVE  ~Shows(row.input, AliasesOf(row))
    <3>1. AliasesOf(row) \subseteq terms
      BY <1>2, <1>4, <2>3, <2>4 DEF AliasesOf
    <3>. QED
      BY <1>3, <2>3, <3>1 DEF Shows
  <2>. QED
    BY <2>1, <2>3, <2>4 DEF WithheldItem, Withheld
<1>7. item = SynItem(a, fuzzy, index)
  BY DEF SynItem, terms, inputs, claims
<1>. QED
  BY <1>5, <1>6, <1>7

LEMMA NormalisedItems ==
  ASSUME NEW a, NEW T, Item("ate", a, Row(a.page, a.text, a.techniques, << >>)) \in T,
         Item("taa", a, Row(a.page, a.text, a.actor, << >>)) \in T
  PROVE  NormaliseReport(a) \in Seq(T)
<1>. DEFINE x == Item("ate", a, Row(a.page, a.text, a.techniques, << >>))
            y == Item("taa", a, Row(a.page, a.text, a.actor, << >>))
            u == IF a.techniques = {} THEN << >> ELSE <<x>>
            v == IF a.actor = {} THEN << >> ELSE <<y>>
<1>1. NormaliseReport(a) = IF a.text = << >> THEN << >> ELSE u \o v
  BY DEF NormaliseReport
<1>2. x \in T /\ y \in T
  OBVIOUS
<1>. HIDE DEF x, y
<1>3. u \in Seq(T) /\ v \in Seq(T) /\ << >> \in Seq(T)
  BY <1>2
<1>. HIDE DEF u, v
<1>4. u \o v \in Seq(T)
  BY <1>3, ConcatProperties
<1>. QED
  BY <1>1, <1>3, <1>4

LEMMA StoredWithheld ==
  ASSUME WithheldRows(corpus), NEW T, \A item \in T : WithheldItem(item),
         NEW n \in Nat, NEW ss \in [1..n -> Seq(T)]
  PROVE  WithheldRows(IngestItems(FlattenSeq(ss)))
<1>1. ss \in Seq(Seq(T))
  OBVIOUS
<1>2. FlattenSeq(ss) \in Seq(T)
  BY <1>1, FlattenProperties
<1>. QED
  BY <1>2, IngestWithheld

LEMMA ReportsWithheld ==
  ASSUME WithheldRows(corpus), NEW S, NEW advisories \in Seq(S)
  PROVE  WithheldRows(IngestItems(FlattenSeq(
           [i \in DOMAIN advisories |-> NormaliseReport(advisories[i])])))
<1>. DEFINE n == Len(advisories)
            T == {Item("ate", a, Row(a.page, a.text, a.techniques, << >>)) : a \in S}
                   \cup {Item("taa", a, Row(a.page, a.text, a.actor, << >>)) : a \in S}
            ss == [i \in DOMAIN advisories |-> NormaliseReport(advisories[i])]
<1>1. n \in Nat /\ DOMAIN advisories = 1..n /\ \A i \in 1..n : advisories[i] \in S
  BY LenProperties, ElementOfSeq
<1>2. \A item \in T : WithheldItem(item)
  BY DEF Item, WithheldItem
<1>3. \A a \in S : NormaliseReport(a) \in Seq(T)
  BY NormalisedItems
<1>. HIDE DEF T
<1>4. ss \in [1..n -> Seq(T)]
  BY <1>1, <1>3
<1>. QED
  BY <1>1, <1>2, <1>4, StoredWithheld

LEMMA SynWithheld ==
  ASSUME WithheldRows(corpus), NEW S, NEW advisories \in Seq(S), NEW fuzzy, NEW index
  PROVE  WithheldRows(IngestItems(FlattenSeq(
           [i \in DOMAIN advisories |-> BuildSynItem(advisories[i], fuzzy[i], index)])))
<1>. DEFINE n == Len(advisories)
            T == {item \in {SynItem(advisories[i], fuzzy[i], index) : i \in 1..n} : WithheldItem(item)}
            ss == [i \in DOMAIN advisories |-> BuildSynItem(advisories[i], fuzzy[i], index)]
<1>1. n \in Nat /\ DOMAIN advisories = 1..n
  BY LenProperties
<1>2. \A item \in T : WithheldItem(item)
  OBVIOUS
<1>3. ASSUME NEW i \in 1..n PROVE BuildSynItem(advisories[i], fuzzy[i], index) \in Seq(T)
  <2>. DEFINE item == SynItem(advisories[i], fuzzy[i], index)
              built == BuildSynItem(advisories[i], fuzzy[i], index)
  <2>1. built = << >> \/ (built = <<item>> /\ WithheldItem(item))
    BY SynItemWithheld
  <2>2. WithheldItem(item) => item \in T
    OBVIOUS
  <2>. HIDE DEF item, built, T
  <2>3. << >> \in Seq(T) /\ (item \in T => <<item>> \in Seq(T))
    OBVIOUS
  <2>4. built \in Seq(T)
    BY <2>1, <2>2, <2>3
  <2>. QED
    BY <2>4 DEF built
<1>. HIDE DEF T
<1>4. ss \in [1..n -> Seq(T)]
  BY <1>1, <1>3
<1>. QED
  BY <1>1, <1>2, <1>4, StoredWithheld
-----------------------------------------------------------------------------
(* The invariant: what the flows have collected is of sources they know.   *)

SourcesTypes ==
  /\ posted \in 0..Len(Pages)
  /\ DOMAIN stage = Collectors /\ DOMAIN pool = Collectors
  /\ DOMAIN cut = Collectors /\ DOMAIN names = Collectors
Collected ==
  \A f \in Collectors : /\ pool[f] \in Seq(Range(pool[f]))
                        /\ \A a \in Range(pool[f]) : a.site \in Range(Priority)
SourcesInv == SourcesTypes /\ Collected /\ KeptIsDeduped /\ WithheldRows(corpus)

LEMMA StageNumbers ==
  /\ Len(Priority) \in Nat /\ DOMAIN Priority = 1..Len(Priority)
  /\ Idle # Storing /\ Deduping # Storing /\ 1 # Storing
  /\ \A i \in DOMAIN Priority : i + 1 # Storing
<1>1. Len(Priority) \in Nat /\ DOMAIN Priority = 1..Len(Priority)
  BY SourcesAssumption, LenProperties
<1>. QED
  BY <1>1 DEF Idle, Deduping, Storing

LEMMA SourcesStart == SourcesInit => SourcesInv
<1>. SUFFICES ASSUME SourcesInit PROVE SourcesInv
  OBVIOUS
<1>1. SourcesTypes
  <2>1. Len(Pages) \in Nat
    BY SourcesAssumption, LenProperties
  <2>. QED
    BY <2>1 DEF SourcesInit, SourcesTypes
<1>2. Collected
  <2>1. Range(<< >>) = {} /\ << >> \in Seq({})
    BY DEF Range
  <2>2. \A f \in Collectors : pool[f] = << >>
    BY DEF SourcesInit
  <2>. QED
    BY <2>1, <2>2 DEF Collected
<1>3. KeptIsDeduped
  BY StageNumbers DEF SourcesInit, KeptIsDeduped
<1>4. WithheldRows(corpus)
  <2>1. DOMAIN << >> = {} /\ << >> = [key \in {} |-> << >>[key]]
    OBVIOUS
  <2>. QED
    BY <2>1 DEF SourcesInit, WithheldRows
<1>. QED
  BY <1>1, <1>2, <1>3, <1>4 DEF SourcesInv

(* A flow that is not at Storing yet, or any more                          *)
LEMMA NotStoring ==
  ASSUME SourcesInv, NEW f \in Collectors, DOMAIN stage' = Collectors, stage'[f] # Storing,
         \A h \in Collectors \ {f} :
           stage'[h] = stage[h] /\ pool'[h] = pool[h] /\ cut'[h] = cut[h]
  PROVE  KeptIsDeduped'
BY DEF SourcesInv, KeptIsDeduped

(* The pages a flow reads are of the source it asks for.                   *)
LEMMA IndexProperties ==
  ASSUME SourcesInv, NEW site
  PROVE  /\ FetchSourceIndex(site) \in Seq(Range(Pages))
         /\ \A i \in 1..Len(FetchSourceIndex(site)) : FetchSourceIndex(site)[i].site = site
<1>. DEFINE P == Range(Pages)
            s == SubSeq(Pages, 1, posted)
            newest == Reverse(s)
            I == {i \in DOMAIN newest : newest[i].site = site}
            all == Pick(newest, I)
            m == IF Len(all) < MaxPerSource THEN Len(all) ELSE MaxPerSource
<1>1. s \in Seq(P) /\ Len(s) \in Nat
  BY SourcesAssumption, SubSeqProperties, LenProperties DEF SourcesInv, SourcesTypes
<1>. HIDE DEF s
<1>2. newest \in Seq(P) /\ DOMAIN newest = 1..Len(newest) /\ Len(newest) \in Nat
  <2>1. \A i \in 1..Len(s) : (Len(s) - i) + 1 \in 1..Len(s)
    BY <1>1
  <2>2. \A i \in 1..Len(s) : s[i] \in P
    BY <1>1, ElementOfSeq
  <2>3. newest \in [1..Len(s) -> P]
    BY <2>1, <2>2 DEF Reverse
  <2>. HIDE DEF newest
  <2>4. newest \in Seq(P)
    BY <1>1, <2>3
  <2>. QED
    BY <2>4, LenProperties
<1>. HIDE DEF newest
<1>3. I \in SUBSET (1..Len(newest)) /\ \A i \in I : newest[i].site = site
  BY <1>2
<1>. HIDE DEF I
<1>4. /\ Cardinality(I) \in Nat /\ all \in Seq(P) /\ Len(all) = Cardinality(I)
      /\ \A k \in 1..Cardinality(I) : Place(I, k) \in I /\ all[k] = newest[Place(I, k)]
  BY <1>2, <1>3, PickProperties
<1>5. \A k \in 1..Len(all) : all[k].site = site
  BY <1>3, <1>4
<1>. HIDE DEF all
<1>6. m \in 0..Len(all)
  BY <1>4, SourcesAssumption
<1>7. FetchSourceIndex(site) = SubSeq(all, 1, m)
  BY DEF FetchSourceIndex, all, I, newest, s
<1>. HIDE DEF m
<1>8. /\ SubSeq(all, 1, m) \in Seq(P) /\ Len(SubSeq(all, 1, m)) = m
      /\ \A i \in 1..m : SubSeq(all, 1, m)[i] = all[i]
  <2>1. 1 \in 1..(Len(all) + 1) /\ m \in 0..Len(all) /\ m \in Nat
    BY <1>4, <1>6
  <2>. QED
    BY <1>4, <2>1, SubSeqProperties
<1>9. \A i \in 1..m : i \in 1..Len(all)
  BY <1>4, <1>6
<1>. QED
  BY <1>5, <1>7, <1>8, <1>9 DEF P
LEMMA CollectStep ==
  ASSUME SourcesInv, NEW f \in Collectors, NEW i \in DOMAIN Priority, CollectSource(f, i)
  PROVE  SourcesInv'
<1>. DEFINE site == Priority[i]
            index == FetchSourceIndex(site)
<1>1. PICK readable \in SUBSET DOMAIN index :
        LET pages == Pick(index, {j \in readable : PublishedWithin(index[j])})
        IN  pool' = [pool EXCEPT ![f] = @ \o [j \in DOMAIN pages |-> Parse(pages[j], names[f])]]
  BY DEF CollectSource
<1>. DEFINE I == {j \in readable : PublishedWithin(index[j])}
            pages == Pick(index, I)
            parsed == [j \in DOMAIN pages |-> Parse(pages[j], names[f])]
            Q == {Parse(pages[j], names[f]) : j \in DOMAIN pages}
<1>2. index \in Seq(Range(Pages)) /\ \A j \in 1..Len(index) : index[j].site = site
  BY IndexProperties
<1>3. site \in Range(Priority)
  BY SitesAndRanks
<1>4. pool' = [pool EXCEPT ![f] = @ \o parsed]
  BY <1>1
<1>. HIDE DEF index, site
<1>5. I \in SUBSET (1..Len(index))
  <2>1. DOMAIN index = 1..Len(index)
    BY <1>2, LenProperties
  <2>. QED
    BY <1>1, <2>1
<1>. HIDE DEF I
<1>6. /\ Cardinality(I) \in Nat /\ pages \in Seq(Range(Pages)) /\ Len(pages) = Cardinality(I)
      /\ \A k \in 1..Cardinality(I) : Place(I, k) \in I /\ pages[k] = index[Place(I, k)]
  BY <1>2, <1>5, PickProperties
<1>. HIDE DEF pages
<1>7. DOMAIN pages = 1..Len(pages) /\ Len(pages) \in Nat
  BY <1>6, LenProperties
<1>8. \A j \in 1..Len(pages) : pages[j].site = site
  BY <1>2, <1>5, <1>6
<1>9. \A a \in Q : a.site \in Range(Priority)
  <2>1. \A page : \A known : Parse(page, known).site = page.site
    BY DEF Parse
  <2>. QED
    BY <1>3, <1>7, <1>8, <2>1
<1>10. parsed \in [1..Len(pages) -> Q]
  <2>. HIDE DEF Q
  <2>1. \A j \in DOMAIN pages : Parse(pages[j], names[f]) \in Q
    BY DEF Q
  <2>. QED
    BY <1>7, <2>1
<1>. HIDE DEF Q, parsed
<1>11. parsed \in Seq(Q)
  BY <1>7, <1>10
<1>12. Collected'
  <2>. DEFINE S == Range(pool[f]) \cup Q
              both == pool[f] \o parsed
  <2>1. pool[f] \in Seq(Range(pool[f])) /\ \A a \in Range(pool[f]) : a.site \in Range(Priority)
    BY DEF SourcesInv, Collected
  <2>2. pool[f] \in Seq(S) /\ parsed \in Seq(S)
    BY <1>11, <2>1, SeqMonotonic
  <2>. HIDE DEF S
  <2>3. both \in Seq(S)
    BY <2>2, ConcatProperties
  <2>4. both \in Seq(Range(both))
    BY <2>3, SeqOfRange
  <2>5. Range(both) = Range(pool[f]) \cup Range(parsed) /\ Range(parsed) \subseteq Q
    BY <1>11, <2>2, RangeConcatenation, RangeOfSeq
  <2>6. \A a \in Range(both) : a.site \in Range(Priority)
    BY <1>9, <2>1, <2>5
  <2>7. pool'[f] = both /\ \A h \in Collectors \ {f} : pool'[h] = pool[h]
    BY <1>4 DEF SourcesInv, SourcesTypes
  <2>. HIDE DEF both
  <2>. QED
    BY <2>4, <2>6, <2>7 DEF SourcesInv, Collected
<1>13. /\ SourcesTypes' /\ stage'[f] = i + 1
       /\ \A h \in Collectors \ {f} : stage'[h] = stage[h] /\ pool'[h] = pool[h] /\ cut'[h] = cut[h]
  BY <1>4 DEF CollectSource, SourcesInv, SourcesTypes
<1>14. KeptIsDeduped'
  BY <1>13, NotStoring, StageNumbers DEF SourcesTypes
<1>15. WithheldRows(corpus)'
  BY DEF CollectSource, SourcesInv, WithheldRows
<1>. QED
  BY <1>12, <1>13, <1>14, <1>15 DEF SourcesInv

LEMMA DedupeStep ==
  ASSUME SourcesInv, NEW f \in Collectors, Dedupe(f)
  PROVE  SourcesInv'
<1>. DEFINE all == pool[f]
            kept == DedupeAdvisories(all)
<1>1. all \in Seq(Range(all)) /\ \A a \in Range(all) : a.site \in Range(Priority)
  BY DEF SourcesInv, Collected
<1>2. /\ stage' = [stage EXCEPT ![f] = Storing] /\ pool' = [pool EXCEPT ![f] = kept]
      /\ cut' = [cut EXCEPT ![f] = Range(all) \ Range(kept)]
      /\ UNCHANGED <<posted, names, corpus>>
  BY DEF Dedupe
<1>. HIDE DEF all
<1>3. /\ kept \in Seq(Range(all)) /\ Range(kept) \subseteq Range(all)
      /\ \A a, b \in Range(kept) : a.site # b.site => ~IsDuplicate(a, b)
      /\ \A d \in Range(all) \ Range(kept) : \E k \in Range(kept) :
           IsDuplicate(d, k) /\ Rank(k.site) < Rank(d.site)
  BY <1>1, DedupeProperties
<1>. HIDE DEF kept
<1>4. kept \in Seq(Range(kept)) /\ \A a \in Range(kept) : a.site \in Range(Priority)
  BY <1>1, <1>3, SeqOfRange
<1>5. /\ SourcesTypes' /\ pool'[f] = kept /\ cut'[f] = Range(all) \ Range(kept)
      /\ \A h \in Collectors \ {f} : stage'[h] = stage[h] /\ pool'[h] = pool[h] /\ cut'[h] = cut[h]
  BY <1>2 DEF SourcesInv, SourcesTypes
<1>6. Collected'
  BY <1>4, <1>5 DEF SourcesInv, Collected
<1>7. KeptIsDeduped'
  BY <1>3, <1>5 DEF SourcesInv, KeptIsDeduped
<1>8. WithheldRows(corpus)'
  BY <1>2 DEF SourcesInv, WithheldRows
<1>. QED
  BY <1>5, <1>6, <1>7, <1>8 DEF SourcesInv

LEMMA EndStep ==
  ASSUME SourcesInv, NEW f \in Collectors, EndCollecting(f), WithheldRows(corpus')
  PROVE  SourcesInv'
<1>1. /\ SourcesTypes' /\ stage'[f] = Idle /\ pool'[f] = << >>
      /\ \A h \in Collectors \ {f} : stage'[h] = stage[h] /\ pool'[h] = pool[h] /\ cut'[h] = cut[h]
  BY DEF EndCollecting, SourcesInv, SourcesTypes
<1>2. KeptIsDeduped'
  BY <1>1, NotStoring, StageNumbers DEF SourcesTypes
<1>3. Collected'
  <2>1. Range(<< >>) = {} /\ << >> \in Seq({})
    BY DEF Range
  <2>. QED
    BY <1>1, <2>1 DEF SourcesInv, Collected
<1>. QED
  BY <1>1, <1>2, <1>3 DEF SourcesInv, WithheldRows

LEMMA SourcesFrame ==
  ASSUME SourcesInv, posted' \in 0..Len(Pages), UNCHANGED <<collecting, corpus>>
  PROVE  SourcesInv'
<1>1. UNCHANGED <<stage, names, pool, cut, corpus>>
  BY DEF collecting
<1>2. SourcesTypes' /\ Collected'
  BY <1>1 DEF SourcesInv, SourcesTypes, Collected
<1>3. KeptIsDeduped' /\ WithheldRows(corpus)'
  BY <1>1 DEF SourcesInv, KeptIsDeduped, WithheldRows
<1>. QED
  BY <1>2, <1>3 DEF SourcesInv

LEMMA SourcesStep == SourcesInv /\ [SourcesNext]_sourcesVars => SourcesInv'
<1>. SUFFICES ASSUME SourcesInv, [SourcesNext]_sourcesVars PROVE SourcesInv'
  OBVIOUS
<1>1. posted \in 0..Len(Pages) /\ Len(Pages) \in Nat /\ WithheldRows(corpus)
  BY SourcesAssumption, LenProperties DEF SourcesInv, SourcesTypes
<1>2. ASSUME Post PROVE SourcesInv'
  BY <1>1, <1>2, SourcesFrame DEF Post
<1>3. ASSUME NewDay PROVE SourcesInv'
  BY <1>1, <1>3, SourcesFrame DEF NewDay
<1>4. ASSUME NEW f \in Collectors, StartCollecting(f) PROVE SourcesInv'
  <2>1. /\ SourcesTypes' /\ stage'[f] = 1 /\ UNCHANGED <<pool, corpus>>
        /\ \A h \in Collectors \ {f} : stage'[h] = stage[h] /\ pool'[h] = pool[h] /\ cut'[h] = cut[h]
    BY <1>4 DEF StartCollecting, SourcesInv, SourcesTypes
  <2>2. KeptIsDeduped'
    BY <2>1, NotStoring, StageNumbers DEF SourcesTypes
  <2>. QED
    BY <2>1, <2>2 DEF SourcesInv, Collected, WithheldRows
<1>5. ASSUME NEW f \in Collectors, CollectFails(f) PROVE SourcesInv'
  BY <1>1, <1>5, EndStep DEF CollectFails
<1>6. ASSUME StoreReports PROVE SourcesInv'
  <2>1. pool["report"] \in Seq(Range(pool["report"])) /\ "report" \in Collectors
    BY DEF SourcesInv, Collected, Collectors
  <2>2. WithheldRows(corpus')
    BY <1>1, <1>6, <2>1, ReportsWithheld DEF StoreReports
  <2>. QED
    BY <1>6, <2>1, <2>2, EndStep DEF StoreReports
<1>7. ASSUME StoreSyn PROVE SourcesInv'
  <2>1. pool["syn"] \in Seq(Range(pool["syn"])) /\ "syn" \in Collectors
    BY DEF SourcesInv, Collected, Collectors
  <2>2. PICK fuzzy :
          corpus' = IngestItems(FlattenSeq([i \in DOMAIN pool["syn"] |->
                      BuildSynItem(pool["syn"][i], fuzzy[i], names["syn"])]))
    BY <1>7 DEF StoreSyn
  <2>3. WithheldRows(corpus')
    BY <1>1, <2>1, <2>2, SynWithheld
  <2>. QED
    BY <1>7, <2>1, <2>3, EndStep DEF StoreSyn
<1>8. ASSUME UNCHANGED sources PROVE SourcesInv'
  BY <1>1, <1>8, SourcesFrame DEF sources
<1>. QED
  BY <1>2, <1>3, <1>4, <1>5, <1>6, <1>7, <1>8, CollectStep, DedupeStep
  DEF SourcesNext, sourcesVars, RefreshReference

(* What a flow stores has no copies of one advisory from two agencies, and *)
(* what it drops is a copy of what it keeps (dedupe_advisories).           *)
THEOREM StoredIsDeduped == SourcesSpec => []KeptIsDeduped
<1>1. SourcesInv => KeptIsDeduped
  BY DEF SourcesInv
<1>. QED
  BY <1>1, SourcesStart, SourcesStep, PTL DEF SourcesSpec

(* No SYN item shows a technique or the actor that it asks for, nor, while *)
(* the actor's name stands for itself, one of the actor's aliases, whatever*)
(* the reference data knew (mask_conclusions, build_syn_item).             *)
THEOREM SynWithholds == SourcesSpec => []ConclusionsWithheld
<1>1. SourcesInv => ConclusionsWithheld
  BY DEF SourcesInv, WithheldRows, Withheld, ConclusionsWithheld
<1>. QED
  BY <1>1, SourcesStart, SourcesStep, PTL DEF SourcesSpec
-----------------------------------------------------------------------------
(* Model sync                                                              *)

USE DiscoveryAssumption DEF table, queue, sync

CatalogOf(p) == IF p = "hf" THEN HfCatalog ELSE Catalog

SourceNames == {"manual", "openrouter", "hf"}

(* A model's source is its provider or "manual", and what a provider is    *)
(* fetched from and was applied with is of its catalogue.                  *)
ProvidersInv ==
  /\ source \in [Names -> SourceNames]
  /\ \A n \in Names : source[n] # "manual" => n \in CatalogOf(source[n])
  /\ state \in [Names -> {"absent", "active", "archived"}]
  /\ phase \in [Syncers -> {"idle", "hf", "sync"}]
  /\ fetched \in [Syncers -> [Providers -> Seq(Names)]]
  /\ \A f \in Syncers, p \in Providers : Listed(fetched[f][p]) \subseteq CatalogOf(p)
  /\ applied \in [Providers -> SUBSET Names]
  /\ \A p \in Providers : applied[p] \subseteq CatalogOf(p)
  /\ revived \subseteq Names

DiscoveryInv == ProvidersInv /\ ActiveIsListed

(* A ranking is a list of models of its catalogue, which is empty when it  *)
(* lists none.                                                             *)
LEMMA RankingType ==
  ASSUME NEW S, IsFiniteSet(S), S \subseteq Names, NEW s \in Rankings(S)
  PROVE  s \in Seq(Names) /\ Listed(s) \subseteq S
<1>1. PICK n \in 0..Cardinality(S) : s \in [1..n -> S]
  BY DEF Rankings
<1>2. n \in Nat
  BY <1>1, FS_CardinalityType
<1>. QED
  BY <1>1, <1>2 DEF Listed

(* A list without models is empty.                                         *)
LEMMA ListedEmpty ==
  ASSUME NEW s \in Seq(Names)
  PROVE  Listed(s) = {} <=> s = << >>
<1>1. CASE s = << >>
  BY <1>1 DEF Listed
<1>2. CASE s # << >>
  <2>1. Len(s) \in Nat /\ Len(s) # 0
    BY <1>2
  <2>2. s[1] \in Listed(s)
    BY <2>1 DEF Listed
  <2>. QED
    BY <1>2, <2>2
<1>. QED
  BY <1>1, <1>2

(* What the clients return is of their own catalogue.                      *)
LEMMA FetchedType ==
  ASSUME NEW n
  PROVE  /\ \A s \in FetchTopModels(n) :
              s \in Seq(Names) /\ Listed(s) \subseteq CatalogOf("openrouter")
         /\ \A s \in FetchTopHfModels(n) :
              s \in Seq(Names) /\ Listed(s) \subseteq CatalogOf("hf")
<1>1. IsFiniteSet(Catalog \ Unpriced)
  BY FS_Subset
<1>. QED
  BY <1>1, RankingType DEF FetchTopModels, FetchTopHfModels, CatalogOf, Names

(* An empty table has no active model.                                     *)
LEMMA DiscoveryStart == DiscoveryInit => DiscoveryInv
BY DEF DiscoveryInit, DiscoveryInv, ProvidersInv, ActiveIsListed, SourceNames, Providers,
       NoLists, Listed, CatalogOf, Names

(* The step that matters: a sync commits both lists at once.               *)
LEMMA SyncStep ==
  ASSUME DiscoveryInv, NEW f \in Syncers, SyncModelStatuses(f)
  PROVE  DiscoveryInv'
<1>. USE DEF DiscoveryInv, ProvidersInv
<1>. DEFINE of(p) == Listed(fetched[f][p])
            found == of("openrouter") \cup of("hf")
<1>1. /\ source' = [n \in Names |->
           CASE n \in of("openrouter") -> Upserted(n, "openrouter")
             [] n \in of("hf")         -> Upserted(n, "hf")
             [] OTHER                  -> source[n]]
      /\ state' = [n \in Names |->
           IF n \in found THEN "active"
           ELSE IF Archivable(f, n) THEN "archived" ELSE state[n]]
      /\ applied' = [p \in Providers |-> IF of(p) = {} THEN applied[p] ELSE of(p)]
      /\ revived' = {n \in revived : state'[n] = "active"} \ found
      /\ phase' = [phase EXCEPT ![f] = "idle"]
      /\ fetched' = [fetched EXCEPT ![f] = NoLists]
  BY DEF SyncModelStatuses
<1>2. /\ of("openrouter") \subseteq Catalog /\ of("hf") \subseteq HfCatalog
      /\ found \subseteq Names
      /\ \A p \in Providers : of(p) \subseteq Names /\ (of(p) = {} <=> fetched[f][p] = << >>)
  <2>1. \A p \in Providers : fetched[f][p] \in Seq(Names) /\ of(p) \subseteq CatalogOf(p)
    OBVIOUS
  <2>2. \A p \in Providers : of(p) = {} <=> fetched[f][p] = << >>
    BY <2>1, ListedEmpty
  <2>3. of("openrouter") \subseteq Catalog /\ of("hf") \subseteq HfCatalog
    BY <2>1 DEF Providers, CatalogOf
  <2>. HIDE DEF of
  <2>. QED
    BY <2>2, <2>3 DEF Providers, Names, found
<1>. HIDE DEF of, found
<1>3. \A n \in Names : n \in found <=> n \in of("openrouter") \/ n \in of("hf")
  BY DEF found
<1>4. \A n \in Names :
        /\ source'[n] \in SourceNames
        /\ source'[n] # "manual" => n \in CatalogOf(source'[n])
        /\ n \notin found => source'[n] = source[n]
        /\ state'[n] \in {"absent", "active", "archived"}
        /\ n \in found => state'[n] = "active"
        /\ n \notin found /\ state'[n] = "active" =>
             state[n] = "active" /\ ~Archivable(f, n)
        /\ n \notin found /\ ~Archivable(f, n) => state'[n] = state[n]
  <2>. SUFFICES ASSUME NEW n \in Names
       PROVE  /\ source'[n] \in SourceNames
              /\ source'[n] # "manual" => n \in CatalogOf(source'[n])
              /\ n \notin found => source'[n] = source[n]
              /\ state'[n] \in {"absent", "active", "archived"}
              /\ n \in found => state'[n] = "active"
              /\ n \notin found /\ state'[n] = "active" =>
                   state[n] = "active" /\ ~Archivable(f, n)
              /\ n \notin found /\ ~Archivable(f, n) => state'[n] = state[n]
    OBVIOUS
  <2>1. source'[n] = CASE n \in of("openrouter") -> Upserted(n, "openrouter")
                       [] n \in of("hf")         -> Upserted(n, "hf")
                       [] OTHER                  -> source[n]
    BY <1>1
  <2>2. state'[n] = IF n \in found THEN "active"
                    ELSE IF Archivable(f, n) THEN "archived" ELSE state[n]
    BY <1>1
  <2>3. /\ n \in of("openrouter") => source'[n] \in {source[n], "openrouter"}
        /\ n \notin of("openrouter") /\ n \in of("hf") => source'[n] \in {source[n], "hf"}
        /\ n \notin of("openrouter") /\ n \notin of("hf") => source'[n] = source[n]
    <3>1. CASE n \in of("openrouter")
      BY <2>1, <3>1, Catalog \cap HfCatalog = {}, <1>2 DEF Upserted
    <3>2. CASE n \notin of("openrouter") /\ n \in of("hf")
      BY <2>1, <3>2 DEF Upserted
    <3>3. CASE n \notin of("openrouter") /\ n \notin of("hf")
      BY <2>1, <3>3
    <3>. QED
      BY <3>1, <3>2, <3>3
  <2>4. /\ source'[n] \in SourceNames
        /\ source'[n] # "manual" => n \in CatalogOf(source'[n])
        /\ n \notin found => source'[n] = source[n]
    BY <2>3, <1>2, <1>3 DEF SourceNames, CatalogOf
  <2>5. /\ state'[n] \in {"absent", "active", "archived"}
        /\ n \in found => state'[n] = "active"
        /\ n \notin found /\ state'[n] = "active" =>
             state[n] = "active" /\ ~Archivable(f, n)
        /\ n \notin found /\ ~Archivable(f, n) => state'[n] = state[n]
    BY <2>2
  <2>. QED
    BY <2>4, <2>5
<1>5. /\ source' \in [Names -> SourceNames]
      /\ state' \in [Names -> {"absent", "active", "archived"}]
  BY <1>1, <1>4
<1>6. \A p \in Providers :
        /\ applied'[p] = IF of(p) = {} THEN applied[p] ELSE of(p)
        /\ applied'[p] \subseteq CatalogOf(p) /\ applied'[p] \subseteq Names
  BY <1>1, <1>2 DEF of
<1>7. /\ applied' \in [Providers -> SUBSET Names]
      /\ phase' \in [Syncers -> {"idle", "hf", "sync"}]
      /\ fetched' \in [Syncers -> [Providers -> Seq(Names)]]
      /\ \A g \in Syncers, p \in Providers : Listed(fetched'[g][p]) \subseteq CatalogOf(p)
      /\ revived' \subseteq Names
  <2>1. applied' \in [Providers -> SUBSET Names]
    BY <1>1, <1>6
  <2>2. \A g \in Syncers : fetched'[g] = NoLists \/ fetched'[g] = fetched[g]
    BY <1>1
  <2>3. fetched' \in [Syncers -> [Providers -> Seq(Names)]]
    BY <1>1 DEF NoLists
  <2>4. \A p \in Providers : Listed(NoLists[p]) = {}
    BY DEF Listed, NoLists
  <2>5. \A g \in Syncers, p \in Providers : Listed(fetched'[g][p]) \subseteq CatalogOf(p)
    BY <2>2, <2>4
  <2>. QED
    BY <1>1, <2>1, <2>3, <2>5
<1>8. ASSUME NEW p \in Providers, NEW n \in applied'[p] PROVE state'[n] = "active"
  <2>1. CASE of(p) # {}
    BY <2>1, <1>6, <1>4, <1>2, <1>3 DEF Providers
  <2>2. CASE of(p) = {}
    <3>1. n \in applied[p] /\ n \in Names /\ state[n] = "active" /\ n \in CatalogOf(p)
      BY <2>2, <1>6 DEF ActiveIsListed
    <3>2. source[n] # "manual" => source[n] = p
      BY <3>1 DEF CatalogOf, SourceNames, Providers
    <3>3. ~Archivable(f, n)
      BY <3>2, <2>2, <1>2 DEF Archivable
    <3>. QED
      BY <3>1, <3>3, <1>4
  <2>. QED
    BY <2>1, <2>2
<1>9. ASSUME NEW n \in Names, state'[n] = "active", source'[n] # "manual"
      PROVE  n \in applied'[source'[n]] \cup revived'
  <2>0. source'[n] \in Providers /\ n \in CatalogOf(source'[n])
    BY <1>4, <1>9 DEF SourceNames, Providers
  <2>1. CASE n \in found
    <3>1. n \in of(source'[n])
      BY <2>0, <2>1, <1>2, <1>3 DEF CatalogOf, Providers
    <3>. QED
      BY <3>1, <2>0, <1>6
  <2>2. CASE n \notin found
    <3>1. /\ source'[n] = source[n] /\ state[n] = "active" /\ ~Archivable(f, n)
          /\ n \in applied[source[n]] \cup revived
      BY <2>2, <1>4, <1>9 DEF ActiveIsListed
    <3>2. fetched[f][source[n]] = << >>
      BY <3>1, <1>9 DEF Archivable
    <3>3. applied'[source[n]] = applied[source[n]]
      BY <3>1, <3>2, <2>0, <1>2, <1>6
    <3>4. n \in revived => n \in revived'
      BY <1>1, <1>9, <2>2
    <3>. QED
      BY <3>1, <3>3, <3>4
  <2>. QED
    BY <2>1, <2>2
<1>. QED
  BY <1>4, <1>5, <1>6, <1>7, <1>8, <1>9 DEF ActiveIsListed

(* Fetches, failures and the scripts change no list that was applied.      *)
LEMMA DiscoveryStep == DiscoveryInv /\ [DiscoveryNext]_discovery => DiscoveryInv'
<1>. SUFFICES ASSUME DiscoveryInv, [DiscoveryNext]_discovery PROVE DiscoveryInv'
  OBVIOUS
<1>. USE DEF DiscoveryInv, ProvidersInv
<1>1. ASSUME NEW f \in Syncers, FetchOpenRouter(f) PROVE DiscoveryInv'
  <2>1. PICK s \in FetchTopModels(TopN) : fetched' = [fetched EXCEPT ![f]["openrouter"] = s]
    BY <1>1 DEF FetchOpenRouter
  <2>2. s \in Seq(Names) /\ Listed(s) \subseteq CatalogOf("openrouter")
    BY <2>1, FetchedType
  <2>3. /\ fetched' \in [Syncers -> [Providers -> Seq(Names)]]
        /\ \A g \in Syncers, p \in Providers :
             fetched'[g][p] = IF g = f /\ p = "openrouter" THEN s ELSE fetched[g][p]
    BY <2>1, <2>2 DEF Providers
  <2>. QED
    BY <1>1, <2>2, <2>3 DEF FetchOpenRouter, ActiveIsListed
<1>2. ASSUME NEW f \in Syncers, FetchHf(f) PROVE DiscoveryInv'
  <2>1. PICK s \in FetchTopHfModels(HfTopN) : fetched' = [fetched EXCEPT ![f]["hf"] = s]
    BY <1>2 DEF FetchHf
  <2>2. s \in Seq(Names) /\ Listed(s) \subseteq CatalogOf("hf")
    BY <2>1, FetchedType
  <2>3. /\ fetched' \in [Syncers -> [Providers -> Seq(Names)]]
        /\ \A g \in Syncers, p \in Providers :
             fetched'[g][p] = IF g = f /\ p = "hf" THEN s ELSE fetched[g][p]
    BY <2>1, <2>2 DEF Providers
  <2>. QED
    BY <1>2, <2>2, <2>3 DEF FetchHf, ActiveIsListed
<1>3. ASSUME NEW f \in Syncers, FetchFails(f) PROVE DiscoveryInv'
  <2>1. fetched' \in [Syncers -> [Providers -> Seq(Names)]]
    BY <1>3 DEF FetchFails, NoLists
  <2>2. \A g \in Syncers : fetched'[g] = NoLists \/ fetched'[g] = fetched[g]
    BY <1>3 DEF FetchFails
  <2>3. \A p \in Providers : Listed(NoLists[p]) = {}
    BY DEF Listed, NoLists
  <2>4. \A g \in Syncers, p \in Providers : Listed(fetched'[g][p]) \subseteq CatalogOf(p)
    BY <2>2, <2>3
  <2>. QED
    BY <1>3, <2>1, <2>4 DEF FetchFails, ActiveIsListed
<1>4. ASSUME NEW f \in Syncers, SyncModelStatuses(f) PROVE DiscoveryInv'
  BY <1>4, SyncStep
<1>5. CASE SeedCtiModel
  BY <1>5 DEF SeedCtiModel, ActiveIsListed, Names
<1>6. ASSUME UNCHANGED <<table, sync>> PROVE DiscoveryInv'
  BY <1>6 DEF ActiveIsListed
<1>7. CASE TriggerSelect \/ TriggerOne \/ \E m \in Names : Scan(m)
  BY <1>6, <1>7 DEF TriggerSelect, TriggerOne, Scan
<1>8. CASE UNCHANGED discovery
  BY <1>6, <1>8 DEF discovery
<1>. QED
  BY <1>1, <1>2, <1>3, <1>4, <1>5, <1>7, <1>8 DEF DiscoveryNext, Sync

(* For every catalogue, list length and number of overlapping or failing   *)
(* sync flows: what is active is what the last non-empty lists named.      *)
THEOREM ActiveAreListed == DiscoverySpec => []ActiveIsListed
<1>1. DiscoveryInv => ActiveIsListed
  BY DEF DiscoveryInv
<1>. QED
  BY <1>1, DiscoveryStart, DiscoveryStep, PTL DEF DiscoverySpec

(* For every catalogue: no outage of a provider archives a model, and no   *)
(* list of another provider does.                                          *)
THEOREM OutagesArchiveNothing == DiscoverySpec => OutageArchivesNothing
<1>. DEFINE Spared ==
       \A n \in Names : state[n] = "active" /\ state'[n] # "active" =>
         /\ source[n] # "manual"
         /\ applied'[source[n]] # {} /\ n \notin applied'[source[n]]
         /\ \E f \in Syncers : fetched[f][source[n]] # << >>
                               /\ phase[f] = "sync" /\ phase'[f] = "idle"
<1>1. ASSUME DiscoveryInv, [DiscoveryNext]_discovery PROVE [Spared]_discovery
  <2>. SUFFICES ASSUME NEW n \in Names, state[n] = "active", state'[n] # "active"
       PROVE  /\ source[n] # "manual"
              /\ applied'[source[n]] # {} /\ n \notin applied'[source[n]]
              /\ \E f \in Syncers : fetched[f][source[n]] # << >>
                                    /\ phase[f] = "sync" /\ phase'[f] = "idle"
    OBVIOUS
  <2>1. PICK f \in Syncers : SyncModelStatuses(f)
    BY <1>1 DEF DiscoveryNext, Sync, FetchOpenRouter, FetchHf, FetchFails, SeedCtiModel,
                TriggerSelect, TriggerOne, Scan, discovery, DiscoveryInv, ProvidersInv
  <2>2. DiscoveryInv'
    BY <1>1, DiscoveryStep
  <2>3. /\ state'[n] = IF n \in Listed(fetched[f]["openrouter"])
                              \cup Listed(fetched[f]["hf"]) THEN "active"
                       ELSE IF Archivable(f, n) THEN "archived" ELSE state[n]
        /\ phase' = [phase EXCEPT ![f] = "idle"] /\ phase[f] = "sync"
        /\ applied' = [p \in Providers |->
             IF Listed(fetched[f][p]) = {} THEN applied[p] ELSE Listed(fetched[f][p])]
    BY <2>1 DEF SyncModelStatuses
  <2>4. Archivable(f, n)
    BY <2>3
  <2>5. source[n] \in Providers /\ source[n] # "manual" /\ fetched[f][source[n]] # << >>
    BY <1>1, <2>4 DEF Archivable, DiscoveryInv, ProvidersInv, SourceNames, Providers
  <2>6. Listed(fetched[f][source[n]]) # {}
    BY <1>1, <2>5, ListedEmpty DEF DiscoveryInv, ProvidersInv
  <2>7. applied'[source[n]] # {}
    BY <2>3, <2>5, <2>6
  <2>8. n \notin applied'[source[n]]
    BY <2>2, <2>5 DEF DiscoveryInv, ActiveIsListed
  <2>9. phase'[f] = "idle"
    BY <1>1, <2>3 DEF DiscoveryInv, ProvidersInv
  <2>. QED
    BY <2>3, <2>5, <2>7, <2>8, <2>9
<1>2. [][DiscoveryInv /\ [DiscoveryNext]_discovery => [Spared]_discovery]_discovery
  BY <1>1, PTL
<1>. QED
  BY <1>1, DiscoveryStart, DiscoveryStep, PTL DEF DiscoverySpec, OutageArchivesNothing

HIDE DiscoveryAssumption DEF table, queue, sync
-----------------------------------------------------------------------------
(* The paced calls to a model                                              *)

USE InferenceAssumption DEF call

(* The limiter never thinks that more time has gone by since its call than *)
(* since the model was asked, and lets a call through when the interval is *)
(* over; the first call of an attempt comes after it because the shortest  *)
(* delay of a retry is no shorter.                                         *)
PaceInv ==
  /\ last \in 0..(MinInterval + 1)
  /\ apart \in 0..MinInterval
  /\ asking \in {"wait", "post", "judge", "done", "stopped"}
  /\ tries \in Nat
  /\ asking = "wait" /\ last = NoCall => apart = MinInterval
  /\ asking \in {"wait", "judge"} /\ last # NoCall => last <= apart
  /\ asking = "post" /\ tries = 0 => apart = MinInterval
  /\ asking = "post" /\ tries = 0 /\ last # NoCall => last = 0
  /\ asking = "post" /\ tries > 0 /\ last # NoCall => last <= apart
  /\ MinInterval > 0 /\ asking \in {"post", "judge"} => last # NoCall
  /\ MinInterval = 0 => apart = 0

(* Time is counted as far as the interval, and never backwards.            *)
LEMMA UptoType ==
  ASSUME NEW d \in Nat, NEW t \in Nat
  PROVE  Upto(d, t) \in 0..MinInterval /\ (t <= MinInterval => Upto(d, t) >= t)
BY DEF Upto

(* The first call waits for nothing.                                       *)
LEMMA PaceInit == InferenceInit => PaceInv
BY DEF InferenceInit, PaceInv, NoCall

(* No call, failure or new attempt breaks the pace.                        *)
LEMMA PaceStep == PaceInv /\ [InferenceNext]_inference => PaceInv'
<1>. SUFFICES ASSUME PaceInv, [InferenceNext]_inference PROVE PaceInv'
  OBVIOUS
<1>. USE DEF PaceInv
<1>1. CASE Wait
  <2>1. PICK d \in Latencies : LimiterWait(d)
    BY <1>1 DEF Wait
  <2>2. asking = "wait" /\ asking' = "post" /\ tries' = 0
    BY <1>1 DEF Wait
  <2>3. CASE MinInterval = 0
    BY <2>1, <2>2, <2>3 DEF LimiterWait
  <2>4. CASE MinInterval # 0
    <3>1. last' = 0 /\ apart' = Upto(SleepOf + d, apart)
      BY <2>1, <2>4 DEF LimiterWait
    <3>2. SleepOf \in Nat /\ SleepOf + apart >= MinInterval
      BY <2>2 DEF SleepOf, NoCall
    <3>3. apart' = MinInterval
      BY <3>1, <3>2 DEF Upto
    <3>. QED
      BY <2>2, <2>4, <3>1, <3>3 DEF NoCall
  <2>. QED
    BY <2>3, <2>4
<1>2. CASE NoMore
  BY <1>2 DEF NoMore
<1>3. CASE Complete
  <2>1. PICK status \in {0} \cup Statuses, content \in BOOLEAN, d \in Latencies :
          PostWithRetry(status, content, d)
    BY <1>3 DEF Complete
  <2>2. /\ asking \in {"post", "judge"}
        /\ asking' \in {"post", "judge", "wait", "stopped"}
        /\ asking' = "post" => asking = "post" /\ tries' > 0
        /\ tries' \in Nat
    <3>1. asking \in {"post", "judge"}
      BY <1>3 DEF Complete
    <3>2. CASE tries' = tries + 1 /\ UNCHANGED asking
      BY <3>1, <3>2
    <3>3. CASE tries' = tries + 1 /\ Stop
      BY <3>1, <3>3 DEF Stop
    <3>4. CASE tries' = 0 /\ Answered
      <4>1. asking' \in {"wait", "judge"}
        BY <3>4 DEF Answered
      <4>. QED
        BY <3>1, <3>4, <4>1
    <3>. QED
      BY <2>1, <3>2, <3>3, <3>4 DEF PostWithRetry, ExtractContent
  <2>3. last' = IF last = NoCall THEN NoCall ELSE Upto(d, last)
    BY <2>1 DEF PostWithRetry
  <2>4. apart' = IF asking = "post" /\ tries = 0 THEN Upto(d, 0) ELSE Upto(d, apart)
    BY <2>1 DEF PostWithRetry
  <2>5. /\ last' \in 0..(MinInterval + 1) /\ apart' \in 0..MinInterval
        /\ last' = NoCall <=> last = NoCall
    <3>1. CASE last = NoCall
      BY <3>1, <2>3, <2>4, UptoType DEF NoCall
    <3>2. CASE last # NoCall
      <4>1. last \in Nat /\ d \in Nat /\ MinInterval \in Nat
        OBVIOUS
      <4>2. last' \in 0..MinInterval
        BY <3>2, <4>1, <2>3, UptoType
      <4>3. apart' \in 0..MinInterval
        BY <4>1, <2>4, UptoType
      <4>. QED
        BY <3>2, <4>1, <4>2, <4>3 DEF NoCall
    <3>. QED
      BY <3>1, <3>2
  <2>6. ASSUME last # NoCall PROVE last' <= apart'
    <3>1. last' = Upto(d, last) /\ last \in Nat /\ apart \in Nat /\ d \in Nat
         /\ MinInterval \in Nat
      BY <2>3, <2>6
    <3>2. CASE asking = "post" /\ tries = 0
      BY <2>4, <2>6, <3>1, <3>2, UptoType
    <3>3. CASE ~(asking = "post" /\ tries = 0)
      <4>1. apart' = Upto(d, apart) /\ last <= apart
        BY <2>2, <2>4, <2>6, <3>3
      <4>. QED
        BY <3>1, <4>1 DEF Upto
    <3>. QED
      BY <3>2, <3>3
  <2>7. MinInterval \in Nat
    OBVIOUS
  <2>8. MinInterval = 0 => apart' = 0
    BY <2>5
  <2>9. asking' = "wait" /\ last' = NoCall => apart' = MinInterval
    BY <2>2, <2>5, <2>7, <2>8
  <2>. QED
    BY <2>2, <2>5, <2>6, <2>7, <2>8, <2>9
<1>4. CASE Rerun
  <2>1. apart' = MinInterval
    BY <1>4 DEF Rerun, Upto
  <2>. QED
    BY <1>4, <2>1 DEF Rerun, NoCall
<1>5. CASE UNCHANGED inference
  BY <1>5 DEF inference
<1>. QED
  BY <1>1, <1>2, <1>3, <1>4, <1>5 DEF InferenceNext

(* For every interval and whatever requests, retries, sleeps and attempts  *)
(* take: a model is asked about another item an interval after the last.   *)
THEOREM CallsArePaced == InferenceSpec => PacedCalls
<1>1. PaceInv => (asking = "post" /\ tries = 0 => apart >= MinInterval)
  BY DEF PaceInv
<1>. QED
  BY <1>1, PaceInit, PaceStep, PTL DEF InferenceSpec, PacedCalls

HIDE InferenceAssumption DEF call
-----------------------------------------------------------------------------
(* The creation of the schema                                              *)

SchemaTypes ==
  /\ \A t \in OrmTables : columns[t] \subseteq Columns(t)
  /\ at \in [Processes -> {"create", "commit", "tables", "table", "migrate", "ready", "failed"}]
  /\ absent \in [Processes -> SUBSET OrmTables]

(* What a process that has got to a step knows of the tables, whatever     *)
(* others have done since: none is ever dropped, and one that is complete  *)
(* stays so.                                                               *)
Knows(p) ==
  /\ at[p] \in {"commit", "tables", "table"} => Missing \subseteq absent[p]
  /\ at[p] = "migrate" => Missing = {}
  /\ at[p] = "ready" => \A t \in OrmTables : columns[t] = Columns(t)

SchemaInv == SchemaTypes /\ \A p \in Processes : Knows(p)

(* Every table has a column that must be given: none is without columns.   *)
LEMMA ColumnsGiven ==
  ASSUME NEW t \in OrmTables
  PROVE  Columns(t) # {}
<1>1. "id" \in Orm[t].given
  BY DEF OrmTables, Orm, Table, Model, Run, ProbeResult, Attempt, ProbeRunQueue, ScanDlq,
         CtiItem, CtiRun, CtiResult, CtiAttackTechnique, CtiThreatActor, CtiKev
<1>. QED
  BY <1>1 DEF Columns

LEMMA SchemaStart == SchemaInit => SchemaInv
<1>. SUFFICES ASSUME SchemaInit PROVE SchemaInv
  OBVIOUS
<1>1. \A t \in OrmTables : columns[t] \subseteq Columns(t)
  BY SchemaAssumption DEF SchemaInit, NoTables
<1>. QED
  BY <1>1 DEF SchemaInit, SchemaInv, SchemaTypes, Knows

(* A step that only completes tables keeps what the others know.           *)
LEMMA OthersKnow ==
  ASSUME SchemaInv, NEW S \in SUBSET OrmTables,
         \A t \in OrmTables : columns'[t] = IF t \in S THEN Columns(t) ELSE columns[t]
  PROVE  /\ \A t \in OrmTables : columns'[t] \subseteq Columns(t)
         /\ Missing' = Missing \ S
         /\ \A p \in Processes :
              /\ at'[p] = at[p] /\ absent[p] \subseteq absent'[p] => Knows(p)'
<1>1. Missing' = Missing \ S
  BY ColumnsGiven DEF Missing
<1>. QED
  BY <1>1 DEF SchemaInv, SchemaTypes, Knows

LEMMA SchemaStep ==
  ASSUME SchemaInv, [SchemaNext]_schemaVars
  PROVE  SchemaInv'
<1>. USE DEF MoveTo
<1>t. SchemaTypes
  BY DEF SchemaInv
<1>1. ASSUME NEW p \in Processes, CreateAll(p) PROVE SchemaInv'
  <2>1. /\ UNCHANGED columns
        /\ absent' = [absent EXCEPT ![p] = Missing]
        /\ at' = [at EXCEPT ![p] = "commit"]
    BY <1>1 DEF CreateAll
  <2>2. Missing' = Missing /\ Missing \subseteq OrmTables
    BY <2>1 DEF Missing
  <2>. QED
    BY <1>t, <2>1, <2>2 DEF SchemaInv, SchemaTypes, Knows
<1>2. ASSUME NEW p \in Processes, CommitAll(p) PROVE SchemaInv'
  <2>1. CASE absent[p] \subseteq Missing
    <3>1. /\ Create(absent[p]) /\ absent[p] \subseteq OrmTables
          /\ absent' = [absent EXCEPT ![p] = {}]
          /\ at' = [at EXCEPT ![p] = "migrate"] /\ at[p] = "commit"
      BY <1>2, <1>t, <2>1 DEF CommitAll, SchemaTypes
    <3>2. /\ \A t \in OrmTables : columns'[t] \subseteq Columns(t)
          /\ Missing' = Missing \ absent[p]
          /\ \A q \in Processes \ {p} : Knows(q)'
      BY <1>t, <3>1, OthersKnow DEF Create, SchemaTypes
    <3>3. Knows(p)'
      BY <1>t, <3>1, <3>2 DEF SchemaInv, SchemaTypes, Knows
    <3>. QED
      BY <1>t, <3>1, <3>2, <3>3 DEF SchemaInv, SchemaTypes
  <2>2. CASE ~(absent[p] \subseteq Missing)
    <3>1. PICK step \in AfterConflict : at' = [at EXCEPT ![p] = step]
      BY <1>2, <2>2 DEF CommitAll
    <3>2. UNCHANGED columns /\ absent' = [absent EXCEPT ![p] = OrmTables]
      BY <1>2, <2>2 DEF CommitAll
    <3>3. Missing' = Missing /\ Missing \subseteq OrmTables
      BY <3>2 DEF Missing
    <3>. QED
      BY <1>t, <3>1, <3>2, <3>3 DEF SchemaInv, SchemaTypes, Knows, AfterConflict
  <2>. QED
    BY <2>1, <2>2
<1>3. ASSUME NEW p \in Processes, CreateFails(p) PROVE SchemaInv'
  <2>1. PICK step \in {"failed", "create"} : at' = [at EXCEPT ![p] = step]
    BY <1>3 DEF CreateFails
  <2>2. UNCHANGED <<columns, absent>> /\ Missing' = Missing
    BY <1>3 DEF CreateFails, Missing
  <2>. QED
    BY <1>t, <2>1, <2>2 DEF SchemaInv, SchemaTypes, Knows
<1>4. ASSUME NEW p \in Processes, CreateTable(p) PROVE SchemaInv'
  <2>1. UNCHANGED columns /\ Missing' = Missing /\ at[p] = "tables"
    BY <1>4 DEF CreateTable, Missing
  <2>2. \/ /\ absent[p] = {} /\ UNCHANGED absent
           /\ at' = [at EXCEPT ![p] = "migrate"]
        \/ /\ FirstOf(absent[p]) \notin Missing /\ UNCHANGED at
           /\ absent' = [absent EXCEPT ![p] = @ \ {FirstOf(@)}]
        \/ UNCHANGED absent /\ at' = [at EXCEPT ![p] = "table"]
    BY <1>4 DEF CreateTable
  <2>. QED
    BY <1>t, <2>1, <2>2 DEF SchemaInv, SchemaTypes, Knows
<1>5. ASSUME NEW p \in Processes, CommitTable(p) PROVE SchemaInv'
  <2>. DEFINE t == FirstOf(absent[p])
  <2>1. at[p] = "table" /\ absent' = [absent EXCEPT ![p] = @ \ {t}]
    BY <1>5 DEF CommitTable
  <2>2. CASE at' = [at EXCEPT ![p] = "tables"] /\ Create({t} \cap Missing)
    <3>1. {t} \cap Missing \in SUBSET OrmTables
      BY DEF Missing
    <3>2. /\ \A u \in OrmTables : columns'[u] \subseteq Columns(u)
          /\ Missing' = Missing \ {t}
          /\ \A q \in Processes \ {p} : Knows(q)'
      BY <1>t, <2>1, <2>2, <3>1, OthersKnow DEF Create, SchemaTypes
    <3>3. Knows(p)'
      BY <1>t, <2>1, <2>2, <3>2 DEF SchemaInv, SchemaTypes, Knows
    <3>. QED
      BY <1>t, <2>1, <2>2, <3>2, <3>3 DEF SchemaInv, SchemaTypes
  <2>3. CASE at' = [at EXCEPT ![p] = "failed"] /\ UNCHANGED columns
    <3>1. Missing' = Missing
      BY <2>3 DEF Missing
    <3>. QED
      BY <1>t, <2>1, <2>3, <3>1 DEF SchemaInv, SchemaTypes, Knows
  <2>. QED
    BY <1>5, <2>2, <2>3 DEF CommitTable
<1>6. ASSUME NEW p \in Processes, MigrateDb(p) PROVE SchemaInv'
  <2>1. CASE /\ columns' = [t \in OrmTables |-> columns[t] \cup Lacks(t)]
             /\ at' = [at EXCEPT ![p] = "ready"] /\ UNCHANGED absent
    <3>1. Missing = {}
      BY <1>6 DEF MigrateDb, SchemaInv, Knows
    <3>2. \A t \in OrmTables : columns'[t] = Columns(t)
      BY <1>t, <2>1, <3>1 DEF Lacks, Missing, SchemaTypes
    <3>3. Missing' = {}
      BY <3>2, ColumnsGiven DEF Missing
    <3>. QED
      BY <1>t, <2>1, <3>2, <3>3 DEF SchemaInv, SchemaTypes, Knows
  <2>2. CASE at' = [at EXCEPT ![p] = "failed"] /\ UNCHANGED <<columns, absent>>
    <3>1. Missing' = Missing
      BY <2>2 DEF Missing
    <3>. QED
      BY <1>t, <2>2, <3>1 DEF SchemaInv, SchemaTypes, Knows
  <2>. QED
    BY <1>6, <2>1, <2>2 DEF MigrateDb
<1>7. ASSUME NEW p \in Processes, InitFails(p) \/ Restart(p) PROVE SchemaInv'
  <2>1. PICK step \in {"failed", "create"} : at' = [at EXCEPT ![p] = step]
    BY <1>7 DEF InitFails, Restart
  <2>2. /\ UNCHANGED columns /\ Missing' = Missing
        /\ absent' \in [Processes -> SUBSET OrmTables]
        /\ \A q \in Processes \ {p} : absent'[q] = absent[q]
    BY <1>7, <1>t DEF InitFails, Restart, Missing, SchemaTypes
  <2>. QED
    BY <1>t, <2>1, <2>2 DEF SchemaInv, SchemaTypes, Knows
<1>8. ASSUME Write \/ GoesAway \/ Returns \/ UNCHANGED schemaVars PROVE SchemaInv'
  <2>1. UNCHANGED <<columns, at, absent>> /\ Missing' = Missing
    BY <1>8 DEF Write, GoesAway, Returns, schemaVars, process, Missing
  <2>. QED
    BY <1>t, <2>1 DEF SchemaInv, SchemaTypes, Knows
<1>. QED
  BY <1>1, <1>2, <1>3, <1>4, <1>5, <1>6, <1>7, <1>8 DEF SchemaNext, InitDb

(* Once a process has come through init_db every table has every column    *)
(* the program uses, whatever the older database and however many          *)
(* processes started at the same time.                                     *)
THEOREM SchemaIsComplete == SchemaSpec => []SchemaComplete
<1>1. SchemaInv => SchemaComplete
  BY DEF SchemaInv, Knows, SchemaComplete
<1>. QED
  BY <1>1, SchemaStart, SchemaStep, PTL DEF SchemaSpec
=============================================================================
