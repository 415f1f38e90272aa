----------------------------- MODULE CtiScoring -----------------------------
(***************************************************************************)
(* How a CTI run is scored: each answer against its item's label, by the   *)
(* task's own measure and with the reference data of the attempt that      *)
(* scores it, and then all results of the run in one number, whatever      *)
(* order the database returns them in.                                     *)
(*                                                                         *)
(* Scores are fractions in lowest terms, the ones of the least denominator.*)
(***************************************************************************)
EXTENDS CtiReference, Integers, FiniteSetsExt

CONSTANTS
  Questions,    \* the items of a run, 1..n in the order of their ids
  LabelsOf(_),  \* what the items of a task may be labelled with
  AnswersTo(_), \* what a model may answer: lines, each the set of what the
                \* task's expression finds in it
  LastDate,     \* availability dates are 1..LastDate
  NoScore,      \* a run that is not scored, a measure that is undefined
  Fading        \* settings.cti_prequential_fading_factor, a fraction

ScoredTasks == {"rcm", "vsp", "ate", "taa", "forecast", "syn"}

VARIABLES
  asked,   \* the task of the run
  label,   \* the items' labels
  date,    \* the items' availability dates
  context, \* the indices the attempt has built
  result,  \* the scored items
  total    \* prequential score and AUC of the run

run == <<asked, label, date, context, result, total>>
-----------------------------------------------------------------------------
(* Fractions *)

Frac(n, d) ==
  LET whole(q) == (n * q) % d = 0
      least == CHOOSE q \in 1..d : whole(q) /\ \A p \in 1..(q - 1) : ~whole(p)
  IN  <<(n * least) \div d, least>>
Zero == <<0, 1>>
One  == <<1, 1>>
Plus(a, b)  == Frac(a[1] * b[2] + b[1] * a[2], a[2] * b[2])
Times(a, b) == Frac(a[1] * b[1], a[2] * b[2])
Over(a, b)  == Frac(a[1] * b[2], a[2] * b[1])
Gap(a, b) == LET x == a[1] * b[2]  y == b[1] * a[2]
             IN  Frac(IF x > y THEN x - y ELSE y - x, a[2] * b[2])
OneMinus(a) == Gap(One, a)
PlusAll(f) == MapThenFoldSet(Plus, Zero, LAMBDA i : f[i],
                             LAMBDA S : CHOOSE i \in S : TRUE, DOMAIN f)
Mean(f) == Over(PlusAll(f), <<Cardinality(DOMAIN f), 1>>)
Less(a, b) == a[1] * b[2] < b[1] * a[2]
AtMost(a, b) == ~Less(b, a)

Proper(a) == a[1] \in Nat /\ a[2] \in Nat \ {0} /\ a = Frac(a[1], a[2])
ASSUME ScoringAssumption ==
  /\ Questions \in Nat /\ LastDate \in Nat
  /\ Proper(Fading)
  /\ \A t \in ScoredTasks : \A lines \in AnswersTo(t) :
       lines \in Seq(Range(lines)) /\ \A ids \in Range(lines) : IsFiniteSet(ids)
  /\ \A t \in {"rcm", "ate", "syn"} : \A ids \in LabelsOf(t) : IsFiniteSet(ids)
  /\ \A gold \in LabelsOf("vsp") : gold.base \in Nat
  /\ \A lines \in AnswersTo("vsp") : \A v \in UNION Range(lines) : v.base \in Nat
  /\ LabelsOf("forecast") \subseteq BOOLEAN
  /\ \A lines \in AnswersTo("forecast") : \A n \in UNION Range(lines) : n.hundredths \in Nat
  /\ \A gold \in LabelsOf("syn") : \A c \in gold : Proper(c.hedge) /\ AtMost(c.hedge, One)
-----------------------------------------------------------------------------
(* The answer in a response: the last line that has any for most tasks,    *)
(* all lines for ATE and SYN; None is the empty set.                       *)

LastLine(lines) ==
  LET found == {i \in DOMAIN lines : lines[i] # {}}
  IN  IF found = {} THEN {} ELSE lines[Max(found)]

ParseResponse(t, lines) ==
  IF t \in {"ate", "syn"} THEN UNION Range(lines) ELSE LastLine(lines)

(* A number above 1 is a percentage, with the sign or without; the model's *)
(* numbers are hundredths.                                                 *)
Probability(n) ==
  LET p == IF n.percent \/ n.hundredths > 100 THEN Frac(n.hundredths, 10000)
           ELSE Frac(n.hundredths, 100)
  IN  IF p[1] > p[2] THEN One ELSE p
-----------------------------------------------------------------------------
(* The measures. A scored answer has its score, whether it is correct, and *)
(* for the forecast the pair that the AUC is computed from.                *)

Scored(score, correct) == [score |-> score, correct |-> correct, pair |-> << >>]

SetF1(predicted, gold) ==
  LET tp == Cardinality(predicted \cap gold)
      precision == IF predicted = {} THEN Zero ELSE Frac(tp, Cardinality(predicted))
      recall    == IF gold = {} THEN Zero ELSE Frac(tp, Cardinality(gold))
      both      == Plus(precision, recall)
  IN  IF predicted = {} /\ gold = {} THEN One
      ELSE IF both = Zero THEN Zero
      ELSE Over(Times(<<2, 1>>, Times(precision, recall)), both)

ScoreIds(predicted, gold) == LET f1 == SetF1(predicted, gold) IN Scored(f1, f1 = One)

(* Vectors have a base score, in tenths, unless they cannot be parsed.     *)
Severity(base) == Cardinality({t \in {1, 40, 70, 90} : base >= t})
ScoreVsp(predicted, gold) ==
  LET valid == {v \in predicted : v.valid}
      mad   == IF valid = {} THEN gold.base
               ELSE LET v == CHOOSE w \in valid : TRUE
                    IN  IF v.base > gold.base THEN v.base - gold.base
                        ELSE gold.base - v.base
  IN  Scored(IF mad > 77 THEN Zero ELSE Frac(77 - mad, 77),
             \E v \in valid : Severity(v.base) = Severity(gold.base))

Canonical(name) == IF name \in DOMAIN context.alias THEN context.alias[name] ELSE name
RelatedTo(a) == IF a \in DOMAIN context.related THEN context.related[a] ELSE {}
Credit(a, b) == IF a = b THEN One
                ELSE IF a \in RelatedTo(b) \/ b \in RelatedTo(a) THEN <<1, 2>> ELSE Zero
ScoreTaa(predicted, gold) ==
  LET credit == IF predicted = {} THEN Zero
                ELSE Credit(Canonical(CHOOSE n \in predicted : TRUE), Canonical(gold))
  IN  Scored(credit, credit = One)

ScoreForecast(predicted, resolved) ==
  LET prob    == IF predicted = {} THEN <<1, 2>> ELSE Probability(CHOOSE n \in predicted : TRUE)
      outcome == IF resolved THEN One ELSE Zero
      brier   == Times(Gap(prob, outcome), Gap(prob, outcome))
  IN  [score |-> OneMinus(brier), correct |-> (2 * prob[1] >= prob[2]) = resolved,
       pair |-> <<prob, resolved>>]

(* Claims of a response are asserted; those of a label may be hedged. The  *)
(* judge finds some claims of the response grounded in the inputs.         *)
SameClaim(c, d) == /\ c.type = d.type
                   /\ IF c.type = "actor" THEN Canonical(c.value) = Canonical(d.value)
                      ELSE c.value = d.value
ScoreSyn(claims, gold, grounded) ==
  LET matched   == {c \in gold : \E d \in claims : SameClaim(c, d)}
      recall    == IF gold = {} THEN One ELSE Frac(Cardinality(matched), Cardinality(gold))
      faith     == Frac(Cardinality(grounded), Cardinality(claims))
      calibration == OneMinus(Mean([c \in matched |-> c.hedge]))
      all       == Plus(recall, Plus(IF claims = {} THEN Zero ELSE Times(<<2, 1>>, faith),
                                     IF matched = {} THEN Zero ELSE calibration))
      weights   == 1 + (IF claims = {} THEN 0 ELSE 2) + (IF matched = {} THEN 0 ELSE 1)
  IN  Scored(Over(all, <<weights, 1>>), recall = One)

EvaluateItem(t, gold, answer, grounded) ==
  CASE t = "rcm" -> ScoreIds(answer, gold)
    [] t = "vsp" -> ScoreVsp(answer, gold)
    [] t = "ate" -> ScoreIds(NormaliseTechniques(answer, context.technique),
                             NormaliseTechniques(gold, context.technique))
    [] t = "taa" -> ScoreTaa(answer, gold)
    [] t = "forecast" -> ScoreForecast(answer, gold)
    [] t = "syn" -> ScoreSyn(answer, gold, grounded)
-----------------------------------------------------------------------------
(* The run *)

Undated == 0
Closed == [alias |-> << >>, related |-> << >>, technique |-> << >>, rows |-> << >>, open |-> FALSE]

ScoringInit ==
  /\ ReferenceInit
  /\ asked \in ScoredTasks
  /\ label \in [1..Questions -> LabelsOf(asked)]
  /\ date \in [1..Questions -> Undated..LastDate]
  /\ context = Closed
  /\ result = << >> /\ total = NoScore

(* Every attempt builds the indices from what the tables hold then.        *)
BuildContext ==
  LET taa == asked \in {"taa", "syn"}
  IN  [alias     |-> IF taa THEN BuildAliasIndex ELSE << >>,
       related   |-> IF asked = "taa" THEN BuildRelatedIndex ELSE << >>,
       technique |-> IF asked = "ate" THEN BuildTechniqueIndex ELSE << >>,
       rows      |-> IF taa THEN actors ELSE << >>,
       open      |-> TRUE]
StartScoring ==
  /\ context' = BuildContext
  /\ UNCHANGED <<reference, asked, label, date, result, total>>

ScoreAnswer(q) ==
  /\ context.open /\ q \notin DOMAIN result
  /\ \E lines \in AnswersTo(asked) :
       LET answer == ParseResponse(asked, lines)
       IN  \E grounded \in IF asked = "syn" THEN SUBSET answer ELSE {{}} :
             result' = [r \in DOMAIN result \cup {q} |->
               IF r # q THEN result[r]
               ELSE [scored   |-> EvaluateItem(asked, label[q], answer, grounded),
                     answer   |-> answer,
                     grounded |-> grounded,
                     by       |-> context]]
  /\ UNCHANGED <<reference, asked, label, date, context, total>>

(* Gama et al.: in the order of the dates, each weight fading by a factor. *)
Power[n \in 0..Questions] == IF n = 0 THEN One ELSE Times(Fading, Power[n - 1])
FadingMean(series) ==
  LET n == Len(series)
  IN  Over(PlusAll([i \in 1..n |-> Times(Power[n - i], series[i].score)]),
           PlusAll([i \in 1..n |-> Power[n - i]]))

(* A stable sort.                                                          *)
Sorted(series) ==
  LET before(i, j) == \/ series[i].date < series[j].date
                      \/ series[i].date = series[j].date /\ i < j
      place == CHOOSE f \in [DOMAIN series -> DOMAIN series] :
                 \A i, j \in DOMAIN series : i < j => before(f[i], f[j])
  IN  [i \in DOMAIN series |-> series[place[i]]]
PrequentialAccuracy_AsRead(series) == FadingMean(series)
PrequentialAccuracy(series) == FadingMean(Sorted(series))

PrequentialForRun(rows) ==
  IF rows = << >> THEN NoScore
  ELSE PrequentialAccuracy([i \in DOMAIN rows |->
         [date |-> date[rows[i]], score |-> result[rows[i]].scored.score]])

(* The share of the pairs of a resolved and an unresolved item in which    *)
(* the resolved one was given the higher probability.                      *)
AucForRun(rows) ==
  LET pair(i) == result[rows[i]].scored.pair
      pos == {i \in DOMAIN rows : pair(i)[2]}
      neg == DOMAIN rows \ pos
      wins == Cardinality({w \in pos \X neg : Less(pair(w[2])[1], pair(w[1])[1])})
      ties == Cardinality({w \in pos \X neg : pair(w[1])[1] = pair(w[2])[1]})
  IN  IF pos = {} \/ neg = {} THEN NoScore
      ELSE Frac(2 * wins + ties, 2 * Cardinality(pos \X neg))

(* The rows come from the database in no particular order.                 *)
AggregateRun ==
  /\ context.open
  /\ \E rows \in SetToSeqs(DOMAIN result) :
       total' = [prequential |-> PrequentialForRun(rows),
                 auc |-> IF asked = "forecast" THEN AucForRun(rows) ELSE NoScore]
  /\ context' = Closed
  /\ UNCHANGED <<reference, asked, label, date, result>>

Refresh == SyncReference /\ UNCHANGED run

ScoringNext ==
  \/ StartScoring
  \/ \E q \in 1..Questions : ScoreAnswer(q)
  \/ AggregateRun
  \/ Refresh

scoringVars == <<reference, run>>
ScoringSpec == ScoringInit /\ [][ScoringNext]_scoringVars
-----------------------------------------------------------------------------
(* Correctness *)

(* What the measures are for, said in other ways: the share of ids in      *)
(* common (Dice), nearness of base scores, actors as the table has them    *)
(* where it gives a name one meaning, and full marks for a synthesis.      *)
Dice(A, B) ==
  IF A \cup B = {} THEN One
  ELSE Frac(2 * Cardinality(A \cap B), Cardinality(A) + Cardinality(B))

Distance(q) == LET v == CHOOSE w \in result[q].answer : TRUE
               IN  IF v.base > label[q].base THEN v.base - label[q].base
                   ELSE label[q].base - v.base
NearerIsBetter ==
  \A q, r \in DOMAIN result :
    /\ \A v \in result[q].answer \cup result[r].answer : v.valid
    /\ result[q].answer # {} /\ result[r].answer # {}
    /\ Distance(q) <= Distance(r)
    => AtMost(result[r].scored.score, result[q].scored.score)

Meanings(rows, name) == {a \in Range(rows) : name \in Range(NamesOf(a))}
ActorCredit(q) ==
  LET by   == result[q].by
      mean(n) == Meanings(by.rows, n)
      said == CHOOSE n \in result[q].answer : TRUE
      score == result[q].scored.score
  IN  /\ result[q].answer = {} => score = Zero
      /\ (result[q].answer # {} /\ Cardinality(mean(said)) = 1
          /\ Cardinality(mean(label[q])) = 1) =>
           LET a == CHOOSE x \in mean(said) : TRUE
               b == CHOOSE x \in mean(label[q]) : TRUE
           IN  /\ score = One <=> a = b
               /\ score = <<1, 2>> <=> a # b /\ (a.name \in b.related \/ b.name \in a.related)

AllClaims(q) ==
  LET said == result[q].answer
      same(c, d) == c.type = d.type /\ (c.value = d.value \/ c.type = "actor")
  IN  /\ AtMost(result[q].scored.score, One)
      /\ result[q].scored.score = One =>
           /\ \A c \in label[q] : \E d \in said : same(c, d)
           /\ result[q].grounded = said
           /\ \A c \in label[q] : c.hedge = Zero

(* The recency-weighted mean, by how many results are of a later date.     *)
DatesApart == \A q, r \in DOMAIN result : q # r => date[q] # date[r]
Recency(q) == Power[Cardinality({r \in DOMAIN result : date[r] > date[q]})]
Weighted ==
  Over(PlusAll([q \in DOMAIN result |-> Times(Recency(q), result[q].scored.score)]),
       PlusAll([q \in DOMAIN result |-> Recency(q)]))

(* The AUC from the sum of the ranks (Wilcoxon).                           *)
RankSum ==
  LET p(q) == result[q].scored.pair[1]
      pos  == {q \in DOMAIN result : result[q].scored.pair[2]}
      n    == Cardinality(pos)
      twice(q) == 2 * Cardinality({r \in DOMAIN result : Less(p(r), p(q))})
                    + Cardinality({r \in DOMAIN result : p(r) = p(q)}) + 1
  IN  IF pos = {} \/ pos = DOMAIN result THEN NoScore
      ELSE Frac(SumOf([q \in pos |-> twice(q)]) - n * (n + 1),
                2 * n * (Cardinality(DOMAIN result) - n))

(* Every answer gets the score its task's measure stands for, under the    *)
(* reference data its attempt was run with; and the run's score is the     *)
(* recency-weighted mean, with the AUC of a forecast, whatever the attempts*)
(* that scored its items and in whatever order the database returns them,  *)
(* if no two items are of one date.                                        *)
ScoresMatchReference ==
  /\ \A q \in DOMAIN result :
       CASE asked = "rcm"  -> result[q].scored.score = Dice(result[q].answer, label[q])
         [] asked = "ate"  -> result[q].scored.score =
              Dice(NormaliseTechniques(result[q].answer, result[q].by.technique),
                   NormaliseTechniques(label[q], result[q].by.technique))
         [] asked = "taa"  -> ActorCredit(q)
         [] asked = "syn"  -> AllClaims(q)
         [] OTHER -> TRUE
  /\ asked = "vsp" => NearerIsBetter
  /\ (total # NoScore /\ ~context.open /\ DOMAIN result # {}) =>
       /\ DatesApart => total.prequential = Weighted
       /\ asked = "forecast" => total.auc = RankSum
=============================================================================
