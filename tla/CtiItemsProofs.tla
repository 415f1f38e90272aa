--------------------------- MODULE CtiItemsProofs ---------------------------
(***************************************************************************)
(* Proofs about CtiItems for every set of CVEs, labels and flow runs,      *)
(* every lookback and window, however long the system runs: what a session *)
(* has written and not committed still fits the rows it will meet, because *)
(* rows keep what identifies them and the feeds keep what they published.  *)
(***************************************************************************)
EXTENDS CtiItems, FiniteSetTheorems, SequenceTheorems, TLAPS

USE CtiItemsAssumption DEF world, flow

(* Functions on a part of S.                                               *)
Partial(S, T) == UNION {[D -> T] : D \in SUBSET S}

(* The function without arguments is one.                                  *)
LEMMA PartialEmpty ==
  ASSUME NEW S, NEW T PROVE <<>> \in Partial(S, T) /\ DOMAIN <<>> = {}
<1>1. <<>> \in [{} -> T]
  OBVIOUS
<1>. QED
  BY <1>1 DEF Partial

(* So is one with another pair.                                            *)
LEMMA WithType ==
  ASSUME NEW S, NEW T, NEW g \in Partial(S, T), NEW x \in S, NEW y \in T
  PROVE  /\ With(g, x, y) \in Partial(S, T)
         /\ DOMAIN With(g, x, y) = DOMAIN g \cup {x}
         /\ With(g, x, y)[x] = y
         /\ \A z \in DOMAIN g \ {x} : With(g, x, y)[z] = g[z]
<1>1. PICK D \in SUBSET S : g \in [D -> T]
  BY DEF Partial
<1>2. With(g, x, y) \in [D \cup {x} -> T]
  BY <1>1 DEF With
<1>. QED
  BY <1>1, <1>2 DEF With, Partial

(* A partial function has its domain in S and its values in T.             *)
LEMMA PartialValues ==
  ASSUME NEW S, NEW T, NEW g \in Partial(S, T)
  PROVE  DOMAIN g \subseteq S /\ \A x \in DOMAIN g : g[x] \in T
BY DEF Partial

Sessions == [fresh : SUBSET Rows, retired : SUBSET Nat,
             flags : Partial(Nat, BOOLEAN), answers : Partial(Nat, Dates)]

TypeInv ==
  /\ today \in Days
  /\ feed \in Partial(Cves, Records)
  /\ listed \in Partial(Cves, Dates)
  /\ items \in Seq(Rows)
  /\ kev \in Partial(Cves, Dates)
  /\ step \in [Flows -> {"idle", "upsert", "seed", "kev", "resolve"}]
  /\ batch \in [Flows -> Partial(Cves, Records \cup Dates)]
  /\ todo \in [Flows -> SUBSET Cves]
  /\ txn \in [Flows -> Sessions]
  /\ \A f \in Flows : IsFiniteSet(txn[f].fresh)

(* A row keeps to its record and, once answered, to the catalogue.         *)
RowInv(row) ==
  /\ row.cve \in DOMAIN feed
  /\ row.input = feed[row.cve].published
  /\ row.available = Later(row.input, row.labelled)
  /\ row.task = "rcm" =>
       row.label \in Labels /\ (row.withhold = TRUE \/ row.input <= today - Window)
  /\ row.task = "forecast" =>
       /\ row.label \in {TRUE, FALSE} /\ row.status = "active"
       /\ row.label = FALSE => row.labelled = NoDate
       /\ row.label = TRUE => row.cve \in DOMAIN listed /\ row.labelled = listed[row.cve]

(* What a session has written fits the rows it will meet.                  *)
SessionInv(f) ==
  /\ \A row \in txn[f].fresh : RowInv(row)
  /\ \A i \in txn[f].retired : i \in DOMAIN items /\ items[i].task = "rcm"
  /\ \A i \in DOMAIN txn[f].flags :
       /\ i \in DOMAIN items /\ items[i].task = "rcm"
       /\ txn[f].flags[i] = TRUE \/ items[i].input <= today - Window
  /\ \A i \in DOMAIN txn[f].answers :
       /\ i \in DOMAIN items /\ items[i].task = "forecast"
       /\ items[i].cve \in DOMAIN listed
       /\ txn[f].answers[i] = listed[items[i].cve]

(* What a flow run has fetched is still published.                         *)
FetchInv(f) ==
  /\ f \in CveFlows =>
       /\ step[f] \in {"idle", "upsert", "seed"}
       /\ \A c \in DOMAIN batch[f] :
            /\ c \in DOMAIN feed /\ batch[f][c] \in Records
            /\ batch[f][c].published = feed[c].published
       /\ step[f] = "upsert" =>
            \A c \in todo[f] : c \in DOMAIN batch[f] /\ batch[f][c].label # NoLabel
       /\ step[f] = "seed" => todo[f] \subseteq DOMAIN batch[f]
  /\ f \in KevFlows =>
       /\ step[f] \in {"idle", "kev", "resolve"}
       /\ \A c \in DOMAIN batch[f] : c \in DOMAIN listed /\ batch[f][c] = listed[c]
       /\ step[f] = "resolve" => todo[f] \subseteq DOMAIN batch[f]

StoreInv ==
  /\ \A c \in DOMAIN feed : feed[c].published <= today
  /\ \A c \in DOMAIN kev : c \in DOMAIN listed /\ kev[c] = listed[c]
  /\ \A i \in DOMAIN items : RowInv(items[i])
  /\ \A f \in Flows : SessionInv(f) /\ FetchInv(f)

ItemsInv == TypeInv /\ StoreInv

(* Nothing is published, fetched or stored at the start. *)
LEMMA ItemsInit == Init => ItemsInv
<1>. SUFFICES ASSUME Init PROVE ItemsInv
  OBVIOUS
<1>. USE DEF Init
<1>1. Nothing \in Sessions /\ IsFiniteSet(Nothing.fresh)
  BY PartialEmpty, FS_EmptySet DEF Nothing, Sessions
<1>2. TypeInv
  BY <1>1, PartialEmpty DEF TypeInv, Days
<1>3. ASSUME NEW f \in Flows PROVE SessionInv(f)
  BY PartialEmpty DEF SessionInv, Nothing
<1>4. ASSUME NEW f \in Flows PROVE FetchInv(f)
  BY PartialEmpty DEF FetchInv, Flows
<1>. QED
  BY <1>2, <1>3, <1>4, PartialEmpty DEF ItemsInv, StoreInv
-----------------------------------------------------------------------------
(* Time and feeds only go on, and rows keep what identifies them.          *)
Grows ==
  /\ today <= today'
  /\ \A c \in DOMAIN feed : c \in DOMAIN feed' /\ feed'[c].published = feed[c].published
  /\ \A c \in DOMAIN listed : c \in DOMAIN listed' /\ listed'[c] = listed[c]

SameRow(row, new) == new.task = row.task /\ new.cve = row.cve /\ new.input = row.input
RowsKept == \A i \in DOMAIN items : i \in DOMAIN items' /\ SameRow(items[i], items'[i])

(* A row that fits the feeds goes on to fit them.                          *)
LEMMA RowFrame ==
  ASSUME TypeInv, TypeInv', Grows
  PROVE  \A row \in Rows : RowInv(row) => RowInv(row)'
<1>. SUFFICES ASSUME NEW row \in Rows, RowInv(row) PROVE RowInv(row)'
  OBVIOUS
<1>1. today \in Int /\ today' \in Int /\ Window \in Int /\ row.input \in Int
  BY DEF TypeInv, Days, Rows, Dates, NoDate
<1>2. /\ row.cve \in DOMAIN feed'
      /\ row.input = feed'[row.cve].published
      /\ row.available = Later(row.input, row.labelled)
  BY DEF RowInv, Grows
<1>3. ASSUME row.task = "rcm"
      PROVE  row.label \in Labels /\ (row.withhold = TRUE \/ row.input <= today' - Window)
  BY <1>1, <1>3 DEF RowInv, Grows
<1>4. ASSUME row.task = "forecast"
      PROVE  /\ row.label \in {TRUE, FALSE} /\ row.status = "active"
             /\ row.label = FALSE => row.labelled = NoDate
             /\ row.label = TRUE => row.cve \in DOMAIN listed'
                                    /\ row.labelled = listed'[row.cve]
  BY <1>4 DEF RowInv, Grows
<1>. QED
  BY <1>2, <1>3, <1>4 DEF RowInv

(* So does a session that nobody writes to, whatever others commit.        *)
LEMMA SessionFrame ==
  ASSUME TypeInv, TypeInv', Grows, RowsKept, NEW f \in Flows, SessionInv(f), txn'[f] = txn[f]
  PROVE  SessionInv(f)'
<1>1. \A row \in txn[f].fresh : RowInv(row)'
  BY RowFrame DEF SessionInv, TypeInv, Sessions
<1>2. \A i \in txn[f].retired : i \in DOMAIN items' /\ items'[i].task = "rcm"
  BY DEF SessionInv, RowsKept, SameRow
<1>3. ASSUME NEW i \in DOMAIN txn[f].flags
      PROVE  /\ i \in DOMAIN items' /\ items'[i].task = "rcm"
             /\ txn[f].flags[i] = TRUE \/ items'[i].input <= today' - Window
  <2>1. i \in DOMAIN items /\ items[i] \in Rows /\ today \in Int /\ today' \in Int
    BY <1>3 DEF SessionInv, TypeInv, Days
  <2>2. items[i].input \in Int /\ items'[i].input = items[i].input /\ Window \in Int
    BY <2>1 DEF Rows, Dates, Days, NoDate, RowsKept, SameRow
  <2>. QED
    BY <1>3, <2>1, <2>2 DEF SessionInv, RowsKept, SameRow, Grows
<1>4. \A i \in DOMAIN txn[f].answers :
        /\ i \in DOMAIN items' /\ items'[i].task = "forecast"
        /\ items'[i].cve \in DOMAIN listed'
        /\ txn[f].answers[i] = listed'[items'[i].cve]
  BY DEF SessionInv, RowsKept, SameRow, Grows
<1>. QED
  BY <1>1, <1>2, <1>3, <1>4 DEF SessionInv

(* So does what a flow run has fetched.                                    *)
LEMMA FetchFrame ==
  ASSUME TypeInv, Grows, NEW f \in Flows, FetchInv(f),
         step'[f] = step[f], batch'[f] = batch[f], todo'[f] = todo[f]
  PROVE  FetchInv(f)'
BY DEF FetchInv, Grows

(* What each update of a row does to its fields.                           *)
LEMMA Flagging ==
  ASSUME NEW row \in Rows, NEW w \in BOOLEAN
  PROVE  /\ Flagged(row, w) \in Rows /\ Flagged(row, w).withhold = w
         /\ \A x \in DOMAIN row \ {"withhold"} : Flagged(row, w)[x] = row[x]
BY DEF Rows, Flagged

LEMMA Retiring ==
  ASSUME NEW row \in Rows
  PROVE  /\ Retired(row) \in Rows /\ Retired(row).status = "superseded"
         /\ \A x \in DOMAIN row \ {"status"} : Retired(row)[x] = row[x]
BY DEF Rows, Retired

LEMMA Answering ==
  ASSUME NEW row \in Rows, NEW d \in Dates, Anchor(row, d) \in Dates
  PROVE  LET new == Answered(row, d) IN
           /\ new \in Rows /\ new.label = TRUE /\ new.labelled = d
           /\ new.available = Anchor(row, d)
           /\ \A x \in DOMAIN row \ {"label", "labelled", "available"} : new[x] = row[x]
BY DEF Rows, Answered

LEMMA SameFields ==
  ASSUME NEW row \in Rows, NEW new \in Rows, \A x \in DOMAIN row : new[x] = row[x]
  PROVE  new = row
BY DEF Rows

(* An update that answers a forecast fits the catalogue.                   *)
LEMMA AnsweredRow ==
  ASSUME TypeInv, NEW row \in Rows, RowInv(row), row.task = "forecast",
         row.cve \in DOMAIN listed
  PROVE  LET new == Answered(row, listed[row.cve]) IN
           /\ new \in Rows /\ RowInv(new) /\ SameRow(row, new)
           /\ row.label = TRUE => new = row
<1>. DEFINE d   == listed[row.cve]
            new == Answered(row, d)
<1>1. d \in Dates
  <2>1. listed \in Partial(Cves, Dates)
    BY DEF TypeInv
  <2>. QED
    BY <2>1, PartialValues
<1>2. /\ row.input \in Int /\ d \in Int /\ row.input >= -1 /\ d >= -1
      /\ row.input \in Dates /\ row.label \in {TRUE, FALSE}
  <2>1. row.input \in Dates
    BY DEF Rows
  <2>2. row.label \in {TRUE, FALSE}
    BY DEF RowInv
  <2>3. \A x \in Dates : x \in Int /\ x >= -1
    BY DEF Dates, Days, NoDate
  <2>. HIDE DEF d
  <2>. QED
    BY <1>1, <2>1, <2>2, <2>3
<1>3. Anchor(row, d) = Later(row.input, d)
  <2>1. CASE d = NoDate
    BY <1>2, <2>1 DEF Anchor, Later, RowInv, NoDate
  <2>2. CASE d # NoDate
    BY <1>2, <2>2 DEF Anchor, Later
  <2>. QED
    BY <2>1, <2>2
<1>4. Anchor(row, d) \in Dates
  BY <1>1, <1>2, <1>3 DEF Later
<1>5. /\ new \in Rows /\ new.label = TRUE /\ new.labelled = d
      /\ new.available = Anchor(row, d)
      /\ \A x \in DOMAIN row \ {"label", "labelled", "available"} : new[x] = row[x]
  BY <1>1, <1>4, Answering
<1>6. /\ new.task = row.task /\ new.cve = row.cve /\ new.input = row.input
      /\ new.withhold = row.withhold /\ new.status = row.status
  BY <1>5 DEF Rows
<1>. HIDE DEF new
<1>7. RowInv(new)
  BY <1>2, <1>3, <1>5, <1>6 DEF RowInv
<1>8. ASSUME row.label = TRUE PROVE new = row
  <2>1. row.labelled = d /\ row.available = Later(row.input, d)
    BY <1>8 DEF RowInv
  <2>2. \A x \in DOMAIN row : new[x] = row[x]
    BY <1>3, <1>5, <1>8, <2>1
  <2>. QED
    BY <1>5, <2>2, SameFields
<1>. QED
  BY <1>5, <1>6, <1>7, <1>8 DEF SameRow, new
(* What a row that runs have scored becomes.                               *)
RowHistory(row, new) ==
  /\ row.task = "rcm" =>
       /\ \A field \in DOMAIN row \ {"withhold", "status"} : new[field] = row[field]
       /\ row.status = "superseded" => new.status = "superseded"
  /\ row.label = TRUE => new = row

(* A commit's updates change a row only where it may change.               *)
LEMMA UpdatedRow ==
  ASSUME TypeInv, NEW t \in Sessions, NEW i \in DOMAIN items, RowInv(items[i]),
         i \in t.retired => items[i].task = "rcm",
         i \in DOMAIN t.flags =>
           items[i].task = "rcm" /\ (t.flags[i] = TRUE \/ items[i].input <= today - Window),
         i \in DOMAIN t.answers =>
           /\ items[i].task = "forecast" /\ items[i].cve \in DOMAIN listed
           /\ t.answers[i] = listed[items[i].cve]
  PROVE  LET new == Updated(t, i) IN
           /\ new \in Rows /\ RowInv(new) /\ SameRow(items[i], new)
           /\ RowHistory(items[i], new)
<1>. DEFINE old  == items[i]
            row  == IF i \in DOMAIN t.answers THEN Answered(old, t.answers[i]) ELSE old
            kept == IF i \in DOMAIN t.flags THEN Flagged(row, t.flags[i]) ELSE row
            new  == IF i \in t.retired THEN Retired(kept) ELSE kept
<1>1. old \in Rows
  BY DEF TypeInv
<1>2. old.task \in {"rcm", "forecast"}
  BY <1>1 DEF Rows
<1>3. Updated(t, i) = new
  BY DEF Updated
<1>4. CASE old.task = "forecast"
  <2>1. i \notin t.retired /\ i \notin DOMAIN t.flags
    BY <1>4
  <2>2. new = row
    BY <2>1
  <2>3. /\ row \in Rows /\ RowInv(row) /\ SameRow(old, row)
        /\ old.label = TRUE => row = old
    BY <1>1, <1>4, AnsweredRow DEF SameRow
  <2>. HIDE DEF row, kept, new, old
  <2>. QED
    BY <1>3, <1>4, <2>2, <2>3 DEF old, RowHistory
<1>5. CASE old.task = "rcm"
  <2>1. row = old /\ old.label \in Labels
    BY <1>5 DEF RowInv
  <2>2. old.label # TRUE
    BY <2>1
  <2>3. /\ kept \in Rows
        /\ \A x \in DOMAIN old \ {"withhold"} : kept[x] = old[x]
        /\ kept.withhold = TRUE \/ old.input <= today - Window
    <3>1. CASE i \in DOMAIN t.flags
      <4>1. t.flags[i] \in BOOLEAN
        BY <3>1, PartialValues DEF Sessions
      <4>. QED
        BY <1>1, <2>1, <3>1, <4>1, Flagging
    <3>2. CASE i \notin DOMAIN t.flags
      BY <1>1, <1>5, <2>1, <3>2 DEF RowInv
    <3>. QED
      BY <3>1, <3>2
  <2>. HIDE DEF kept, row
  <2>4. /\ new \in Rows
        /\ \A x \in DOMAIN old \ {"withhold", "status"} : new[x] = old[x]
        /\ new.withhold = TRUE \/ old.input <= today - Window
        /\ old.status = "superseded" => new.status = "superseded"
    <3>1. CASE i \in t.retired
      <4>1. /\ Retired(kept) \in Rows /\ Retired(kept).status = "superseded"
            /\ \A x \in DOMAIN kept \ {"status"} : Retired(kept)[x] = kept[x]
        BY <2>3, Retiring
      <4>2. DOMAIN kept = DOMAIN old /\ "withhold" \in DOMAIN kept
        BY <1>1, <2>3 DEF Rows
      <4>. QED
        BY <2>3, <3>1, <4>1, <4>2
    <3>2. CASE i \notin t.retired
      BY <1>1, <2>3, <3>2 DEF Rows
    <3>. QED
      BY <3>1, <3>2
  <2>. HIDE DEF new
  <2>5. /\ new.task = old.task /\ new.cve = old.cve /\ new.label = old.label
        /\ new.input = old.input /\ new.labelled = old.labelled
        /\ new.available = old.available
    BY <1>1, <2>4 DEF Rows
  <2>6. RowInv(new)
    BY <1>5, <2>1, <2>4, <2>5 DEF RowInv
  <2>. QED
    BY <1>3, <1>5, <2>2, <2>4, <2>5, <2>6 DEF SameRow, RowHistory
<1>. QED
  BY <1>2, <1>4, <1>5
-----------------------------------------------------------------------------
(* What a commit does: the rows it updates and the rows it adds fit the    *)
(* feeds.                                                                  *)
LEMMA OrderedRows ==
  ASSUME NEW S \in SUBSET Rows, IsFiniteSet(S), NEW new \in Orders(S)
  PROVE  new \in Seq(Rows) /\ \A i \in DOMAIN new : new[i] \in S
<1>1. Cardinality(S) \in Nat /\ new \in [1..Cardinality(S) -> S]
  BY FS_CardinalityType DEF Orders
<1>. QED
  BY <1>1

LEMMA CommitRows ==
  ASSUME ItemsInv, NEW f \in Flows, Commit(f)
  PROVE  /\ items' \in Seq(Rows) /\ RowsKept
         /\ \A i \in DOMAIN items : i \in DOMAIN items' /\ RowHistory(items[i], items'[i])
         /\ \A i \in DOMAIN items' : RowInv(items'[i])
<1>1. PICK new \in Orders(txn[f].fresh) :
        items' = [i \in DOMAIN items |-> Updated(txn[f], i)] \o new
  BY DEF Commit
<1>2. /\ txn[f] \in Sessions /\ txn[f].fresh \in SUBSET Rows /\ IsFiniteSet(txn[f].fresh)
      /\ SessionInv(f) /\ items \in Seq(Rows)
  BY DEF ItemsInv, TypeInv, StoreInv, Sessions
<1>3. new \in Seq(Rows) /\ \A i \in DOMAIN new : new[i] \in txn[f].fresh
  BY <1>1, <1>2, OrderedRows
<1>4. ASSUME NEW i \in DOMAIN items
      PROVE  /\ Updated(txn[f], i) \in Rows /\ RowInv(Updated(txn[f], i))
             /\ SameRow(items[i], Updated(txn[f], i))
             /\ RowHistory(items[i], Updated(txn[f], i))
  BY <1>2, UpdatedRow DEF ItemsInv, StoreInv, SessionInv
<1>. DEFINE old == [i \in DOMAIN items |-> Updated(txn[f], i)]
<1>5. old \in Seq(Rows) /\ DOMAIN old = DOMAIN items /\ Len(old) = Len(items)
  <2>1. DOMAIN items = 1..Len(items) /\ Len(items) \in Nat
    BY <1>2
  <2>2. old \in [1..Len(items) -> Rows]
    BY <1>4, <2>1
  <2>. QED
    BY <2>1, <2>2
<1>6. \A i \in DOMAIN items : old[i] = Updated(txn[f], i)
  OBVIOUS
<1>. HIDE DEF old
<1>7. items' = old \o new
  BY <1>1 DEF old
<1>8. /\ items' \in Seq(Rows)
      /\ \A i \in DOMAIN items : i \in DOMAIN items' /\ items'[i] = old[i]
      /\ \A i \in DOMAIN items' : i \in DOMAIN items \/ \E j \in DOMAIN new : items'[i] = new[j]
  <2>1. /\ Len(items') = Len(old) + Len(new) /\ items' \in Seq(Rows)
        /\ \A i \in 1..Len(items') :
             items'[i] = IF i <= Len(old) THEN old[i] ELSE new[i - Len(old)]
    BY <1>3, <1>5, <1>7, ConcatProperties
  <2>2. /\ DOMAIN items = 1..Len(old) /\ DOMAIN items' = 1..Len(items')
        /\ DOMAIN new = 1..Len(new) /\ Len(old) \in Nat /\ Len(new) \in Nat
    BY <1>2, <1>3, <1>5, <2>1
  <2>3. ASSUME NEW i \in DOMAIN items', i \notin DOMAIN items
        PROVE  i - Len(old) \in DOMAIN new /\ items'[i] = new[i - Len(old)]
    BY <2>1, <2>2, <2>3
  <2>. QED
    BY <2>1, <2>2, <2>3
<1>9. \A row \in txn[f].fresh : row \in Rows /\ RowInv(row)
  BY <1>2 DEF SessionInv
<1>10. \A i \in DOMAIN items' : RowInv(items'[i])
  BY <1>3, <1>4, <1>6, <1>8, <1>9
<1>. QED
  BY <1>4, <1>6, <1>8, <1>10 DEF RowsKept

(* A step that keeps the feeds and the rows, and after which its flow run  *)
(* fits them.                                                              *)
LEMMA FlowStep ==
  ASSUME ItemsInv, TypeInv', NEW f \in Flows, UNCHANGED <<today, feed, listed>>, RowsKept,
         SessionInv(f)', FetchInv(f)',
         \A g \in Flows \ {f} : /\ step'[g] = step[g] /\ batch'[g] = batch[g]
                                /\ todo'[g] = todo[g] /\ txn'[g] = txn[g],
         \A c \in DOMAIN kev' : c \in DOMAIN listed /\ kev'[c] = listed[c],
         \A i \in DOMAIN items' : RowInv(items[i])'
  PROVE  ItemsInv'
<1>1. Grows
  BY DEF Grows, ItemsInv, TypeInv, Days
<1>2. \A g \in Flows \ {f} : SessionInv(g)' /\ FetchInv(g)'
  BY <1>1, SessionFrame, FetchFrame DEF ItemsInv, StoreInv
<1>3. \A c \in DOMAIN feed' : feed'[c].published <= today'
  BY DEF ItemsInv, StoreInv
<1>. QED
  BY <1>2, <1>3 DEF ItemsInv, StoreInv
-----------------------------------------------------------------------------
(* The world: days pass, records are published and revised, CVEs listed. *)
LEMMA WorldFrame ==
  ASSUME ItemsInv, Grows, today' \in Days, feed' \in Partial(Cves, Records),
         listed' \in Partial(Cves, Dates), UNCHANGED <<items, kev, flow>>,
         \A c \in DOMAIN feed' : feed'[c].published <= today'
  PROVE  ItemsInv'
<1>1. TypeInv'
  BY DEF ItemsInv, TypeInv
<1>2. TypeInv /\ RowsKept
  BY DEF ItemsInv, RowsKept, SameRow
<1>3. \A f \in Flows : SessionInv(f)' /\ FetchInv(f)'
  BY <1>1, <1>2, SessionFrame, FetchFrame DEF ItemsInv, StoreInv
<1>4. \A i \in DOMAIN items' : RowInv(items[i])'
  <2>1. \A i \in DOMAIN items : items[i] \in Rows /\ RowInv(items[i])
    BY DEF ItemsInv, StoreInv, TypeInv
  <2>2. \A row \in Rows : RowInv(row) => RowInv(row)'
    BY <1>1, <1>2, RowFrame
  <2>3. \A i \in DOMAIN items : RowInv(items[i])'
    <3>. TAKE i \in DOMAIN items
    <3>. DEFINE row == items[i]
    <3>1. RowInv(row)' /\ items'[i] = row
      BY <2>1, <2>2
    <3>. QED
      BY <3>1
  <2>. QED
    BY <2>3
<1>5. \A c \in DOMAIN kev' : c \in DOMAIN listed' /\ kev'[c] = listed'[c]
  BY DEF ItemsInv, StoreInv, Grows
<1>. QED
  BY <1>1, <1>3, <1>4, <1>5 DEF ItemsInv, StoreInv

LEMMA WorldStep ==
  ASSUME ItemsInv, NextDay \/ \E c \in Cves : Publish(c) \/ Revise(c) \/ List(c)
  PROVE  ItemsInv' /\ UNCHANGED items
<1>. USE DEF ItemsInv
<1>1. /\ today \in Days /\ today \in Int /\ feed \in Partial(Cves, Records)
      /\ listed \in Partial(Cves, Dates) /\ LastDay \in Int
      /\ \A c \in DOMAIN feed : feed[c] \in Records /\ feed[c].published <= today
  BY PartialValues DEF TypeInv, StoreInv, Days
<1>2. \A c \in DOMAIN feed : feed[c].published \in Int
  BY <1>1 DEF Records, Days
<1>3. CASE NextDay
  <2>1. /\ today' \in Days /\ today <= today' /\ feed' = feed /\ listed' = listed
        /\ today' \in Int /\ UNCHANGED <<items, kev, flow>>
    BY <1>1, <1>3 DEF NextDay, Days
  <2>2. Grows
    BY <2>1 DEF Grows
  <2>3. \A c \in DOMAIN feed' : feed'[c].published <= today'
    BY <1>1, <1>2, <2>1
  <2>. QED
    BY <1>1, <2>1, <2>2, <2>3, WorldFrame
<1>4. ASSUME NEW c \in Cves, Publish(c) PROVE ItemsInv' /\ UNCHANGED items
  <2>1. PICK l \in Labels \cup {NoLabel} :
          feed' = With(feed, c, Record(l, today, today))
    BY <1>4 DEF Publish
  <2>. DEFINE rec == Record(l, today, today)
  <2>2. rec \in Records /\ rec.published = today
    BY <1>1 DEF Records, Dates, Record
  <2>. HIDE DEF rec
  <2>3. /\ feed' \in Partial(Cves, Records) /\ DOMAIN feed' = DOMAIN feed \cup {c}
        /\ feed'[c] = rec /\ \A z \in DOMAIN feed \ {c} : feed'[z] = feed[z]
    <3>1. feed' = With(feed, c, rec)
      BY <2>1 DEF rec
    <3>2. c \in Cves /\ rec \in Records /\ feed \in Partial(Cves, Records)
      BY <1>1, <2>2
    <3>3. /\ With(feed, c, rec) \in Partial(Cves, Records)
          /\ DOMAIN With(feed, c, rec) = DOMAIN feed \cup {c}
          /\ With(feed, c, rec)[c] = rec
          /\ \A z \in DOMAIN feed \ {c} : With(feed, c, rec)[z] = feed[z]
      BY <3>2, WithType
    <3>. QED
      BY <3>1, <3>3
  <2>4. /\ c \notin DOMAIN feed /\ today' = today /\ listed' = listed
        /\ UNCHANGED <<items, kev, flow>>
    BY <1>4 DEF Publish
  <2>5. Grows
    BY <1>1, <2>3, <2>4 DEF Grows
  <2>6. \A z \in DOMAIN feed' : feed'[z].published <= today'
    BY <1>1, <2>2, <2>3, <2>4
  <2>. QED
    BY <1>1, <2>3, <2>4, <2>5, <2>6, WorldFrame
<1>5. ASSUME NEW c \in Cves, Revise(c) PROVE ItemsInv' /\ UNCHANGED items
  <2>1. PICK l \in Labels, d \in {feed[c].published, today, NoDate} :
          feed' = With(feed, c, Record(l, d, feed[c].published))
    BY <1>5 DEF Revise
  <2>. DEFINE rec == Record(l, d, feed[c].published)
  <2>2. /\ c \in DOMAIN feed /\ today' = today /\ listed' = listed
        /\ UNCHANGED <<items, kev, flow>>
    BY <1>5 DEF Revise
  <2>3. rec \in Records /\ rec.published = feed[c].published
    BY <1>1, <2>2 DEF Records, Dates, Record
  <2>. HIDE DEF rec
  <2>4. /\ feed' \in Partial(Cves, Records) /\ DOMAIN feed' = DOMAIN feed \cup {c}
        /\ feed'[c] = rec /\ \A z \in DOMAIN feed \ {c} : feed'[z] = feed[z]
    <3>1. feed' = With(feed, c, rec)
      BY <2>1 DEF rec
    <3>2. c \in Cves /\ rec \in Records /\ feed \in Partial(Cves, Records)
      BY <1>1, <2>3
    <3>3. /\ With(feed, c, rec) \in Partial(Cves, Records)
          /\ DOMAIN With(feed, c, rec) = DOMAIN feed \cup {c}
          /\ With(feed, c, rec)[c] = rec
          /\ \A z \in DOMAIN feed \ {c} : With(feed, c, rec)[z] = feed[z]
      BY <3>2, WithType
    <3>. QED
      BY <3>1, <3>3
  <2>5. Grows
    BY <1>1, <2>2, <2>3, <2>4 DEF Grows
  <2>6. \A z \in DOMAIN feed' : feed'[z].published <= today'
    BY <1>1, <2>2, <2>3, <2>4
  <2>. QED
    BY <1>1, <2>2, <2>4, <2>5, <2>6, WorldFrame
<1>6. ASSUME NEW c \in Cves, List(c) PROVE ItemsInv' /\ UNCHANGED items
  <2>1. PICK d \in {today, NoDate} : listed' = With(listed, c, d)
    BY <1>6 DEF List
  <2>2. d \in Dates
    BY <1>1 DEF Dates
  <2>3. /\ listed' \in Partial(Cves, Dates) /\ DOMAIN listed' = DOMAIN listed \cup {c}
        /\ \A z \in DOMAIN listed \ {c} : listed'[z] = listed[z]
    <3>1. /\ With(listed, c, d) \in Partial(Cves, Dates)
          /\ DOMAIN With(listed, c, d) = DOMAIN listed \cup {c}
          /\ \A z \in DOMAIN listed \ {c} : With(listed, c, d)[z] = listed[z]
      BY <1>1, <2>2, WithType
    <3>. QED
      BY <2>1, <3>1
  <2>4. /\ c \notin DOMAIN listed /\ today' = today /\ feed' = feed
        /\ UNCHANGED <<items, kev, flow>>
    BY <1>6 DEF List
  <2>5. Grows
    BY <1>1, <2>3, <2>4 DEF Grows
  <2>. QED
    BY <1>1, <2>3, <2>4, <2>5, WorldFrame
<1>. QED
  <2>1. NextDay => UNCHANGED items
    BY DEF NextDay
  <2>. QED
    BY <1>3, <1>4, <1>5, <1>6, <2>1
-----------------------------------------------------------------------------
(* The flow runs.  What a session may write, and what a step of one flow   *)
(* run leaves of the others.                                               *)
WithRows(m, f, S) == [m EXCEPT ![f].fresh = @ \cup S]
WithVersion(m, f, row, i) == [m EXCEPT ![f].retired = @ \cup {i}, ![f].fresh = @ \cup {row}]
WithFlag(m, f, i, w) == [m EXCEPT ![f].flags = With(@, i, w)]
WithAnswer(m, f, i, d) == [m EXCEPT ![f].answers = With(@, i, d)]

LEMMA WriteRows ==
  ASSUME NEW m \in [Flows -> Sessions], NEW f \in Flows, NEW S \in SUBSET Rows,
         IsFiniteSet(S), IsFiniteSet(m[f].fresh)
  PROVE  LET n == WithRows(m, f, S) IN
           /\ n \in [Flows -> Sessions] /\ \A g \in Flows \ {f} : n[g] = m[g]
           /\ n[f].fresh = m[f].fresh \cup S /\ IsFiniteSet(n[f].fresh)
           /\ n[f].retired = m[f].retired /\ n[f].flags = m[f].flags
           /\ n[f].answers = m[f].answers
<1>. USE DEF WithRows
<1>. DEFINE n == WithRows(m, f, S)
<1>1. n[f].fresh = m[f].fresh \cup S
  BY DEF Sessions
<1>2. IsFiniteSet(n[f].fresh)
  <2>1. IsFiniteSet(m[f].fresh \cup S)
    BY FS_Union
  <2>. QED
    BY <1>1, <2>1
<1>3. n \in [Flows -> Sessions] /\ \A g \in Flows \ {f} : n[g] = m[g]
  <2>1. m[f] \in Sessions /\ m[f].fresh \cup S \in SUBSET Rows
    BY DEF Sessions
  <2>2. [m[f] EXCEPT !.fresh = m[f].fresh \cup S] \in Sessions
    BY <2>1 DEF Sessions
  <2>. QED
    BY <2>2
<1>4. n[f].retired = m[f].retired /\ n[f].flags = m[f].flags /\ n[f].answers = m[f].answers
  BY DEF Sessions
<1>. QED
  BY <1>1, <1>2, <1>3, <1>4

LEMMA WriteRow ==
  ASSUME NEW m \in [Flows -> Sessions], NEW f \in Flows, NEW row \in Rows,
         IsFiniteSet(m[f].fresh)
  PROVE  LET n == WithRows(m, f, {row}) IN
           /\ n \in [Flows -> Sessions] /\ \A g \in Flows \ {f} : n[g] = m[g]
           /\ n[f].fresh = m[f].fresh \cup {row} /\ IsFiniteSet(n[f].fresh)
           /\ n[f].retired = m[f].retired /\ n[f].flags = m[f].flags
           /\ n[f].answers = m[f].answers
<1>. DEFINE S == {row}
<1>1. S \in SUBSET Rows /\ IsFiniteSet(S)
  BY FS_Singleton
<1>. HIDE DEF S
<1>2. LET n == WithRows(m, f, S) IN
        /\ n \in [Flows -> Sessions] /\ \A g \in Flows \ {f} : n[g] = m[g]
        /\ n[f].fresh = m[f].fresh \cup S /\ IsFiniteSet(n[f].fresh)
        /\ n[f].retired = m[f].retired /\ n[f].flags = m[f].flags
        /\ n[f].answers = m[f].answers
  BY <1>1, WriteRows
<1>. QED
  BY <1>2 DEF S

LEMMA WriteVersion ==
  ASSUME NEW m \in [Flows -> Sessions], NEW f \in Flows, NEW row \in Rows, NEW i \in Nat,
         IsFiniteSet(m[f].fresh)
  PROVE  LET n == WithVersion(m, f, row, i) IN
           /\ n \in [Flows -> Sessions] /\ \A g \in Flows \ {f} : n[g] = m[g]
           /\ n[f].fresh = m[f].fresh \cup {row} /\ IsFiniteSet(n[f].fresh)
           /\ n[f].retired = m[f].retired \cup {i} /\ n[f].flags = m[f].flags
           /\ n[f].answers = m[f].answers
<1>. DEFINE k == [m EXCEPT ![f].retired = @ \cup {i}]
            n == WithRows(k, f, {row})
<1>1. /\ k \in [Flows -> Sessions] /\ \A g \in Flows \ {f} : k[g] = m[g]
      /\ k[f].retired = m[f].retired \cup {i}
      /\ k[f].fresh = m[f].fresh /\ k[f].flags = m[f].flags /\ k[f].answers = m[f].answers
  BY DEF Sessions
<1>. HIDE DEF k
<1>2. /\ n \in [Flows -> Sessions] /\ \A g \in Flows \ {f} : n[g] = k[g]
      /\ n[f].fresh = k[f].fresh \cup {row} /\ IsFiniteSet(n[f].fresh)
      /\ n[f].retired = k[f].retired /\ n[f].flags = k[f].flags
      /\ n[f].answers = k[f].answers
  BY <1>1, WriteRow
<1>3. n = WithVersion(m, f, row, i)
  BY DEF k, WithRows, WithVersion
<1>. HIDE DEF n
<1>. QED
  BY <1>1, <1>2, <1>3

LEMMA WriteFlag ==
  ASSUME NEW m \in [Flows -> Sessions], NEW f \in Flows, NEW i \in Nat, NEW w \in BOOLEAN,
         IsFiniteSet(m[f].fresh)
  PROVE  LET n == WithFlag(m, f, i, w) IN
           /\ n \in [Flows -> Sessions] /\ \A g \in Flows \ {f} : n[g] = m[g]
           /\ n[f].flags = With(m[f].flags, i, w) /\ IsFiniteSet(n[f].fresh)
           /\ n[f].fresh = m[f].fresh /\ n[f].retired = m[f].retired
           /\ n[f].answers = m[f].answers
<1>1. m[f].flags \in Partial(Nat, BOOLEAN)
  BY DEF Sessions
<1>2. With(m[f].flags, i, w) \in Partial(Nat, BOOLEAN)
  BY <1>1, WithType
<1>. QED
  BY <1>2 DEF Sessions, WithFlag

LEMMA WriteAnswer ==
  ASSUME NEW m \in [Flows -> Sessions], NEW f \in Flows, NEW i \in Nat, NEW d \in Dates,
         IsFiniteSet(m[f].fresh)
  PROVE  LET n == WithAnswer(m, f, i, d) IN
           /\ n \in [Flows -> Sessions] /\ \A g \in Flows \ {f} : n[g] = m[g]
           /\ n[f].answers = With(m[f].answers, i, d) /\ IsFiniteSet(n[f].fresh)
           /\ n[f].fresh = m[f].fresh /\ n[f].retired = m[f].retired
           /\ n[f].flags = m[f].flags
<1>1. m[f].answers \in Partial(Nat, Dates)
  BY DEF Sessions
<1>2. With(m[f].answers, i, d) \in Partial(Nat, Dates)
  BY <1>1, WithType
<1>. QED
  BY <1>2 DEF Sessions, WithAnswer

LEMMA FlowType ==
  ASSUME TypeInv, NEW f \in Flows, UNCHANGED <<today, feed, listed>>,
         items' \in Seq(Rows), kev' \in Partial(Cves, Dates),
         NEW s \in {"idle", "upsert", "seed", "kev", "resolve"},
         NEW b \in Partial(Cves, Records \cup Dates), NEW d \in SUBSET Cves,
         step' = [step EXCEPT ![f] = s], batch' = [batch EXCEPT ![f] = b],
         todo' = [todo EXCEPT ![f] = d],
         txn' \in [Flows -> Sessions], IsFiniteSet(txn'[f].fresh),
         \A g \in Flows \ {f} : txn'[g] = txn[g]
  PROVE  /\ TypeInv'
         /\ step'[f] = s /\ batch'[f] = b /\ todo'[f] = d
         /\ \A g \in Flows \ {f} : /\ step'[g] = step[g] /\ batch'[g] = batch[g]
                                   /\ todo'[g] = todo[g] /\ txn'[g] = txn[g]
<1>1. \A g \in Flows : IsFiniteSet(txn'[g].fresh)
  BY DEF TypeInv
<1>. QED
  BY <1>1 DEF TypeInv

(* An empty session fits any rows.                                         *)
LEMMA NothingFits ==
  ASSUME NEW f \in Flows, txn'[f] = Nothing
  PROVE  /\ Nothing \in Sessions /\ IsFiniteSet(Nothing.fresh) /\ SessionInv(f)'
BY PartialEmpty, FS_EmptySet DEF Nothing, Sessions, SessionInv

(* A step in which a flow run only writes to its session.                  *)
LEMMA SessionStep ==
  ASSUME ItemsInv, NEW f \in Flows, UNCHANGED <<world, items, kev, step, batch>>,
         NEW d \in SUBSET todo[f], todo' = [todo EXCEPT ![f] = d],
         txn' \in [Flows -> Sessions], IsFiniteSet(txn'[f].fresh),
         \A g \in Flows \ {f} : txn'[g] = txn[g],
         SessionInv(f)'
  PROVE  ItemsInv'
<1>1. TypeInv /\ FetchInv(f) /\ d \in SUBSET Cves
  BY DEF ItemsInv, TypeInv, StoreInv
<1>2. /\ step' = [step EXCEPT ![f] = step[f]] /\ batch' = [batch EXCEPT ![f] = batch[f]]
      /\ step[f] \in {"idle", "upsert", "seed", "kev", "resolve"}
      /\ batch[f] \in Partial(Cves, Records \cup Dates)
      /\ items' \in Seq(Rows) /\ kev' \in Partial(Cves, Dates)
  BY <1>1 DEF TypeInv
<1>3. /\ TypeInv' /\ todo'[f] = d
      /\ \A g \in Flows \ {f} : /\ step'[g] = step[g] /\ batch'[g] = batch[g]
                                /\ todo'[g] = todo[g] /\ txn'[g] = txn[g]
  <2>1. \A g \in Flows : IsFiniteSet(txn'[g].fresh)
    BY <1>1 DEF TypeInv
  <2>2. todo' \in [Flows -> SUBSET Cves]
    BY <1>1 DEF TypeInv
  <2>3. TypeInv'
    BY <1>1, <2>1, <2>2 DEF TypeInv
  <2>. QED
    BY <1>1, <2>3 DEF TypeInv
<1>4. FetchInv(f)'
  BY <1>1, <1>3 DEF FetchInv
<1>5. RowsKept /\ UNCHANGED <<today, feed, listed>>
  BY DEF RowsKept, SameRow
<1>6. /\ \A c \in DOMAIN kev' : c \in DOMAIN listed /\ kev'[c] = listed[c]
      /\ \A i \in DOMAIN items' : RowInv(items[i])'
  BY DEF ItemsInv, StoreInv, RowInv
<1>. QED
  BY <1>3, <1>4, <1>5, <1>6, FlowStep

(* A step in which a flow run goes on, and commits, forgets or keeps what  *)
(* its session has written.                                                *)
LEMMA PhaseStep ==
  ASSUME ItemsInv, NEW f \in Flows, UNCHANGED <<today, feed, listed>>,
         NEW s \in {"idle", "upsert", "seed", "kev", "resolve"},
         NEW b \in Partial(Cves, Records \cup Dates), NEW d \in SUBSET Cves,
         step' = [step EXCEPT ![f] = s], batch' = [batch EXCEPT ![f] = b],
         todo' = [todo EXCEPT ![f] = d],
         \/ Commit(f)
         \/ UNCHANGED items /\ txn' \in {txn, [txn EXCEPT ![f] = Nothing]},
         kev' \in Partial(Cves, Dates),
         \A c \in DOMAIN kev' : c \in DOMAIN listed /\ kev'[c] = listed[c],
         FetchInv(f)'
  PROVE  ItemsInv'
<1>1. TypeInv /\ SessionInv(f) /\ txn \in [Flows -> Sessions]
      /\ IsFiniteSet(txn[f].fresh) /\ items \in Seq(Rows)
  BY DEF ItemsInv, TypeInv, StoreInv
<1>2. /\ items' \in Seq(Rows) /\ RowsKept
      /\ \A i \in DOMAIN items' : RowInv(items[i])'
  <2>1. CASE Commit(f)
    <3>1. \A i \in DOMAIN items' : RowInv(items'[i])
      BY <2>1, CommitRows
    <3>2. \A i \in DOMAIN items' : RowInv(items[i])'
      BY <3>1 DEF RowInv
    <3>. QED
      BY <2>1, <3>2, CommitRows
  <2>2. CASE UNCHANGED items
    BY <1>1, <2>2 DEF RowsKept, SameRow, ItemsInv, StoreInv, RowInv
  <2>. QED
    BY <2>1, <2>2
<1>3. CASE txn' = [txn EXCEPT ![f] = Nothing]
  <2>1. txn'[f] = Nothing /\ \A g \in Flows \ {f} : txn'[g] = txn[g]
    BY <1>1, <1>3
  <2>2. SessionInv(f)' /\ txn' \in [Flows -> Sessions] /\ IsFiniteSet(txn'[f].fresh)
    BY <1>1, <1>3, <2>1, NothingFits
  <2>3. /\ TypeInv'
        /\ \A g \in Flows \ {f} : /\ step'[g] = step[g] /\ batch'[g] = batch[g]
                                  /\ todo'[g] = todo[g] /\ txn'[g] = txn[g]
    BY <1>1, <1>2, <2>1, <2>2, FlowType
  <2>. QED
    BY <1>2, <2>2, <2>3, FlowStep
<1>4. CASE txn' = txn
  <2>1. txn'[f] = txn[f] /\ \A g \in Flows \ {f} : txn'[g] = txn[g]
    BY <1>4
  <2>2. /\ TypeInv'
        /\ \A g \in Flows \ {f} : /\ step'[g] = step[g] /\ batch'[g] = batch[g]
                                  /\ todo'[g] = todo[g] /\ txn'[g] = txn[g]
    BY <1>1, <1>2, <1>4, <2>1, FlowType
  <2>3. Grows
    BY <1>1 DEF Grows, TypeInv, Days
  <2>4. SessionInv(f)'
    BY <1>1, <1>2, <2>1, <2>2, <2>3, SessionFrame
  <2>. QED
    BY <1>2, <2>2, <2>4, FlowStep
<1>. QED
  BY <1>3, <1>4 DEF Commit
-----------------------------------------------------------------------------
(* One step each: the flow run cti-ingest-cve.                             *)
LEMMA StepTypes ==
  ASSUME ItemsInv, NEW f \in Flows
  PROVE  /\ batch[f] \in Partial(Cves, Records \cup Dates) /\ todo[f] \in SUBSET Cves
         /\ DOMAIN batch[f] \subseteq Cves /\ kev \in Partial(Cves, Dates)
         /\ <<>> \in Partial(Cves, Records \cup Dates) /\ DOMAIN <<>> = {}
         /\ step \in [Flows -> {"idle", "upsert", "seed", "kev", "resolve"}]
         /\ batch \in [Flows -> Partial(Cves, Records \cup Dates)]
         /\ todo \in [Flows -> SUBSET Cves]
         /\ txn \in [Flows -> Sessions] /\ txn[f] \in Sessions
         /\ IsFiniteSet(txn[f].fresh) /\ SessionInv(f) /\ FetchInv(f)
         /\ \A c \in DOMAIN kev : c \in DOMAIN listed /\ kev[c] = listed[c]
         /\ feed \in Partial(Cves, Records) /\ DOMAIN feed \subseteq Cves
         /\ \A c \in DOMAIN feed : feed[c] \in Records /\ feed[c].published <= today
         /\ listed \in Partial(Cves, Dates)
<1>1. /\ batch[f] \in Partial(Cves, Records \cup Dates) /\ todo[f] \in SUBSET Cves
      /\ feed \in Partial(Cves, Records) /\ txn[f] \in Sessions
  BY DEF ItemsInv, TypeInv
<1>2. /\ DOMAIN batch[f] \subseteq Cves /\ DOMAIN feed \subseteq Cves
      /\ \A c \in DOMAIN feed : feed[c] \in Records
      /\ <<>> \in Partial(Cves, Records \cup Dates) /\ DOMAIN <<>> = {}
  BY <1>1, PartialValues, PartialEmpty
<1>. QED
  BY <1>1, <1>2 DEF ItemsInv, TypeInv, StoreInv

LEMMA FetchRecordsStep ==
  ASSUME ItemsInv, NEW f \in CveFlows, FetchRecords(f)
  PROVE  ItemsInv'
<1>1. f \in Flows /\ f \notin KevFlows
  BY DEF Flows
<1>2. PICK S \in SUBSET Recent :
        /\ batch' = [batch EXCEPT ![f] = [c \in S |-> feed[c]]]
        /\ todo' = [todo EXCEPT ![f] = {c \in S : feed[c].label # NoLabel}]
  BY DEF FetchRecords
<1>. DEFINE b == [c \in S |-> feed[c]]
            d == {c \in S : feed[c].label # NoLabel}
<1>3. S \subseteq DOMAIN feed /\ S \subseteq Cves
  BY <1>1, StepTypes DEF Recent
<1>4. b \in Partial(Cves, Records \cup Dates) /\ d \in SUBSET Cves
  <2>1. b \in [S -> Records \cup Dates]
    BY <1>1, <1>3, StepTypes
  <2>. QED
    BY <1>3, <2>1 DEF Partial
<1>5. step' = [step EXCEPT ![f] = "upsert"] /\ UNCHANGED <<today, feed, listed, kev, items, txn>>
  BY DEF FetchRecords, Goto
<1>6. step'[f] = "upsert" /\ batch'[f] = b /\ todo'[f] = d
  BY <1>1, <1>2, <1>5, StepTypes
<1>7. FetchInv(f)'
  BY <1>1, <1>3, <1>5, <1>6, StepTypes DEF FetchInv
<1>. HIDE DEF b, d
<1>. QED
  BY <1>1, <1>2, <1>4, <1>5, <1>7, StepTypes, PhaseStep DEF b, d

(* A row is held back at least as long as its input is recent.             *)
LEMMA WithheldRecent ==
  ASSUME NEW rec \in Records, today \in Days, rec.published <= today, rec.label # NoLabel,
         NEW c \in Cves
  PROVE  /\ Withheld(rec) \in BOOLEAN
         /\ Withheld(rec) = TRUE \/ rec.published <= today - Window
         /\ Version(c, rec) \in Rows
         /\ Version(c, rec).withhold = Withheld(rec)
<1>1. /\ rec.published \in Int /\ rec.labelled \in Int /\ today \in Int /\ Window \in Nat
      /\ rec.published \in Dates /\ rec.labelled \in Dates /\ rec.label \in Labels
  BY DEF Records, Dates, Days, NoDate
<1>2. Withheld(rec) \in BOOLEAN
  BY DEF Withheld
<1>3. rec.published <= today - Window \/ Withheld(rec)
  BY <1>1 DEF Withheld, FirstAvailable, Later
<1>4. Withheld(rec) => Withheld(rec) = TRUE
  OBVIOUS
<1>5. FirstAvailable(rec) \in Dates
  BY <1>1 DEF FirstAvailable, Later
<1>6. Version(c, rec) \in Rows /\ Version(c, rec).withhold = Withheld(rec)
  BY <1>1, <1>2, <1>5 DEF Version, Rows
<1>. QED
  BY <1>2, <1>3, <1>4, <1>6

LEMMA UpsertItemStep ==
  ASSUME ItemsInv, NEW f \in CveFlows, NEW c \in Cves, UpsertItem(f, c)
  PROVE  ItemsInv'
<1>. DEFINE rec == batch[f][c]
            new == Version(c, rec)
<1>1. f \in Flows /\ f \notin KevFlows /\ TypeInv
  BY DEF Flows, ItemsInv
<1>2. /\ At(f, "upsert") /\ c \in todo[f] /\ todo' = [todo EXCEPT ![f] = todo[f] \ {c}]
      /\ UNCHANGED <<world, items, kev, step, batch>>
  BY DEF UpsertItem
<1>3. /\ c \in DOMAIN feed /\ rec \in Records /\ rec.published = feed[c].published
      /\ rec.label # NoLabel /\ rec.published <= today /\ today \in Days
  BY <1>1, <1>2, StepTypes DEF FetchInv, At, TypeInv
<1>4. /\ Withheld(rec) \in BOOLEAN /\ new \in Rows /\ new.withhold = Withheld(rec)
      /\ Withheld(rec) = TRUE \/ rec.published <= today - Window
  BY <1>3, WithheldRecent
<1>5. RowInv(new)
  <2>1. /\ new.task = "rcm" /\ new.cve = c /\ new.input = rec.published
        /\ new.labelled = rec.labelled /\ new.label = rec.label
        /\ new.available = Later(rec.published, rec.labelled)
    BY DEF Version, FirstAvailable
  <2>2. rec.label \in Labels
    BY <1>3 DEF Records
  <2>. HIDE DEF new, rec
  <2>. QED
    BY <1>3, <1>4, <2>1, <2>2 DEF RowInv
<1>. HIDE DEF new
<1>6. /\ txn \in [Flows -> Sessions] /\ IsFiniteSet(txn[f].fresh) /\ SessionInv(f)
      /\ todo[f] \ {c} \in SUBSET todo[f]
  BY <1>1, StepTypes
<1>7. \A row : RowInv(row) => RowInv(row)'
  BY <1>2 DEF RowInv
<1>8. ASSUME NEW i \in Active("rcm", c)
      PROVE  /\ i \in DOMAIN items /\ i \in Nat /\ items[i].task = "rcm"
             /\ items[i].input = rec.published
  <2>1. i \in DOMAIN items /\ items[i].task = "rcm" /\ items[i].cve = c
    BY DEF Active
  <2>2. RowInv(items[i]) /\ i \in Nat
    BY <1>1, <2>1 DEF ItemsInv, StoreInv, TypeInv
  <2>. QED
    BY <1>3, <2>1, <2>2 DEF RowInv
<1>9. CASE txn' = WithRows(txn, f, {new})
  <2>1. /\ txn' \in [Flows -> Sessions] /\ IsFiniteSet(txn'[f].fresh)
        /\ \A g \in Flows \ {f} : txn'[g] = txn[g]
        /\ txn'[f].fresh = txn[f].fresh \cup {new} /\ txn'[f].retired = txn[f].retired
        /\ txn'[f].flags = txn[f].flags /\ txn'[f].answers = txn[f].answers
    BY <1>1, <1>4, <1>6, <1>9, WriteRow
  <2>2. SessionInv(f)'
    BY <1>2, <1>5, <1>6, <1>7, <2>1 DEF SessionInv
  <2>. QED
    BY <1>1, <1>2, <1>6, <2>1, <2>2, SessionStep
<1>10. ASSUME NEW i \in Active("rcm", c), txn' = WithVersion(txn, f, new, i)
       PROVE  ItemsInv'
  <2>1. /\ txn' \in [Flows -> Sessions] /\ IsFiniteSet(txn'[f].fresh)
        /\ \A g \in Flows \ {f} : txn'[g] = txn[g]
        /\ txn'[f].fresh = txn[f].fresh \cup {new}
        /\ txn'[f].retired = txn[f].retired \cup {i}
        /\ txn'[f].flags = txn[f].flags /\ txn'[f].answers = txn[f].answers
    BY <1>1, <1>4, <1>6, <1>8, <1>10, WriteVersion
  <2>2. SessionInv(f)'
    BY <1>2, <1>5, <1>6, <1>7, <1>8, <2>1 DEF SessionInv
  <2>. QED
    BY <1>1, <1>2, <1>6, <2>1, <2>2, SessionStep
<1>11. ASSUME NEW i \in Active("rcm", c), txn' = WithFlag(txn, f, i, Withheld(rec))
       PROVE  ItemsInv'
  <2>. DEFINE w == Withheld(rec)
  <2>1. /\ txn' \in [Flows -> Sessions] /\ IsFiniteSet(txn'[f].fresh)
        /\ \A g \in Flows \ {f} : txn'[g] = txn[g]
        /\ txn'[f].flags = With(txn[f].flags, i, w)
        /\ txn'[f].fresh = txn[f].fresh /\ txn'[f].retired = txn[f].retired
        /\ txn'[f].answers = txn[f].answers
    BY <1>1, <1>4, <1>6, <1>8, <1>11, WriteFlag
  <2>2. txn[f].flags \in Partial(Nat, BOOLEAN) /\ i \in Nat /\ w \in BOOLEAN
    BY <1>4, <1>6, <1>8, <1>1 DEF Sessions
  <2>. HIDE DEF w
  <2>3. /\ DOMAIN txn'[f].flags = DOMAIN txn[f].flags \cup {i} /\ txn'[f].flags[i] = w
        /\ \A z \in DOMAIN txn[f].flags \ {i} : txn'[f].flags[z] = txn[f].flags[z]
    <3>. DEFINE g == txn[f].flags
    <3>1. txn'[f].flags = With(g, i, w)
      BY <2>1 DEF w
    <3>. HIDE DEF g
    <3>2. /\ DOMAIN With(g, i, w) = DOMAIN g \cup {i} /\ With(g, i, w)[i] = w
          /\ \A z \in DOMAIN g \ {i} : With(g, i, w)[z] = g[z]
      BY DEF With
    <3>. QED
      BY <3>1, <3>2 DEF g
  <2>4. w = TRUE \/ rec.published <= today - Window
    BY <1>4 DEF w
  <2>5. \A z \in DOMAIN txn'[f].flags :
          /\ z \in DOMAIN items' /\ items'[z].task = "rcm"
          /\ txn'[f].flags[z] = TRUE \/ items'[z].input <= today' - Window
    BY <1>2, <1>6, <1>8, <2>3, <2>4 DEF SessionInv
  <2>6. SessionInv(f)'
    BY <1>2, <1>6, <1>7, <2>1, <2>5 DEF SessionInv
  <2>. QED
    BY <1>1, <1>2, <1>6, <2>1, <2>6, SessionStep
<1>12. CASE txn' = txn
  <2>1. SessionInv(f)'
    BY <1>2, <1>6, <1>7, <1>12 DEF SessionInv
  <2>. QED
    BY <1>1, <1>2, <1>6, <1>12, <2>1, SessionStep
<1>13. \/ txn' = WithRows(txn, f, {new})
       \/ \E i \in Active("rcm", c) :
            \/ txn' = txn
            \/ txn' = WithFlag(txn, f, i, Withheld(rec))
            \/ txn' = WithVersion(txn, f, new, i)
  BY DEF UpsertItem, Replaced, WithRows, WithVersion, WithFlag, new
<1>. QED
  BY <1>9, <1>10, <1>11, <1>12, <1>13

LEMMA CommitItemsStep ==
  ASSUME ItemsInv, NEW f \in CveFlows, CommitItems(f)
  PROVE  ItemsInv'
<1>1. f \in Flows /\ f \notin KevFlows
  BY DEF Flows
<1>2. /\ Commit(f) /\ step' = [step EXCEPT ![f] = "seed"]
      /\ batch' = [batch EXCEPT ![f] = batch[f]]
      /\ todo' = [todo EXCEPT ![f] = DOMAIN batch[f]]
      /\ UNCHANGED <<today, feed, listed, kev, batch>>
  BY <1>1, StepTypes DEF CommitItems, Goto
<1>3. step'[f] = "seed" /\ batch'[f] = batch[f] /\ todo'[f] = DOMAIN batch[f]
  BY <1>1, <1>2, StepTypes
<1>4. FetchInv(f)'
  BY <1>1, <1>2, <1>3, StepTypes DEF FetchInv
<1>. QED
  BY <1>1, <1>2, <1>4, StepTypes, PhaseStep

(* What is seeded fits the record.                                         *)
LEMMA SeedFits ==
  ASSUME ItemsInv, NEW f \in CveFlows, NEW c \in Cves, SeedItem(f, c), NEW n \in {1, 2}
  PROVE  Seed(f, c, n) \in Rows /\ RowInv(Seed(f, c, n)) /\ Seed(f, c, n).status = "active"
<1>. DEFINE new == Seed(f, c, n)
<1>1. f \in Flows /\ step[f] = "seed" /\ c \in todo[f]
  BY DEF Flows, SeedItem, At
<1>2. /\ c \in DOMAIN feed /\ batch[f][c] \in Records
      /\ batch[f][c].published = feed[c].published
  BY <1>1, StepTypes DEF FetchInv
<1>3. batch[f][c].published \in Int /\ batch[f][c].published >= NoDate
  BY <1>2 DEF Records, Days, NoDate
<1>4. Later(batch[f][c].published, NoDate) = batch[f][c].published
  BY <1>3 DEF Later
<1>5. /\ new.task = "forecast" /\ new.cve = c /\ new.input = batch[f][c].published
      /\ new.labelled = NoDate /\ new.label = FALSE /\ new.status = "active"
      /\ new.available = batch[f][c].published
  BY DEF Seed
<1>6. new \in Rows
  BY <1>2 DEF Seed, Rows, Records, Dates
<1>. HIDE DEF new
<1>. QED
  BY <1>2, <1>4, <1>5, <1>6 DEF RowInv, new

LEMMA SeedItemStep ==
  ASSUME ItemsInv, NEW f \in CveFlows, NEW c \in Cves, SeedItem(f, c)
  PROVE  ItemsInv'
<1>. DEFINE S == {Seed(f, c, n) : n \in IF c \in twice[f] THEN {1, 2} ELSE {1}}
<1>1. f \in Flows
  BY DEF Flows
<1>2. /\ todo' = [todo EXCEPT ![f] = todo[f] \ {c}]
      /\ UNCHANGED <<world, items, kev, step, batch>>
      /\ txn' = WithRows(txn, f, S) \/ txn' = txn
  BY DEF SeedItem, WithRows
<1>3. S \in SUBSET Rows /\ IsFiniteSet(S) /\ \A row \in S : RowInv(row)
  <2>1. S \subseteq {Seed(f, c, 1), Seed(f, c, 2)}
    OBVIOUS
  <2>2. IsFiniteSet({Seed(f, c, 1), Seed(f, c, 2)})
    <3>1. IsFiniteSet({Seed(f, c, 1)})
      BY FS_Singleton
    <3>2. IsFiniteSet({Seed(f, c, 1)} \cup {Seed(f, c, 2)})
      BY <3>1, FS_AddElement
    <3>3. {Seed(f, c, 1), Seed(f, c, 2)} = {Seed(f, c, 1)} \cup {Seed(f, c, 2)}
      OBVIOUS
    <3>. QED
      BY <3>2, <3>3
  <2>3. IsFiniteSet(S)
    BY <2>1, <2>2, FS_Subset
  <2>. QED
    BY <2>1, <2>3, SeedFits
<1>. HIDE DEF S
<1>6. /\ txn \in [Flows -> Sessions] /\ IsFiniteSet(txn[f].fresh) /\ SessionInv(f)
      /\ todo[f] \ {c} \in SUBSET todo[f]
  BY <1>1, StepTypes
<1>7. \A row : RowInv(row) => RowInv(row)'
  BY <1>2 DEF RowInv
<1>8. CASE txn' = WithRows(txn, f, S)
  <2>1. /\ txn' \in [Flows -> Sessions] /\ IsFiniteSet(txn'[f].fresh)
        /\ \A g \in Flows \ {f} : txn'[g] = txn[g]
        /\ txn'[f].fresh = txn[f].fresh \cup S /\ txn'[f].retired = txn[f].retired
        /\ txn'[f].flags = txn[f].flags /\ txn'[f].answers = txn[f].answers
    BY <1>1, <1>3, <1>6, <1>8, WriteRows
  <2>2. SessionInv(f)'
    BY <1>2, <1>3, <1>6, <1>7, <2>1 DEF SessionInv
  <2>. QED
    BY <1>1, <1>2, <1>6, <2>1, <2>2, SessionStep
<1>9. CASE txn' = txn
  <2>1. SessionInv(f)'
    BY <1>2, <1>6, <1>7, <1>9 DEF SessionInv
  <2>. QED
    BY <1>1, <1>2, <1>6, <1>9, <2>1, SessionStep
<1>. QED
  BY <1>2, <1>8, <1>9

LEMMA CommitSeedsStep ==
  ASSUME ItemsInv, NEW f \in CveFlows, CommitSeeds(f)
  PROVE  ItemsInv'
<1>1. f \in Flows /\ f \notin KevFlows
  BY DEF Flows
<1>2. /\ Commit(f) /\ step' = [step EXCEPT ![f] = "idle"]
      /\ batch' = [batch EXCEPT ![f] = <<>>] /\ todo' = [todo EXCEPT ![f] = todo[f]]
      /\ UNCHANGED <<today, feed, listed, kev>>
  BY <1>1, StepTypes DEF CommitSeeds, End, Goto
<1>3. step'[f] = "idle" /\ batch'[f] = <<>>
  BY <1>1, <1>2, StepTypes
<1>4. FetchInv(f)'
  BY <1>1, <1>3, StepTypes DEF FetchInv
<1>. QED
  BY <1>1, <1>2, <1>4, StepTypes, PhaseStep
-----------------------------------------------------------------------------
(* The flow run cti-ingest-kev.                                            *)
LEMMA FetchKevStep ==
  ASSUME ItemsInv, NEW k \in KevFlows, FetchKev(k)
  PROVE  ItemsInv'
<1>1. k \in Flows /\ k \notin CveFlows
  BY DEF Flows
<1>2. /\ step' = [step EXCEPT ![k] = "kev"] /\ batch' = [batch EXCEPT ![k] = listed]
      /\ todo' = [todo EXCEPT ![k] = todo[k]]
      /\ UNCHANGED <<today, feed, listed, kev, items, txn>>
  BY <1>1, StepTypes DEF FetchKev, Goto
<1>3. step'[k] = "kev" /\ batch'[k] = listed
  BY <1>1, <1>2, StepTypes
<1>4. FetchInv(k)'
  BY <1>1, <1>2, <1>3 DEF FetchInv
<1>5. listed \in Partial(Cves, Records \cup Dates)
  BY <1>1, StepTypes DEF Partial
<1>. QED
  BY <1>1, <1>2, <1>4, <1>5, StepTypes, PhaseStep

LEMMA StoreKevStep ==
  ASSUME ItemsInv, NEW k \in KevFlows, StoreKev(k)
  PROVE  ItemsInv'
<1>1. k \in Flows /\ k \notin CveFlows
  BY DEF Flows
<1>2. /\ step' = [step EXCEPT ![k] = "resolve"] /\ batch' = [batch EXCEPT ![k] = batch[k]]
      /\ todo' = [todo EXCEPT ![k] = DOMAIN batch[k]]
      /\ UNCHANGED <<today, feed, listed, items, txn, batch>>
  BY <1>1, StepTypes DEF StoreKev, Goto, ToResolve
<1>3. step'[k] = "resolve" /\ batch'[k] = batch[k] /\ todo'[k] = DOMAIN batch[k]
  BY <1>1, <1>2, StepTypes
<1>4. FetchInv(k)'
  BY <1>1, <1>2, <1>3, StepTypes DEF FetchInv
<1>5. \A c \in DOMAIN batch[k] : c \in DOMAIN listed /\ batch[k][c] = listed[c]
  BY <1>1, StepTypes DEF FetchInv
<1>6. /\ DOMAIN kev' = DOMAIN kev \cup Dated(k)
      /\ \A c \in DOMAIN kev' : c \in DOMAIN listed /\ kev'[c] = listed[c]
  BY <1>1, <1>5, StepTypes DEF StoreKev, Dated
<1>7. kev' \in Partial(Cves, Dates)
  <2>1. /\ DOMAIN listed \subseteq Cves /\ \A c \in DOMAIN listed : listed[c] \in Dates
    BY <1>1, StepTypes, PartialValues
  <2>2. kev' \in [DOMAIN kev' -> Dates]
    BY <1>6, <2>1 DEF StoreKev
  <2>3. DOMAIN kev' \in SUBSET Cves
    BY <1>6, <2>1
  <2>. QED
    BY <2>2, <2>3 DEF Partial
<1>. QED
  BY <1>1, <1>2, <1>4, <1>6, <1>7, StepTypes, PhaseStep

LEMMA ResolveItemStep ==
  ASSUME ItemsInv, NEW k \in KevFlows, NEW c \in Cves, ResolveItem(k, c)
  PROVE  ItemsInv'
<1>1. k \in Flows /\ k \notin CveFlows /\ TypeInv
  BY DEF Flows, ItemsInv
<1>2. /\ At(k, "resolve") /\ c \in todo[k] /\ todo' = [todo EXCEPT ![k] = todo[k] \ {c}]
      /\ UNCHANGED <<world, items, kev, step, batch>>
  BY DEF ResolveItem
<1>3. c \in DOMAIN listed /\ batch[k][c] = listed[c] /\ batch[k][c] \in Dates
  <2>1. c \in DOMAIN listed /\ batch[k][c] = listed[c]
    BY <1>1, <1>2, StepTypes DEF FetchInv, At
  <2>. QED
    BY <1>1, <2>1, StepTypes, PartialValues
<1>4. /\ txn \in [Flows -> Sessions] /\ IsFiniteSet(txn[k].fresh) /\ SessionInv(k)
      /\ todo[k] \ {c} \in SUBSET todo[k]
  BY <1>1, StepTypes
<1>5. \A row : RowInv(row) => RowInv(row)'
  BY <1>2 DEF RowInv
<1>6. ASSUME NEW i \in Forecasts(c), txn' = WithAnswer(txn, k, i, batch[k][c])
      PROVE  ItemsInv'
  <2>1. /\ i \in DOMAIN items /\ i \in Nat /\ items[i].task = "forecast" /\ items[i].cve = c
    BY <1>1 DEF Forecasts, Active, TypeInv
  <2>2. /\ txn' \in [Flows -> Sessions] /\ IsFiniteSet(txn'[k].fresh)
        /\ \A g \in Flows \ {k} : txn'[g] = txn[g]
        /\ txn'[k].answers = With(txn[k].answers, i, batch[k][c])
        /\ txn'[k].fresh = txn[k].fresh /\ txn'[k].retired = txn[k].retired
        /\ txn'[k].flags = txn[k].flags
    BY <1>1, <1>3, <1>4, <1>6, <2>1, WriteAnswer
  <2>3. /\ DOMAIN txn'[k].answers = DOMAIN txn[k].answers \cup {i}
        /\ txn'[k].answers[i] = batch[k][c]
        /\ \A z \in DOMAIN txn[k].answers \ {i} : txn'[k].answers[z] = txn[k].answers[z]
    BY <2>2 DEF With
  <2>4. \A z \in DOMAIN txn'[k].answers :
          /\ z \in DOMAIN items' /\ items'[z].task = "forecast"
          /\ items'[z].cve \in DOMAIN listed'
          /\ txn'[k].answers[z] = listed'[items'[z].cve]
    BY <1>2, <1>3, <1>4, <2>1, <2>3 DEF SessionInv
  <2>5. SessionInv(k)'
    BY <1>2, <1>4, <1>5, <2>2, <2>4 DEF SessionInv
  <2>. QED
    BY <1>1, <1>2, <1>4, <2>2, <2>5, SessionStep
<1>7. CASE txn' = txn
  <2>1. SessionInv(k)'
    BY <1>2, <1>4, <1>5, <1>7 DEF SessionInv
  <2>. QED
    BY <1>1, <1>2, <1>4, <1>7, <2>1, SessionStep
<1>8. txn' = txn \/ \E i \in Forecasts(c) : txn' = WithAnswer(txn, k, i, batch[k][c])
  BY DEF ResolveItem, WithAnswer
<1>. QED
  BY <1>6, <1>7, <1>8

LEMMA CommitResolvedStep ==
  ASSUME ItemsInv, NEW k \in KevFlows, CommitResolved(k)
  PROVE  ItemsInv'
<1>1. k \in Flows /\ k \notin CveFlows
  BY DEF Flows
<1>2. /\ Commit(k) /\ step' = [step EXCEPT ![k] = "idle"]
      /\ batch' = [batch EXCEPT ![k] = <<>>] /\ todo' = [todo EXCEPT ![k] = todo[k]]
      /\ UNCHANGED <<today, feed, listed, kev>>
  BY <1>1, StepTypes DEF CommitResolved, End, Goto
<1>3. step'[k] = "idle" /\ batch'[k] = <<>>
  BY <1>1, <1>2, StepTypes
<1>4. FetchInv(k)'
  BY <1>1, <1>3, StepTypes DEF FetchInv
<1>. QED
  BY <1>1, <1>2, <1>4, StepTypes, PhaseStep
-----------------------------------------------------------------------------
LEMMA FailStep ==
  ASSUME ItemsInv, NEW f \in Flows, Fail(f)
  PROVE  ItemsInv'
<1>1. /\ step' = [step EXCEPT ![f] = "idle"] /\ batch' = [batch EXCEPT ![f] = <<>>]
      /\ todo' = [todo EXCEPT ![f] = {}] /\ txn' = [txn EXCEPT ![f] = Nothing]
      /\ UNCHANGED <<today, feed, listed, items, kev>>
  BY DEF Fail, End, Goto
<1>2. step'[f] = "idle" /\ batch'[f] = <<>> /\ todo'[f] = {}
  BY <1>1, StepTypes
<1>3. FetchInv(f)'
  BY <1>2, StepTypes DEF FetchInv
<1>. QED
  BY <1>1, <1>3, StepTypes, PhaseStep

(* Every step keeps the invariant, and changes rows in a commit at most.   *)
LEMMA ItemsStep ==
  ASSUME ItemsInv, [Next]_vars
  PROVE  ItemsInv' /\ (UNCHANGED items \/ \E f \in Flows : Commit(f))
<1>1. CASE UNCHANGED vars
  <2>1. UNCHANGED <<items, kev, flow, today, feed, listed>>
    BY <1>1 DEF vars
  <2>2. ItemsInv'
    <3>1. Grows /\ today' \in Days
      BY <2>1 DEF Grows, ItemsInv, TypeInv, Days
    <3>2. feed' \in Partial(Cves, Records) /\ listed' \in Partial(Cves, Dates)
      BY <2>1 DEF ItemsInv, TypeInv
    <3>3. \A c \in DOMAIN feed' : feed'[c].published <= today'
      BY <2>1 DEF ItemsInv, StoreInv
    <3>. QED
      BY <2>1, <3>1, <3>2, <3>3, WorldFrame
  <2>. QED
    BY <2>1, <2>2
<1>2. CASE NextDay \/ \E c \in Cves : Publish(c) \/ Revise(c) \/ List(c)
  BY <1>2, WorldStep
<1>3. ASSUME NEW f \in CveFlows, IngestCve(f)
      PROVE  ItemsInv' /\ (UNCHANGED items \/ \E g \in Flows : Commit(g))
  <2>1. FetchRecords(f) => UNCHANGED items
    BY DEF FetchRecords
  <2>2. \A c \in Cves : UpsertItem(f, c) \/ SeedItem(f, c) => UNCHANGED items
    BY DEF UpsertItem, SeedItem
  <2>3. CommitItems(f) \/ CommitSeeds(f) => Commit(f)
    BY DEF CommitItems, CommitSeeds
  <2>4. f \in Flows
    BY DEF Flows
  <2>5. ItemsInv'
    BY <1>3, FetchRecordsStep, UpsertItemStep, CommitItemsStep, SeedItemStep, CommitSeedsStep
    DEF IngestCve
  <2>. QED
    BY <1>3, <2>1, <2>2, <2>3, <2>4, <2>5 DEF IngestCve
<1>4. ASSUME NEW k \in KevFlows, IngestKev(k)
      PROVE  ItemsInv' /\ (UNCHANGED items \/ \E g \in Flows : Commit(g))
  <2>1. FetchKev(k) \/ StoreKev(k) => UNCHANGED items
    BY DEF FetchKev, StoreKev
  <2>2. \A c \in Cves : ResolveItem(k, c) => UNCHANGED items
    BY DEF ResolveItem
  <2>3. CommitResolved(k) => Commit(k)
    BY DEF CommitResolved
  <2>4. k \in Flows
    BY DEF Flows
  <2>5. ItemsInv'
    BY <1>4, FetchKevStep, StoreKevStep, ResolveItemStep, CommitResolvedStep DEF IngestKev
  <2>. QED
    BY <1>4, <2>1, <2>2, <2>3, <2>4, <2>5 DEF IngestKev
<1>5. ASSUME NEW f \in Flows, Fail(f) PROVE ItemsInv' /\ UNCHANGED items
  BY <1>5, FailStep DEF Fail
<1>. QED
  BY <1>1, <1>2, <1>3, <1>4, <1>5 DEF Next

LEMMA ItemsAlways == Spec => []ItemsInv
<1>1. ItemsInv /\ [Next]_vars => ItemsInv'
  BY ItemsStep
<1>. QED
  BY <1>1, ItemsInit, PTL DEF Spec
-----------------------------------------------------------------------------
(* Every row, also a forecast that the catalogue has answered in place, is *)
(* available only from the later of its input and its label.               *)
THEOREM AnchorsCoverLabels == Spec => []AnchorCoversLabel
<1>1. ItemsInv => AnchorCoversLabel
  <2>. SUFFICES ASSUME ItemsInv, NEW i \in DOMAIN items
                PROVE  /\ items[i].available = Later(items[i].input, items[i].labelled)
                       /\ items[i].label = TRUE /\ items[i].cve \in DOMAIN kev
                            => items[i].available >= kev[items[i].cve]
    BY DEF AnchorCoversLabel
  <2>1. RowInv(items[i]) /\ items[i] \in Rows
    BY DEF ItemsInv, StoreInv, TypeInv
  <2>2. items[i].task \in {"rcm", "forecast"} /\ items[i].input \in Int
    BY <2>1 DEF Rows, Dates, Days, NoDate
  <2>3. ASSUME items[i].label = TRUE, items[i].cve \in DOMAIN kev
        PROVE  items[i].available >= kev[items[i].cve]
    <3>1. items[i].task = "forecast"
      BY <2>1, <2>2, <2>3 DEF RowInv
    <3>2. items[i].labelled = kev[items[i].cve]
      BY <2>1, <2>3, <3>1 DEF RowInv, ItemsInv, StoreInv
    <3>3. items[i].labelled \in Int
      BY <2>1 DEF Rows, Dates, Days, NoDate
    <3>. QED
      BY <2>1, <2>2, <3>2, <3>3 DEF RowInv, Later
  <2>. QED
    BY <2>1, <2>3 DEF RowInv
<1>. QED
  BY <1>1, ItemsAlways, PTL

(* No labelled item is shown to a run within the window after its          *)
(* publication, whatever its record is relabelled to meanwhile.  (Forecast *)
(* items are shown to runs at once.)                                       *)
THEOREM LabelledHoldoutIsKept == Spec => []LabelledHoldoutKept
<1>1. ItemsInv => LabelledHoldoutKept
  <2>. SUFFICES ASSUME ItemsInv, NEW i \in DOMAIN items, items[i].task = "rcm",
                       ~items[i].withhold
                PROVE  items[i].input <= today - Window
    BY DEF LabelledHoldoutKept
  <2>1. RowInv(items[i])
    BY DEF ItemsInv, StoreInv
  <2>2. items[i].withhold # TRUE
    OBVIOUS
  <2>. QED
    BY <2>1, <2>2 DEF RowInv
<1>. QED
  BY <1>1, ItemsAlways, PTL

(* A row that runs have scored keeps its label and its dates, however many *)
(* flow runs of either kind commit, in any order.                          *)
THEOREM HistoryIsKept == Spec => HistoryKept
<1>. DEFINE Kept ==
       \A i \in DOMAIN items :
         /\ i \in DOMAIN items'
         /\ items[i].task = "rcm" =>
              /\ \A field \in DOMAIN items[i] \ {"withhold", "status"} :
                   items'[i][field] = items[i][field]
              /\ items[i].status = "superseded" => items'[i].status = "superseded"
         /\ items[i].label = TRUE => items'[i] = items[i]
<1>1. ItemsInv /\ [Next]_vars => [Kept]_items
  <2>. SUFFICES ASSUME ItemsInv, [Next]_vars, items' # items PROVE Kept
    OBVIOUS
  <2>1. PICK f \in Flows : Commit(f)
    BY ItemsStep
  <2>. QED
    BY <2>1, CommitRows DEF RowHistory
<1>2. Spec => [][Kept]_items
  <2>. HIDE DEF Kept
  <2>. QED
    BY <1>1, ItemsAlways, PTL DEF Spec
<1>. QED
  BY <1>2 DEF HistoryKept
-----------------------------------------------------------------------------
(* An item that was ingested stays in force, whatever flow runs overlap    *)
(* and whatever they commit in whatever order: who takes a version out of  *)
(* force adds the one that replaces it in the same commit.                 *)
SameItem(row, new) == new.task = row.task /\ new.cve = row.cve
Replaces(new, row) == new.task = "rcm" /\ new.cve = row.cve /\ new.label # row.label
InForce(i)         == items[i].status = "active"

ChainInv ==
  \A i \in DOMAIN items :
    /\ \E j \in DOMAIN items : SameItem(items[i], items[j]) /\ InForce(j)
    /\ items[i].status = "superseded" =>
         \E j \in DOMAIN items : j > i /\ Replaces(items[j], items[i])

(* What a session retires is replaced by what it adds.                     *)
DraftInv(f) ==
  /\ \A row \in txn[f].fresh : row.status = "active"
  /\ \A i \in txn[f].retired :
       /\ i \in DOMAIN items /\ items[i].task = "rcm"
       /\ \E row \in txn[f].fresh : Replaces(row, items[i])

VersionsInv == ItemsInv /\ ChainInv /\ \A f \in Flows : DraftInv(f)

LEMMA VersionsInit == Init => VersionsInv
<1>. SUFFICES ASSUME Init PROVE VersionsInv
  OBVIOUS
<1>1. ItemsInv
  BY ItemsInit
<1>2. items = <<>> /\ \A f \in Flows : txn[f] = Nothing
  BY DEF Init
<1>. QED
  BY <1>1, <1>2 DEF VersionsInv, ChainInv, DraftInv, Nothing
-----------------------------------------------------------------------------
(* A commit keeps which item a row belongs to, and the label of a version, *)
(* takes the retired rows out of force and adds the fresh ones behind.     *)
LEMMA UpdatedStatus ==
  ASSUME NEW t \in Sessions, NEW i \in DOMAIN items, items[i] \in Rows
  PROVE  Updated(t, i).status = IF i \in t.retired THEN "superseded" ELSE items[i].status
<1>. DEFINE row  == IF i \in DOMAIN t.answers THEN Answered(items[i], t.answers[i]) ELSE items[i]
            kept == IF i \in DOMAIN t.flags THEN Flagged(row, t.flags[i]) ELSE row
            new  == IF i \in t.retired THEN Retired(kept) ELSE kept
            All  == {"task", "cve", "label", "input", "labelled", "available",
                     "withhold", "status", "copy"}
<1>1. Updated(t, i) = new
  BY DEF Updated
<1>2. row.status = items[i].status /\ DOMAIN row = All
  BY DEF Answered, Rows
<1>. HIDE DEF row
<1>3. kept.status = row.status /\ DOMAIN kept = All
  BY <1>2 DEF Flagged
<1>. HIDE DEF kept
<1>4. new.status = IF i \in t.retired THEN "superseded" ELSE kept.status
  BY <1>3 DEF Retired
<1>. QED
  BY <1>1, <1>2, <1>3, <1>4

KeptRow(row, new) ==
  SameItem(row, new) /\ (row.task = "rcm" => new.label = row.label)

LEMMA RowLabel ==
  ASSUME NEW row \in Rows, NEW new, RowHistory(row, new), SameRow(row, new)
  PROVE  KeptRow(row, new)
<1>1. "label" \in DOMAIN row \ {"withhold", "status"}
  BY DEF Rows
<1>2. row.task = "rcm" => new["label"] = row["label"]
  BY <1>1 DEF RowHistory
<1>. QED
  BY <1>2 DEF SameRow, SameItem, KeptRow

LEMMA CommitVersions ==
  ASSUME ItemsInv, NEW f \in Flows, Commit(f)
  PROVE  /\ \A i \in DOMAIN items :
              /\ i \in DOMAIN items' /\ KeptRow(items[i], items'[i])
              /\ items'[i].status = IF i \in txn[f].retired THEN "superseded"
                                    ELSE items[i].status
         /\ \A i \in DOMAIN items' \ DOMAIN items : items'[i] \in txn[f].fresh
         /\ \A row \in txn[f].fresh : \E i \in DOMAIN items' \ DOMAIN items : items'[i] = row
         /\ \A i \in DOMAIN items, j \in DOMAIN items' \ DOMAIN items : j > i
         /\ txn' = [txn EXCEPT ![f] = Nothing]
<1>. DEFINE S == txn[f].fresh
            n == Len(items)
<1>1. PICK new \in Orders(S) : items' = [i \in DOMAIN items |-> Updated(txn[f], i)] \o new
  BY DEF Commit
<1>2. /\ txn[f] \in Sessions /\ S \in SUBSET Rows /\ IsFiniteSet(S)
      /\ items \in Seq(Rows)
  BY DEF ItemsInv, TypeInv, Sessions
<1>3. /\ new \in Seq(Rows) /\ \A i \in DOMAIN new : new[i] \in S
      /\ \A x \in S : \E i \in DOMAIN new : new[i] = x
  BY <1>1, <1>2, OrderedRows DEF Orders
<1>4. /\ RowsKept /\ items' \in Seq(Rows)
      /\ \A i \in DOMAIN items : RowHistory(items[i], items'[i])
  BY CommitRows
<1>5. ASSUME NEW i \in DOMAIN items
      PROVE  items'[i] = Updated(txn[f], i)
  BY <1>1, <1>2, <1>3
<1>6. /\ n \in Nat /\ DOMAIN items = 1..n /\ DOMAIN items' = 1..(n + Len(new))
      /\ DOMAIN new = 1..Len(new) /\ Len(new) \in Nat
      /\ \A i \in DOMAIN new : items'[n + i] = new[i]
  <2>1. n \in Nat /\ DOMAIN items = 1..n /\ DOMAIN new = 1..Len(new) /\ Len(new) \in Nat
    BY <1>2, <1>3
  <2>. DEFINE old == [i \in DOMAIN items |-> Updated(txn[f], i)]
  <2>2. Len(old) = n /\ DOMAIN old = 1..n
    BY <2>1
  <2>3. \A i \in DOMAIN old : old[i] \in {Updated(txn[f], j) : j \in DOMAIN items}
    OBVIOUS
  <2>. DEFINE T == {Updated(txn[f], j) : j \in DOMAIN items} \cup Rows
  <2>4. old \in Seq(T) /\ new \in Seq(T)
    BY <1>3, <2>1, <2>2
  <2>. HIDE DEF old, T
  <2>5. items' = old \o new
    BY <1>1 DEF old
  <2>6. /\ Len(items') = n + Len(new)
        /\ \A i \in 1..Len(items') : items'[i] = IF i <= n THEN old[i] ELSE new[i - n]
    <3>1. /\ Len(items') = Len(old) + Len(new)
          /\ \A i \in 1..Len(items') :
               items'[i] = IF i <= Len(old) THEN old[i] ELSE new[i - Len(old)]
      BY <2>4, <2>5, ConcatProperties
    <3>. QED
      BY <2>2, <3>1
  <2>7. DOMAIN items' = 1..(n + Len(new))
    BY <1>4, <2>6
  <2>8. ASSUME NEW i \in DOMAIN new PROVE items'[n + i] = new[i]
    <3>1. /\ n + i \in 1..Len(items') /\ ~(n + i <= n) /\ (n + i) - n = i
      BY <2>1, <2>6
    <3>. QED
      BY <2>6, <3>1
  <2>. QED
    BY <2>1, <2>7, <2>8
<1>7. ASSUME NEW i \in DOMAIN items
      PROVE  /\ i \in DOMAIN items' /\ KeptRow(items[i], items'[i])
             /\ items'[i].status = IF i \in txn[f].retired THEN "superseded"
                                   ELSE items[i].status
  <2>1. items[i] \in Rows
    BY <1>2
  <2>2. Updated(txn[f], i).status =
          IF i \in txn[f].retired THEN "superseded" ELSE items[i].status
    BY <1>2, <2>1, UpdatedStatus
  <2>3. i \in DOMAIN items' /\ SameRow(items[i], items'[i])
    BY <1>4 DEF RowsKept
  <2>. QED
    BY <1>4, <1>5, <2>1, <2>2, <2>3, RowLabel
<1>8. ASSUME NEW i \in DOMAIN items' \ DOMAIN items
      PROVE  items'[i] \in S /\ \A j \in DOMAIN items : i > j
  <2>1. i - n \in DOMAIN new /\ n + (i - n) = i
    BY <1>6
  <2>2. items'[i] = new[i - n]
    BY <1>6, <2>1
  <2>. QED
    BY <1>3, <1>6, <2>1, <2>2
<1>9. ASSUME NEW row \in S
      PROVE  \E i \in DOMAIN items' \ DOMAIN items : items'[i] = row
  <2>1. PICK i \in DOMAIN new : new[i] = row
    BY <1>3
  <2>2. n + i \in DOMAIN items' \ DOMAIN items /\ items'[n + i] = row
    BY <1>6, <2>1
  <2>. QED
    BY <2>2
<1>10. txn' = [txn EXCEPT ![f] = Nothing]
  BY DEF Commit
<1>. QED
  BY <1>7, <1>8, <1>9, <1>10
-----------------------------------------------------------------------------
(* What the other sessions have written stands.                            *)
LEMMA DraftFrame ==
  ASSUME NEW f \in Flows, DraftInv(f), txn'[f] = txn[f],
         \A i \in DOMAIN items : i \in DOMAIN items' /\ KeptRow(items[i], items'[i])
  PROVE  DraftInv(f)'
<1>1. ASSUME NEW i \in txn[f].retired
      PROVE  /\ i \in DOMAIN items' /\ items'[i].task = "rcm"
             /\ \E row \in txn[f].fresh : Replaces(row, items'[i])
  <2>1. i \in DOMAIN items /\ items[i].task = "rcm" /\ KeptRow(items[i], items'[i])
    BY DEF DraftInv
  <2>2. PICK row \in txn[f].fresh : Replaces(row, items[i])
    BY DEF DraftInv
  <2>. QED
    BY <2>1, <2>2 DEF KeptRow, SameItem, Replaces
<1>. QED
  BY <1>1 DEF DraftInv

(* A commit puts a version in force for each that it takes out.            *)
LEMMA CommitKeepsVersions ==
  ASSUME VersionsInv, NEW f \in Flows, Commit(f)
  PROVE  ChainInv' /\ \A g \in Flows : DraftInv(g)'
<1>. DEFINE Old   == DOMAIN items
            Added == DOMAIN items' \ DOMAIN items
<1>1. /\ \A i \in Old : /\ i \in DOMAIN items' /\ KeptRow(items[i], items'[i])
                        /\ items'[i].status = IF i \in txn[f].retired THEN "superseded"
                                              ELSE items[i].status
      /\ \A i \in Added : items'[i] \in txn[f].fresh
      /\ \A row \in txn[f].fresh : \E i \in Added : items'[i] = row
      /\ \A i \in Old, j \in Added : j > i
      /\ txn' = [txn EXCEPT ![f] = Nothing]
  BY CommitVersions DEF VersionsInv
<1>2. DraftInv(f) /\ ItemsInv /\ ChainInv
  BY DEF VersionsInv
<1>3. \A i \in Added : InForce(i)'
  BY <1>1, <1>2 DEF DraftInv, InForce
<1>4. ASSUME NEW i \in txn[f].retired
      PROVE  /\ i \in Old
             /\ \E k \in Added : /\ k > i /\ InForce(k)' /\ Replaces(items'[k], items'[i])
                                 /\ SameItem(items'[i], items'[k])
  <2>1. i \in Old /\ items[i].task = "rcm" /\ KeptRow(items[i], items'[i])
    BY <1>1, <1>2 DEF DraftInv
  <2>2. PICK row \in txn[f].fresh : Replaces(row, items[i])
    BY <1>2 DEF DraftInv
  <2>3. PICK k \in Added : items'[k] = row
    BY <1>1
  <2>4. Replaces(items'[k], items'[i]) /\ SameItem(items'[i], items'[k])
    BY <2>1, <2>2, <2>3 DEF Replaces, KeptRow, SameItem
  <2>. QED
    BY <1>1, <1>3, <2>1, <2>4
<1>5. ASSUME NEW i \in DOMAIN items'
      PROVE  \E j \in DOMAIN items' : SameItem(items'[i], items'[j]) /\ InForce(j)'
  <2>1. CASE i \in Added
    BY <1>3, <2>1 DEF SameItem
  <2>2. CASE i \in Old
    <3>1. PICK j \in Old : SameItem(items[i], items[j]) /\ InForce(j)
      BY <1>2, <2>2 DEF ChainInv
    <3>2. SameItem(items'[i], items'[j]) /\ j \in DOMAIN items'
      BY <1>1, <2>2, <3>1 DEF KeptRow, SameItem
    <3>3. CASE j \notin txn[f].retired
      BY <1>1, <3>1, <3>2, <3>3 DEF InForce
    <3>4. CASE j \in txn[f].retired
      <4>1. PICK k \in Added : SameItem(items'[j], items'[k]) /\ InForce(k)'
        BY <1>4, <3>4
      <4>. QED
        BY <3>2, <4>1 DEF SameItem
    <3>. QED
      BY <3>3, <3>4
  <2>. QED
    BY <2>1, <2>2
<1>6. ASSUME NEW i \in DOMAIN items', items'[i].status = "superseded"
      PROVE  \E j \in DOMAIN items' : j > i /\ Replaces(items'[j], items'[i])
  <2>1. i \in Old
    BY <1>3, <1>6 DEF InForce
  <2>2. CASE i \in txn[f].retired
    BY <1>4, <2>2
  <2>3. CASE i \notin txn[f].retired
    <3>1. items[i].status = "superseded"
      BY <1>1, <1>6, <2>1, <2>3
    <3>2. items[i].task = "rcm"
      <4>1. RowInv(items[i]) /\ items[i] \in Rows
        BY <1>2, <2>1 DEF ItemsInv, StoreInv, TypeInv
      <4>. QED
        BY <3>1, <4>1 DEF RowInv, Rows
    <3>3. PICK j \in Old : j > i /\ Replaces(items[j], items[i])
      BY <1>2, <2>1, <3>1 DEF ChainInv
    <3>. QED
      BY <1>1, <2>1, <3>2, <3>3 DEF KeptRow, SameItem, Replaces
  <2>. QED
    BY <2>2, <2>3
<1>7. ChainInv'
  BY <1>5, <1>6 DEF ChainInv
<1>8. txn'[f] = Nothing /\ \A g \in Flows \ {f} : txn'[g] = txn[g]
  BY <1>1, <1>2, StepTypes
<1>9. DraftInv(f)'
  BY <1>8 DEF DraftInv, Nothing
<1>10. \A g \in Flows \ {f} : DraftInv(g)'
  BY <1>1, <1>8, DraftFrame DEF VersionsInv
<1>. QED
  BY <1>7, <1>9, <1>10
-----------------------------------------------------------------------------
(* What a flow run writes to its session between commits.                  *)
LEMMA UpsertDraft ==
  ASSUME VersionsInv, NEW f \in CveFlows, NEW c \in Cves, UpsertItem(f, c)
  PROVE  DraftInv(f)' /\ \A g \in Flows \ {f} : txn'[g] = txn[g]
<1>. DEFINE rec == batch[f][c]
            new == Version(c, rec)
<1>1. f \in Flows /\ f \notin KevFlows /\ TypeInv /\ ItemsInv /\ DraftInv(f)
  BY DEF Flows, VersionsInv, ItemsInv
<1>2. step[f] = "upsert" /\ c \in todo[f] /\ UNCHANGED items
  BY DEF UpsertItem, At
<1>3. /\ c \in DOMAIN feed /\ rec \in Records /\ rec.published = feed[c].published
      /\ rec.label # NoLabel /\ rec.published <= today /\ today \in Days
  BY <1>1, <1>2, StepTypes DEF FetchInv, TypeInv
<1>4. Withheld(rec) \in BOOLEAN /\ new \in Rows
  BY <1>3, WithheldRecent
<1>5. new.task = "rcm" /\ new.cve = c /\ new.status = "active" /\ new.label = rec.label
  BY DEF Version
<1>. HIDE DEF new
<1>6. txn \in [Flows -> Sessions] /\ IsFiniteSet(txn[f].fresh)
  BY <1>1, StepTypes
<1>7. ASSUME txn' = WithRows(txn, f, {new})
      PROVE  DraftInv(f)' /\ \A g \in Flows \ {f} : txn'[g] = txn[g]
  <2>1. /\ txn'[f].fresh = txn[f].fresh \cup {new} /\ txn'[f].retired = txn[f].retired
        /\ \A g \in Flows \ {f} : txn'[g] = txn[g]
    BY <1>1, <1>4, <1>6, <1>7, WriteRow
  <2>. QED
    BY <1>1, <1>2, <1>5, <2>1 DEF DraftInv
<1>8. ASSUME NEW i \in Active("rcm", c), items[i].label # rec.label,
             txn' = WithVersion(txn, f, new, i)
      PROVE  DraftInv(f)' /\ \A g \in Flows \ {f} : txn'[g] = txn[g]
  <2>1. i \in Nat /\ i \in DOMAIN items /\ items[i].task = "rcm" /\ Replaces(new, items[i])
    BY <1>1, <1>5, <1>8 DEF Active, TypeInv, Replaces
  <2>2. /\ txn'[f].fresh = txn[f].fresh \cup {new}
        /\ txn'[f].retired = txn[f].retired \cup {i}
        /\ \A g \in Flows \ {f} : txn'[g] = txn[g]
    BY <1>1, <1>4, <1>6, <1>8, <2>1, WriteVersion
  <2>. QED
    BY <1>1, <1>2, <1>5, <2>1, <2>2 DEF DraftInv
<1>9. ASSUME NEW i \in Active("rcm", c), txn' = WithFlag(txn, f, i, Withheld(rec))
      PROVE  DraftInv(f)' /\ \A g \in Flows \ {f} : txn'[g] = txn[g]
  <2>1. i \in Nat
    BY <1>1 DEF Active, TypeInv
  <2>2. /\ txn'[f].fresh = txn[f].fresh /\ txn'[f].retired = txn[f].retired
        /\ \A g \in Flows \ {f} : txn'[g] = txn[g]
    BY <1>1, <1>4, <1>6, <1>9, <2>1, WriteFlag
  <2>. QED
    BY <1>1, <1>2, <2>2 DEF DraftInv
<1>10. ASSUME txn' = txn
       PROVE  DraftInv(f)' /\ \A g \in Flows \ {f} : txn'[g] = txn[g]
  BY <1>1, <1>2, <1>10 DEF DraftInv
<1>11. \/ txn' = WithRows(txn, f, {new})
       \/ \E i \in Active("rcm", c) :
            \/ txn' = txn
            \/ txn' = WithFlag(txn, f, i, Withheld(rec))
            \/ items[i].label # rec.label /\ txn' = WithVersion(txn, f, new, i)
  BY DEF UpsertItem, Replaced, WithRows, WithVersion, WithFlag, new
<1>. QED
  BY <1>7, <1>8, <1>9, <1>10, <1>11

LEMMA SeedDraft ==
  ASSUME VersionsInv, NEW f \in CveFlows, NEW c \in Cves, SeedItem(f, c)
  PROVE  DraftInv(f)' /\ \A g \in Flows \ {f} : txn'[g] = txn[g]
<1>. DEFINE S == {Seed(f, c, n) : n \in IF c \in twice[f] THEN {1, 2} ELSE {1}}
<1>1. f \in Flows /\ ItemsInv /\ DraftInv(f)
  BY DEF Flows, VersionsInv
<1>2. \A row \in S : row.status = "active"
  BY <1>1, SeedFits
<1>3. UNCHANGED items /\ (txn' = txn \/ txn' = [txn EXCEPT ![f].fresh = @ \cup S])
  BY DEF SeedItem
<1>4. txn \in [Flows -> Sessions] /\ txn[f] \in Sessions
  BY <1>1, StepTypes
<1>. HIDE DEF S
<1>5. CASE txn' = txn
  BY <1>1, <1>3, <1>5 DEF DraftInv
<1>6. CASE txn' = [txn EXCEPT ![f].fresh = @ \cup S]
  <2>1. /\ txn'[f].fresh = txn[f].fresh \cup S /\ txn'[f].retired = txn[f].retired
        /\ \A g \in Flows \ {f} : txn'[g] = txn[g]
    BY <1>1, <1>4, <1>6 DEF Sessions
  <2>. QED
    BY <1>1, <1>2, <1>3, <2>1 DEF DraftInv
<1>. QED
  BY <1>3, <1>5, <1>6

LEMMA ResolveDraft ==
  ASSUME VersionsInv, NEW k \in KevFlows, NEW c \in Cves, ResolveItem(k, c)
  PROVE  DraftInv(k)' /\ \A g \in Flows \ {k} : txn'[g] = txn[g]
<1>1. k \in Flows /\ ItemsInv /\ DraftInv(k) /\ UNCHANGED items
  BY DEF Flows, VersionsInv, ResolveItem
<1>2. txn \in [Flows -> Sessions] /\ txn[k] \in Sessions
  BY <1>1, StepTypes
<1>3. txn' = txn \/ \E i \in Forecasts(c) : txn' = WithAnswer(txn, k, i, batch[k][c])
  BY DEF ResolveItem, WithAnswer
<1>4. ASSUME NEW i \in Forecasts(c), txn' = WithAnswer(txn, k, i, batch[k][c])
      PROVE  /\ \A g \in Flows \ {k} : txn'[g] = txn[g]
             /\ txn'[k].fresh = txn[k].fresh /\ txn'[k].retired = txn[k].retired
  BY <1>1, <1>2, <1>4 DEF WithAnswer, Sessions
<1>. QED
  BY <1>1, <1>3, <1>4 DEF DraftInv

LEMMA VersionsStep ==
  ASSUME VersionsInv, [Next]_vars
  PROVE  VersionsInv'
<1>1. ItemsInv' /\ ItemsInv /\ ChainInv /\ \A f \in Flows : DraftInv(f)
  BY ItemsStep DEF VersionsInv
<1>2. ASSUME NEW f \in Flows, UNCHANGED items, DraftInv(f)',
             \A g \in Flows \ {f} : txn'[g] = txn[g]
      PROVE  VersionsInv'
  <2>1. \A g \in Flows \ {f} : DraftInv(g)'
    BY <1>1, <1>2 DEF DraftInv
  <2>2. ChainInv'
    BY <1>1, <1>2 DEF ChainInv, InForce
  <2>. QED
    BY <1>1, <1>2, <2>1, <2>2 DEF VersionsInv
<1>3. ASSUME UNCHANGED <<items, txn>>
      PROVE  VersionsInv'
  BY <1>1, <1>3 DEF VersionsInv, ChainInv, DraftInv, InForce
<1>4. ASSUME NEW f \in Flows, Commit(f)
      PROVE  VersionsInv'
  BY <1>1, <1>4, CommitKeepsVersions DEF VersionsInv
<1>5. CASE UNCHANGED vars
  BY <1>3, <1>5 DEF vars
<1>6. CASE NextDay \/ \E c \in Cves : Publish(c) \/ Revise(c) \/ List(c)
  BY <1>3, <1>6 DEF NextDay, Publish, Revise, List
<1>7. ASSUME NEW f \in CveFlows, IngestCve(f)
      PROVE  VersionsInv'
  <2>1. f \in Flows
    BY DEF Flows
  <2>2. CASE FetchRecords(f)
    BY <1>3, <2>2 DEF FetchRecords
  <2>3. ASSUME NEW c \in Cves, UpsertItem(f, c) \/ SeedItem(f, c)
        PROVE  VersionsInv'
    <3>1. UNCHANGED items
      BY <2>3 DEF UpsertItem, SeedItem
    <3>. QED
      BY <1>2, <2>1, <2>3, <3>1, UpsertDraft, SeedDraft
  <2>4. CommitItems(f) \/ CommitSeeds(f) => Commit(f)
    BY DEF CommitItems, CommitSeeds
  <2>. QED
    BY <1>4, <1>7, <2>1, <2>2, <2>3, <2>4 DEF IngestCve
<1>8. ASSUME NEW k \in KevFlows, IngestKev(k)
      PROVE  VersionsInv'
  <2>1. k \in Flows
    BY DEF Flows
  <2>2. CASE FetchKev(k) \/ StoreKev(k)
    BY <1>3, <2>2 DEF FetchKev, StoreKev
  <2>3. ASSUME NEW c \in Cves, ResolveItem(k, c)
        PROVE  VersionsInv'
    <3>1. UNCHANGED items
      BY <2>3 DEF ResolveItem
    <3>. QED
      BY <1>2, <2>1, <2>3, <3>1, ResolveDraft
  <2>4. CommitResolved(k) => Commit(k)
    BY DEF CommitResolved
  <2>. QED
    BY <1>4, <1>8, <2>1, <2>2, <2>3, <2>4 DEF IngestKev
<1>9. ASSUME NEW f \in Flows, Fail(f)
      PROVE  VersionsInv'
  <2>1. UNCHANGED items /\ txn' = [txn EXCEPT ![f] = Nothing]
    BY <1>9 DEF Fail
  <2>2. txn'[f] = Nothing /\ \A g \in Flows \ {f} : txn'[g] = txn[g]
    BY <1>1, <2>1, StepTypes
  <2>3. DraftInv(f)'
    BY <2>2 DEF DraftInv, Nothing
  <2>. QED
    BY <1>2, <2>1, <2>2, <2>3
<1>. QED
  BY <1>5, <1>6, <1>7, <1>8, <1>9 DEF Next

(* An item that was ingested never goes without a version in force, and a  *)
(* superseded version has a later one of another label, however many flow  *)
(* runs of either kind overlap, fail or fetch a record twice.              *)
THEOREM VersionStaysInForce == Spec => []VersionInForce
<1>1. VersionsInv => VersionInForce
  <2>. SUFFICES ASSUME VersionsInv, NEW i \in DOMAIN items
                PROVE  /\ Active(items[i].task, items[i].cve) # {}
                       /\ items[i].status = "superseded" =>
                            \E j \in DOMAIN items :
                              j > i /\ items[j].task = "rcm" /\ items[j].cve = items[i].cve
                                    /\ items[j].label # items[i].label
    BY DEF VersionInForce
  <2>1. PICK j \in DOMAIN items : SameItem(items[i], items[j]) /\ InForce(j)
    BY DEF VersionsInv, ChainInv
  <2>2. j \in Active(items[i].task, items[i].cve)
    BY <2>1 DEF Active, SameItem, InForce
  <2>. QED
    BY <2>2 DEF VersionsInv, ChainInv, Replaces
<1>2. VersionsInv /\ [Next]_vars => VersionsInv'
  BY VersionsStep
<1>. QED
  BY <1>1, <1>2, VersionsInit, PTL DEF Spec
=============================================================================
