------------------------------ MODULE CtiItems ------------------------------
(***************************************************************************)
(* The item store of the CTI benchmark: rows of cti_items, which the flow  *)
(* cti-ingest-cve fills from the recent part of the CVE feed and the flow  *)
(* cti-ingest-kev resolves from the catalogue of exploited vulnerabilities *)
(* (table cti_kev).  A CVE gives a labelled item, versioned when its label *)
(* changes, and a forecast item whose label arrives later, in place.       *)
(*                                                                         *)
(* Both flows work in transactions: what they read is what others have     *)
(* committed, and what they write is in their session until they commit.   *)
(* The feeds, and the days, are the world around the store.                *)
(***************************************************************************)
EXTENDS Integers, Sequences, FiniteSets

CONSTANTS
  Cves,          \* CVE identifiers
  Labels,        \* what a CVE record may be labelled with (CWEs, a vector)
  NoLabel,       \* a record that is not labelled yet
  CveFlows,      \* concurrent flow runs of cti-ingest-cve
  KevFlows,      \* concurrent flow runs of cti-ingest-kev
  Lookback,      \* settings.cti_ingest_lookback_days
  Window,        \* settings.cti_withhold_window_days
  LastDay,       \* bounds the days
  MaxRevisions,  \* bounds how often records change
  MaxFailures    \* bounds the failed flow runs, skipped records and doubled ones

ASSUME CtiItemsAssumption ==
  /\ NoLabel \notin Labels /\ Labels \cap BOOLEAN = {}
  /\ CveFlows \cap KevFlows = {}
  /\ {Lookback, Window, LastDay, MaxRevisions, MaxFailures} \subseteq Nat

VARIABLES
  today,      \* the day
  feed,       \* the published CVE records
  listed,     \* the exploited CVEs, with the day of their listing
  revisions,  \* how often records have changed
  items,      \* the rows of cti_items, in the order of their insertion
  kev,        \* the rows of cti_kev
  step,       \* where each flow run is
  batch,      \* the records, or the KEV entries, it has fetched
  twice,      \* the CVEs whose record its batch holds twice
  todo,       \* the CVEs of its batch that its loop has still to treat
  txn,        \* what its session has written and not committed
  failures    \* how often something has failed, or been fetched twice

world == <<today, feed, listed, revisions>>
flow  == <<step, batch, twice, todo, txn>>
vars  == <<world, items, kev, flow, failures>>

Flows  == CveFlows \cup KevFlows
NoDate == -1
Days   == 0..LastDay
Dates  == Days \cup {NoDate}

(* A record: its label with the day it is dated, when the CVE was          *)
(* published and when the record was last updated.                         *)
Records == [label : Labels \cup {NoLabel}, labelled : Dates, published : Days, updated : Days]

(* A row of cti_items.  (Equal rows of one insertion differ in "copy".)    *)
Rows == [task : {"rcm", "forecast"}, cve : Cves, label : Labels \cup BOOLEAN,
         input : Dates, labelled : Dates, available : Dates,
         withhold : BOOLEAN, status : {"active", "superseded"}, copy : {1, 2}]

(* A session: rows it adds, rows it supersedes, rows whose holdout flag it *)
(* sets, and forecast rows it resolves.                                    *)
Nothing == [fresh |-> {}, retired |-> {}, flags |-> <<>>, answers |-> <<>>]

Init ==
  /\ today = 0
  /\ feed = <<>>
  /\ listed = <<>>
  /\ revisions = 0
  /\ items = <<>>
  /\ kev = <<>>
  /\ step = [f \in Flows |-> "idle"]
  /\ batch = [f \in Flows |-> <<>>]
  /\ twice = [f \in Flows |-> {}]
  /\ todo = [f \in Flows |-> {}]
  /\ txn = [f \in Flows |-> Nothing]
  /\ failures = 0

(* A function that gives y for x, and otherwise what g gives.              *)
With(g, x, y) == [z \in DOMAIN g \cup {x} |-> IF z = x THEN y ELSE g[z]]
-----------------------------------------------------------------------------
(* The world *)

NextDay ==
  /\ today < LastDay
  /\ today' = today + 1
  /\ UNCHANGED <<feed, listed, revisions, items, kev, flow, failures>>

Record(l, d, p) == [label |-> l, labelled |-> d, published |-> p, updated |-> today]

(* A record is published, or updated: labelled, relabelled by its CNA      *)
(* (dated as the publication) or by an ADP container (dated, if at all, by *)
(* the container's update).                                                *)
Publish(c) ==
  /\ c \notin DOMAIN feed
  /\ \E l \in Labels \cup {NoLabel} :
       feed' = With(feed, c, Record(l, today, today))
  /\ UNCHANGED <<today, listed, revisions, items, kev, flow, failures>>

Revise(c) ==
  /\ c \in DOMAIN feed
  /\ revisions < MaxRevisions
  /\ revisions' = revisions + 1
  /\ \E l \in Labels, d \in {feed[c].published, today, NoDate} :
       feed' = With(feed, c, Record(l, d, feed[c].published))
  /\ UNCHANGED <<today, listed, items, kev, flow, failures>>

(* CISA lists a CVE, published already or not.                             *)
List(c) ==
  /\ c \notin DOMAIN listed
  /\ \E d \in {today, NoDate} : listed' = With(listed, c, d)
  /\ UNCHANGED <<today, feed, revisions, items, kev, flow, failures>>
-----------------------------------------------------------------------------
(* What the flows share *)

At(f, s)   == step[f] = s
Goto(f, s) == step' = [step EXCEPT ![f] = s]

Later(d, e) == IF d >= e THEN d ELSE e

Active(task, c) ==
  {i \in DOMAIN items : items[i].task = task /\ items[i].cve = c /\ items[i].status = "active"}

Forecasts_AnyTask(c) == Active("forecast", c) \cup Active("rcm", c)
Forecasts(c) == Active("forecast", c)

(* A commit: updates of rows, then the inserts, in any order.  An answer   *)
(* with a date moves the day from which the row is available.              *)
Anchor_Kept(row, d) == row.available
Anchor(row, d) == IF d = NoDate THEN row.available ELSE Later(d, row.input)

Answered(row, d) ==
  [row EXCEPT !.label = TRUE, !.labelled = d, !.available = Anchor(row, d)]

Flagged(row, w) == [row EXCEPT !.withhold = w]
Retired(row)    == [row EXCEPT !.status = "superseded"]

Updated(t, i) ==
  LET answered == IF i \in DOMAIN t.answers THEN Answered(items[i], t.answers[i]) ELSE items[i]
      flagged  == IF i \in DOMAIN t.flags THEN Flagged(answered, t.flags[i]) ELSE answered
  IN  IF i \in t.retired THEN Retired(flagged) ELSE flagged

Orders(S) == {s \in [1..Cardinality(S) -> S] : \A x \in S : \E i \in DOMAIN s : s[i] = x}

Commit(f) ==
  /\ \E new \in Orders(txn[f].fresh) :
       items' = [i \in DOMAIN items |-> Updated(txn[f], i)] \o new
  /\ txn' = [txn EXCEPT ![f] = Nothing]

End(f) ==
  /\ Goto(f, "idle")
  /\ batch' = [batch EXCEPT ![f] = <<>>]
  /\ twice' = [twice EXCEPT ![f] = {}]

(* An exception ends a flow run: rollback.                                 *)
Fail(f) ==
  /\ ~At(f, "idle")
  /\ failures < MaxFailures
  /\ failures' = failures + 1
  /\ End(f)
  /\ todo' = [todo EXCEPT ![f] = {}]
  /\ txn' = [txn EXCEPT ![f] = Nothing]
  /\ UNCHANGED <<world, items, kev>>
-----------------------------------------------------------------------------
(* cti_ingest_cve *)

(* The records updated lately, without those that fail to download.  A     *)
(* record published and updated since the last hour's delta is listed, and *)
(* fetched, under both headings.                                           *)
Recent == {c \in DOMAIN feed : feed[c].updated >= today - Lookback}

FetchRecords(f) ==
  /\ At(f, "idle")
  /\ \E S \in SUBSET Recent : \E D \in SUBSET S :
       /\ failures' = failures + Cardinality(Recent \ S) + Cardinality(D)
       /\ failures' <= MaxFailures
       /\ batch' = [batch EXCEPT ![f] = [c \in S |-> feed[c]]]
       /\ twice' = [twice EXCEPT ![f] = D]
       /\ todo' = [todo EXCEPT ![f] = {c \in S : feed[c].label # NoLabel}]
  /\ Goto(f, "upsert")
  /\ UNCHANGED <<world, items, kev, txn>>

(* upsert_item: the version in force stays if its label is the record's,   *)
(* with its holdout flag refreshed; otherwise a new version replaces it.   *)
(* (The session is flushed: the second of two equal records finds the      *)
(* first one's version in force.)                                          *)
FirstAvailable_OfLabel(rec) == rec.labelled
FirstAvailable(rec) == Later(rec.published, rec.labelled)
Withheld(rec) == Window > 0 /\ FirstAvailable(rec) > today - Window

Version(c, rec) ==
  [task |-> "rcm", cve |-> c, label |-> rec.label, input |-> rec.published,
   labelled |-> rec.labelled, available |-> FirstAvailable(rec),
   withhold |-> Withheld(rec), status |-> "active", copy |-> 1]

Replaced_ByNothing(f, i, new) == [txn EXCEPT ![f].retired = @ \cup {i}]
Replaced(f, i, new) ==
  [txn EXCEPT ![f].retired = @ \cup {i}, ![f].fresh = @ \cup {new}]

UpsertItem(f, c) ==
  /\ f \in CveFlows
  /\ At(f, "upsert")
  /\ c \in todo[f]
  /\ todo' = [todo EXCEPT ![f] = @ \ {c}]
  /\ LET rec == batch[f][c] IN
     \/ /\ Active("rcm", c) = {}
        /\ txn' = [txn EXCEPT ![f].fresh = @ \cup {Version(c, rec)}]
     \/ \E i \in Active("rcm", c) :
          IF items[i].label = rec.label
          THEN txn' = IF items[i].withhold = Withheld(rec) THEN txn
                      ELSE [txn EXCEPT ![f].flags = With(@, i, Withheld(rec))]
          ELSE txn' = Replaced(f, i, Version(c, rec))
  /\ UNCHANGED <<world, items, kev, step, batch, twice, failures>>

(* ingest_items commits once, and the forecast items come after.           *)
CommitItems(f) ==
  /\ At(f, "upsert")
  /\ todo[f] = {}
  /\ Commit(f)
  /\ Goto(f, "seed")
  /\ todo' = [todo EXCEPT ![f] = DOMAIN batch[f]]
  /\ UNCHANGED <<world, kev, batch, twice, failures>>

(* seed_forecast_items: a CVE without a forecast item gets one.  (Nothing  *)
(* is flushed: the second of two equal records finds none either.)         *)
Seed(f, c, n) ==
  [task |-> "forecast", cve |-> c, label |-> FALSE,
   input |-> batch[f][c].published, labelled |-> NoDate,
   available |-> batch[f][c].published, withhold |-> FALSE, status |-> "active", copy |-> n]

SeedItem(f, c) ==
  /\ At(f, "seed")
  /\ c \in todo[f]
  /\ todo' = [todo EXCEPT ![f] = @ \ {c}]
  /\ IF Forecasts(c) # {} THEN UNCHANGED txn
     ELSE txn' = [txn EXCEPT ![f].fresh =
                    @ \cup {Seed(f, c, n) : n \in IF c \in twice[f] THEN {1, 2} ELSE {1}}]
  /\ UNCHANGED <<world, items, kev, step, batch, twice, failures>>

CommitSeeds(f) ==
  /\ At(f, "seed")
  /\ todo[f] = {}
  /\ Commit(f)
  /\ End(f)
  /\ UNCHANGED <<world, kev, todo, failures>>
-----------------------------------------------------------------------------
(* cti_ingest_kev *)

FetchKev(k) ==
  /\ At(k, "idle")
  /\ batch' = [batch EXCEPT ![k] = listed]
  /\ Goto(k, "kev")
  /\ UNCHANGED <<world, items, kev, twice, todo, txn, failures>>

Dated(k) == {c \in DOMAIN batch[k] : batch[k][c] # NoDate}

ToResolve_New(k) == DOMAIN batch[k] \ DOMAIN kev
ToResolve(k) == DOMAIN batch[k]

(* upsert_kev_entries: entries with a date that are not stored yet.  (One  *)
(* that another flow run inserts meanwhile is refused by the unique index: *)
(* an exception, see Fail.)                                                *)
StoreKev(k) ==
  /\ At(k, "kev")
  /\ kev' = [c \in DOMAIN kev \cup Dated(k) |->
               IF c \in DOMAIN kev THEN kev[c] ELSE batch[k][c]]
  /\ Goto(k, "resolve")
  /\ todo' = [todo EXCEPT ![k] = ToResolve(k)]
  /\ UNCHANGED <<world, items, batch, twice, txn, failures>>

(* resolve_forecast_labels: the answer of one forecast, in place.          *)
ResolveItem(k, c) ==
  /\ At(k, "resolve")
  /\ c \in todo[k]
  /\ todo' = [todo EXCEPT ![k] = @ \ {c}]
  /\ \/ Forecasts(c) = {} /\ UNCHANGED txn
     \/ \E i \in Forecasts(c) :
          txn' = IF items[i].label = TRUE THEN txn
                 ELSE [txn EXCEPT ![k].answers = With(@, i, batch[k][c])]
  /\ UNCHANGED <<world, items, kev, step, batch, twice, failures>>

CommitResolved(k) ==
  /\ At(k, "resolve")
  /\ todo[k] = {}
  /\ Commit(k)
  /\ End(k)
  /\ UNCHANGED <<world, kev, todo, failures>>
-----------------------------------------------------------------------------
IngestCve(f) ==
  \/ FetchRecords(f) \/ CommitItems(f) \/ CommitSeeds(f)
  \/ \E c \in Cves : UpsertItem(f, c) \/ SeedItem(f, c)

IngestKev(k) ==
  \/ FetchKev(k) \/ StoreKev(k) \/ CommitResolved(k)
  \/ \E c \in Cves : ResolveItem(k, c)

Next ==
  \/ NextDay
  \/ \E c \in Cves : Publish(c) \/ Revise(c) \/ List(c)
  \/ \E f \in CveFlows : IngestCve(f)
  \/ \E k \in KevFlows : IngestKev(k)
  \/ \E f \in Flows : Fail(f)

Spec == Init /\ [][Next]_vars

(* cti-ingest-kev is started again and again, and runs.                    *)
KevSpec == Spec /\ \A k \in KevFlows : WF_vars(IngestKev(k))

(* So is cti-ingest-cve, and the days pass.                                *)
FairSpec == KevSpec /\ WF_vars(NextDay) /\ \A f \in CveFlows : WF_vars(IngestCve(f))
-----------------------------------------------------------------------------
(* Safety *)

(* "Supersede the old, insert the new", in one transaction: a CVE that was *)
(* ingested never goes without a version in force, whatever fails or comes *)
(* in between, and a superseded one has a later one of another label.      *)
VersionInForce ==
  \A i \in DOMAIN items :
    /\ Active(items[i].task, items[i].cve) # {}
    /\ items[i].status = "superseded" =>
         \E j \in DOMAIN items :
           j > i /\ items[j].task = "rcm" /\ items[j].cve = items[i].cve
                 /\ items[j].label # items[i].label

(* Available only from the later of input and label: no row, whichever     *)
(* path wrote or resolved it, is dated before its answer.                  *)
AnchorCoversLabel ==
  \A i \in DOMAIN items :
    /\ items[i].available = Later(items[i].input, items[i].labelled)
    /\ items[i].label = TRUE /\ items[i].cve \in DOMAIN kev
         => items[i].available >= kev[items[i].cve]

(* "Mutable labels snapshotted, so scoring reproduces": a row that runs    *)
(* have scored keeps its label and dates; a version may be superseded, a   *)
(* forecast answered, each once and for good.                              *)
HistoryKept ==
  [][\A i \in DOMAIN items :
       /\ i \in DOMAIN items'
       /\ items[i].task = "rcm" =>
            /\ \A field \in DOMAIN items[i] \ {"withhold", "status"} :
                 items'[i][field] = items[i][field]
            /\ items[i].status = "superseded" => items'[i].status = "superseded"
       /\ items[i].label = TRUE => items'[i] = items[i]]_items

(* No labelled item is shown to a run within the window after its          *)
(* publication, however its record is relabelled and redated meanwhile.    *)
LabelledHoldoutKept ==
  \A i \in DOMAIN items :
    items[i].task = "rcm" /\ items[i].status = "active" /\ ~items[i].withhold
      => items[i].input <= today - Window
-----------------------------------------------------------------------------
(* Liveness *)

(* An exploited CVE gets its answer on a forecast item, also when it was   *)
(* in the catalogue before the item was seeded.  (Of the two items of a    *)
(* CVE that was fetched twice only one is promised an answer.)             *)
ForecastResolved ==
  \A c \in Cves :
    c \in DOMAIN listed /\ Active("forecast", c) # {}
      ~> \E i \in Active("forecast", c) : items[i].label = TRUE
-----------------------------------------------------------------------------
(* What a comment says, and the code does not do *)

(* "So an item graduates out of the rolling window once it elapses."       *)
Graduates ==
  \A c \in Cves :
    (\E i \in Active("rcm", c) : items[i].withhold /\ items[i].available <= today - Window)
      ~> (\A i \in Active("rcm", c) : ~items[i].withhold)
=============================================================================
