----------------------------- MODULE CtiSources -----------------------------
(***************************************************************************)
(* Advisories as benchmark items.  The daily flows cti-ingest-report and   *)
(* cti-ingest-syn each collect the recent advisories of several agencies,  *)
(* drop copies of the same one, and store what is left: with its full text *)
(* as ATE and TAA items, and as SYN items whose input is what the advisory *)
(* observed, its conclusions cut and masked.                               *)
(*                                                                         *)
(* A page's text is a sequence of tokens [kind, value, word]: a technique, *)
(* a CVE, an indicator, an actor's name or prose, that is a word of its    *)
(* own or part of a longer one.                                            *)
(***************************************************************************)
EXTENDS CtiReference, FiniteSets, Picks

CONSTANTS
  Priority,     \* the sources, in the order of DEFAULT_PRIORITY
  Pages,        \* advisory pages, in the order in which they are posted
  IdWords,      \* the words of an id
  Short,        \* what is not searched for as a name: less than three characters, the mask
  Fuzzy,        \* sectors and mitigations a judge may find in an advisory
  MaxPerSource, \* settings.cti_report_max_per_source
  MinInput,     \* min_input_chars, in tokens
  MaxAge,       \* settings.cti_ingest_lookback_days
  LastClock     \* bounds the days

ASSUME SourcesAssumption ==
  /\ Priority \in Seq(STRING) /\ IsInjective(Priority)
  /\ Pages \in Seq(Range(Pages))
  /\ MaxPerSource \in Nat
  /\ "masked" \in Short

VARIABLES
  posted, \* how many of the pages have been posted
  clock,  \* the day
  stage,  \* where a flow is: Idle, the source it reads, Deduping or Storing
  names,  \* the alias index it has built
  pool,   \* the advisories it has collected, those it keeps
  cut,    \* the copies it has dropped
  corpus  \* active rows of cti_items by task and external id

collecting == <<stage, names, pool, cut>>
sources == <<posted, clock, collecting, corpus>>

Collectors == {"report", "syn"}
Dateless == 0
Idle     == 0
Deduping == Len(Priority) + 1
Storing  == Len(Priority) + 2
Values(kind, text) == {t.value : t \in {u \in Range(text) : u.kind = kind}}
-----------------------------------------------------------------------------
(* A page as an advisory *)

(* CISA's ids are in its links; other agencies' are the first number in    *)
(* the link or the text that looks like one of theirs, or the link's slug. *)
ExtractId(page) ==
  IF page.site = "cisa" \/ page.numbers = << >> THEN page.slug ELSE Head(page.numbers)

(* What a section is, by the key words in its heading.                     *)
ClassifyHeading(page, head) ==
  IF "ioc" \in head THEN "Indicators of Compromise"
  ELSE IF "drop" \in head \/ (page.site # "cisa" /\ "drop elsewhere" \in head) THEN "Dropped"
  ELSE IF "overview" \in head THEN "Overview" ELSE "Technical Details"

Bucket(page, name) ==
  FlattenSeq([i \in DOMAIN page.sections |->
    IF ClassifyHeading(page, page.sections[i].head) = name
    THEN page.sections[i].text ELSE << >>])
FullText(page) == FlattenSeq([i \in DOMAIN page.sections |-> page.sections[i].text])

(* The actor whose name or alias comes first, if any is in the index.      *)
DetectActor(text, index) ==
  LET found == {i \in DOMAIN text : text[i].kind = "name" /\ text[i].value \in DOMAIN index}
  IN  IF found = {} THEN {}
      ELSE {index[text[CHOOSE i \in found : \A j \in found : i <= j].value]}

Parse(page, index) ==
  LET text == FullText(page)
  IN  [page |-> page, site |-> page.site, id |-> ExtractId(page), text |-> text,
       techniques |-> Values("technique", text), cves |-> Values("cve", text),
       actor |-> DetectActor(text, index)]
-----------------------------------------------------------------------------
(* Copies *)

(* The share of A \cup B that is in both is at least k tenths.             *)
Overlap(A, B, k) ==
  A # {} /\ B # {} /\ 10 * Cardinality(A \cap B) >= k * Cardinality(A \cup B)

(* No title is collected: its words are those of the id.                   *)
IsDuplicate(a, b) ==
  Overlap(a.cves, b.cves, 6) \/ Overlap(IdWords[a.id], IdWords[b.id], 7)

Ranked(advisories) ==
  FlattenSeq([i \in DOMAIN Priority |->
    Pick(advisories, {j \in DOMAIN advisories : advisories[j].site = Priority[i]})])

HasCopy(kept, a) == \E k \in Range(kept) : k.site # a.site /\ IsDuplicate(a, k)
KeepFirst(ranked) ==
  LET kept[n \in 0..Len(ranked)] ==
        IF n = 0 THEN << >>
        ELSE IF HasCopy(kept[n - 1], ranked[n]) THEN kept[n - 1]
        ELSE Append(kept[n - 1], ranked[n])
  IN  kept[Len(ranked)]
DedupeAdvisories_AnyOrder(advisories) == KeepFirst(Reverse(Ranked(advisories)))
DedupeAdvisories(advisories) == KeepFirst(Ranked(advisories))
-----------------------------------------------------------------------------
(* Items *)

(* A row, with the alias index that its flow had built (which the database *)
(* does not keep).                                                         *)
Row(page, input, label, index) ==
  [page |-> page, input |-> input, label |-> label, index |-> index]
Item(task, a, row) == <<<<task, a.id>>, row>>

NormaliseReport(a) ==
  IF a.text = << >> THEN << >>
  ELSE (IF a.techniques = {} THEN << >>
        ELSE <<Item("ate", a, Row(a.page, a.text, a.techniques, << >>))>>)
    \o (IF a.actor = {} THEN << >>
        ELSE <<Item("taa", a, Row(a.page, a.text, a.actor, << >>))>>)

(* The observations of an advisory.                                        *)
ReconstructInputs(a) ==
  Bucket(a.page, "Overview") \o Bucket(a.page, "Technical Details")
    \o Bucket(a.page, "Indicators of Compromise")

BuildClaimSet(a, fuzzy) ==
  [actor |-> a.actor, techniques |-> a.techniques, cves |-> a.cves, fuzzy |-> fuzzy,
   iocs |-> Values("ioc", Bucket(a.page, "Indicators of Compromise"))]

(* Technique ids that are words, and names of the actor wherever they are, *)
(* are replaced by what is no name: the name it was detected as, the one   *)
(* that this name stands for in its turn, and the aliases of the latter.   *)
Mask == [kind |-> "mask", value |-> "masked", word |-> TRUE]
Resolved(name, index) == IF name \in DOMAIN index THEN index[name] ELSE name
ActorTerms(actor, index) ==
  LET canonical == {Resolved(x, index) : x \in actor}
  IN  (actor \cup canonical \cup {n \in DOMAIN index : index[n] \in canonical}) \ Short
MaskConclusions(text, terms) ==
  [i \in DOMAIN text |->
     IF (text[i].kind = "technique" /\ text[i].word) \/ text[i].value \in terms
     THEN Mask ELSE text[i]]

Shows(text, values) == \E t \in Range(text) : t.value \in values
Leaks_Never(text, claims) == FALSE
Leaks(text, claims) == Shows(text, claims.actor \cup claims.techniques)

BuildSynItem(a, fuzzy, index) ==
  LET terms  == ActorTerms(a.actor, index)
      inputs == MaskConclusions(ReconstructInputs(a), terms)
      claims == BuildClaimSet(a, fuzzy)
  IN  IF inputs = << >> \/ Len(inputs) < MinInput \/ Leaks(inputs, claims)
      THEN << >>
      ELSE <<Item("syn", a, Row(a.page, inputs, claims, index))>>

(* An item whose active row has its label changes nothing; another row     *)
(* takes the place of one with another label.                              *)
Upsert(rows, item) ==
  LET key == item[1]
  IN  IF key \in DOMAIN rows /\ rows[key].label = item[2].label THEN rows
      ELSE [k \in DOMAIN rows \cup {key} |-> IF k = key THEN item[2] ELSE rows[k]]
IngestItems(new) ==
  LET rows[n \in 0..Len(new)] == IF n = 0 THEN corpus ELSE Upsert(rows[n - 1], new[n])
  IN  rows[Len(new)]
-----------------------------------------------------------------------------
SourcesInit ==
  /\ ReferenceInit
  /\ posted = 0 /\ clock = 1
  /\ stage = [f \in Collectors |-> Idle]
  /\ names = [f \in Collectors |-> << >>]
  /\ pool = [f \in Collectors |-> << >>]
  /\ cut = [f \in Collectors |-> {}]
  /\ corpus = << >>

Post ==
  /\ posted < Len(Pages) /\ posted' = posted + 1
  /\ UNCHANGED <<reference, clock, collecting, corpus>>
NewDay ==
  /\ clock < LastClock /\ clock' = clock + 1
  /\ UNCHANGED <<reference, posted, collecting, corpus>>

StartCollecting(f) ==
  /\ stage[f] = Idle
  /\ stage' = [stage EXCEPT ![f] = 1]
  /\ names' = [names EXCEPT ![f] = BuildAliasIndex]
  /\ UNCHANGED <<reference, posted, clock, pool, cut, corpus>>

(* The newest pages of a source, those that can be read and parsed, and    *)
(* are recent or have no date; none when its index is unavailable.         *)
FetchSourceIndex(site) ==
  LET newest == Reverse(SubSeq(Pages, 1, posted))
      all == Pick(newest, {i \in DOMAIN newest : newest[i].site = site})
  IN  SubSeq(all, 1, IF Len(all) < MaxPerSource THEN Len(all) ELSE MaxPerSource)
PublishedWithin(page) == page.date = Dateless \/ page.date + MaxAge >= clock

CollectSource(f, i) ==
  /\ stage[f] = i
  /\ stage' = [stage EXCEPT ![f] = i + 1]
  /\ LET index == FetchSourceIndex(Priority[i])
     IN  \E readable \in SUBSET DOMAIN index :
           LET pages == Pick(index, {j \in readable : PublishedWithin(index[j])})
           IN  pool' = [pool EXCEPT ![f] = @ \o [j \in DOMAIN pages |-> Parse(pages[j], names[f])]]
  /\ UNCHANGED <<reference, posted, clock, names, cut, corpus>>

Dedupe(f) ==
  LET kept == DedupeAdvisories(pool[f])
  IN  /\ stage[f] = Deduping
      /\ stage' = [stage EXCEPT ![f] = Storing]
      /\ pool' = [pool EXCEPT ![f] = kept]
      /\ cut' = [cut EXCEPT ![f] = Range(pool[f]) \ Range(kept)]
      /\ UNCHANGED <<reference, posted, clock, names, corpus>>

EndCollecting(f) ==
  /\ stage' = [stage EXCEPT ![f] = Idle]
  /\ names' = [names EXCEPT ![f] = << >>]
  /\ pool' = [pool EXCEPT ![f] = << >>]
  /\ cut' = [cut EXCEPT ![f] = {}]
  /\ UNCHANGED <<reference, posted, clock>>

(* One transaction for all items of a flow.                                *)
StoreReports ==
  /\ stage["report"] = Storing
  /\ corpus' = IngestItems(FlattenSeq([i \in DOMAIN pool["report"] |->
                                         NormaliseReport(pool["report"][i])]))
  /\ EndCollecting("report")

StoreSyn ==
  /\ stage["syn"] = Storing
  /\ \E fuzzy \in [DOMAIN pool["syn"] -> SUBSET Fuzzy] :
       corpus' = IngestItems(FlattenSeq([i \in DOMAIN pool["syn"] |->
                   BuildSynItem(pool["syn"][i], fuzzy[i], names["syn"])]))
  /\ EndCollecting("syn")

(* The database fails, or the judge on any one advisory: nothing is stored.*)
CollectFails(f) ==
  /\ stage[f] = Storing
  /\ EndCollecting(f)
  /\ UNCHANGED corpus

RefreshReference == SyncReference /\ UNCHANGED sources

SourcesNext ==
  \/ Post \/ NewDay
  \/ \E f \in Collectors :
       \/ StartCollecting(f)
       \/ \E i \in DOMAIN Priority : CollectSource(f, i)
       \/ Dedupe(f)
       \/ CollectFails(f)
  \/ StoreReports \/ StoreSyn
  \/ RefreshReference

sourcesVars == <<reference, sources>>
SourcesSpec == SourcesInit /\ [][SourcesNext]_sourcesVars
-----------------------------------------------------------------------------
(* Correctness *)

Rank(site) == CHOOSE i \in DOMAIN Priority : Priority[i] = site

(* Among what a flow stores no two sources have advisories that are taken  *)
(* for copies of each other, though being a copy is not transitive; and    *)
(* what it drops is a copy of one that it keeps from a source it prefers.  *)
KeptIsDeduped ==
  \A f \in Collectors : stage[f] = Storing =>
    /\ \A a, b \in Range(pool[f]) : a.site # b.site => ~IsDuplicate(a, b)
    /\ \A d \in cut[f] : \E k \in Range(pool[f]) :
         IsDuplicate(d, k) /\ Rank(k.site) < Rank(d.site)

(* What a SYN item asks for is not in its input: no technique of its label *)
(* and not the name of its actor, nor, as long as this name stands for its *)
(* owner, any but the short of the owner's aliases: wherever the advisory  *)
(* has them, however the agency heads its sections, and whatever the       *)
(* reference data knew when the item was built.                            *)
AliasesOf(row) == {n \in DOMAIN row.index : row.index[n] \in row.label.actor} \ Short
ConclusionsWithheld ==
  \A key \in DOMAIN corpus : key[1] = "syn" =>
    LET row == corpus[key]
    IN  /\ ~Shows(row.input, row.label.techniques \cup row.label.actor)
        /\ (\A x \in row.label.actor : Resolved(x, row.index) = x)
             => ~Shows(row.input, AliasesOf(row))
-----------------------------------------------------------------------------
(* What a comment says, and the code does not do *)

(* "The actor's canonical name + all aliases that resolve to it" are what  *)
(* is masked: no name by which the label's actor could have been detected  *)
(* is left, but for the short ones.                                        *)
AliasesMasked ==
  \A key \in DOMAIN corpus :
    key[1] = "syn" => ~Shows(corpus[key].input, AliasesOf(corpus[key]))
=============================================================================
