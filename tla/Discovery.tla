----------------------------- MODULE Discovery -----------------------------
(***************************************************************************)
(* Which models the scans are for: the models table, the weekly flow       *)
(* sync-top-models that keeps it to the providers' top lists, the CTI seed *)
(* script, and the operator's trigger_top_models.py, which queues scans    *)
(* for a top list of its own.                                              *)
(*                                                                         *)
(* A provider's ranking moves at any time, may come back short or empty,   *)
(* and is old by the time the flow commits what it fetched.                *)
(***************************************************************************)
EXTENDS Naturals, Sequences, FiniteSets

CONSTANTS
  Catalog,     \* models OpenRouter ranks
  HfCatalog,   \* models Hugging Face ranks
  Unpriced,    \* OpenRouter entries without an id, free or above the cost cap
  CtiModel,    \* the model seed_cti_model.py seeds, one of HfCatalog
  TopN,        \* settings.scheduler_top_n_models
  HfTopN,      \* settings.scheduler_hf_top_n_models
  Overfetch,   \* _OVERFETCH_MULTIPLIER
  Syncers,     \* flow runs of sync-top-models
  MaxPending   \* bounds the runs pending for a model

Names == Catalog \cup HfCatalog

ASSUME DiscoveryAssumption ==
  /\ IsFiniteSet(Catalog) /\ IsFiniteSet(HfCatalog)
  /\ Catalog \cap HfCatalog = {}
  /\ Unpriced \subseteq Catalog
  /\ CtiModel \in HfCatalog
  /\ {TopN, HfTopN, Overfetch, MaxPending} \subseteq Nat \ {0}

VARIABLES
  source,    \* models.source
  state,     \* models.status, "absent" before the row is inserted
  pending,   \* pending runs of a model
  scanned,   \* models with a complete run
  phase,      \* where a sync flow is
  fetched,   \* the lists it has fetched
  script,    \* what is left of the operator's selection
  overwrite, \* whether --overwrite was given
  applied,   \* the last list a sync committed for each provider (history)
  revived    \* models the CTI seed set active since (history)

table == <<source, state, applied, revived>>
queue == <<pending, scanned, script, overwrite>>
sync  == <<phase, fetched>>
discovery == <<table, queue, sync>>

Providers == {"openrouter", "hf"}
Listed(s) == {s[i] : i \in 1..Len(s)}
First(n, s) == SubSeq(s, 1, IF n < Len(s) THEN n ELSE Len(s))
NoLists == [p \in Providers |-> << >>]

(* The rankings a provider may answer with when it is asked: any part of   *)
(* its catalogue, in any order.                                            *)
Rankings(S) ==
  UNION {{s \in [1..n -> S] : \A i, j \in 1..n : s[i] = s[j] => i = j} :
         n \in 0..Cardinality(S)}

DiscoveryInit ==
  /\ source  = [n \in Names |-> "manual"]
  /\ state   = [n \in Names |-> "absent"]
  /\ pending = [n \in Names |-> 0]
  /\ scanned = {}
  /\ phase    = [f \in Syncers |-> "idle"]
  /\ fetched = [f \in Syncers |-> NoLists]
  /\ script  = << >>
  /\ overwrite = FALSE
  /\ applied = [p \in Providers |-> {}]
  /\ revived = {}
-----------------------------------------------------------------------------
(* What the clients of the providers return *)

(* The top of the OpenRouter ranking, of the entries that can be scanned   *)
(* within the budget: the others are left out before the list is cut.      *)
FetchTopModels(n) == {s \in Rankings(Catalog \ Unpriced) : Len(s) <= n}

(* The top of the Hugging Face ranking, of those the router serves: any, as*)
(* the filter is skipped when the router does not answer.                  *)
FetchTopHfModels(n) == {s \in Rankings(HfCatalog) : Len(s) <= n}
-----------------------------------------------------------------------------
(* sync-top-models *)

FetchOpenRouter(f) ==
  /\ phase[f] = "idle"
  /\ phase' = [phase EXCEPT ![f] = "hf"]
  /\ \E s \in FetchTopModels(TopN) :
       fetched' = [fetched EXCEPT ![f]["openrouter"] = s]
  /\ UNCHANGED <<table, queue>>

FetchHf(f) ==
  /\ phase[f] = "hf"
  /\ phase' = [phase EXCEPT ![f] = "sync"]
  /\ \E s \in FetchTopHfModels(HfTopN) : fetched' = [fetched EXCEPT ![f]["hf"] = s]
  /\ UNCHANGED <<table, queue>>

(* A list that cannot be fetched at all fails the flow run.                *)
FetchFails(f) ==
  /\ phase[f] \in {"hf", "sync"}
  /\ phase' = [phase EXCEPT ![f] = "idle"]
  /\ fetched' = [fetched EXCEPT ![f] = NoLists]
  /\ UNCHANGED <<table, queue>>

(* A listed model is active from now on; a new one gets its provider.      *)
Upserted(n, p) ==
  IF state[n] = "absent" THEN p ELSE source[n]

(* Only a provider that answered with models loses the ones it dropped.    *)
Archivable_AnySource(f, n) ==
  /\ source[n] # "manual" /\ state[n] = "active"
Archivable_OpenRouter(f, n) ==
  /\ source[n] = "openrouter" /\ state[n] = "active"
  /\ fetched[f][source[n]] # << >>
Archivable(f, n) ==
  /\ source[n] # "manual" /\ state[n] = "active"
  /\ fetched[f][source[n]] # << >>

SyncModelStatuses(f) ==
  LET of(p) == Listed(fetched[f][p])
      discovered == of("openrouter") \cup of("hf")
  IN  /\ phase[f] = "sync"
      /\ phase' = [phase EXCEPT ![f] = "idle"]
      /\ fetched' = [fetched EXCEPT ![f] = NoLists]
      /\ source' = [n \in Names |->
           CASE n \in of("openrouter") -> Upserted(n, "openrouter")
             [] n \in of("hf")         -> Upserted(n, "hf")
             [] OTHER                  -> source[n]]
      /\ state' = [n \in Names |->
           IF n \in discovered THEN "active"
           ELSE IF Archivable(f, n) THEN "archived" ELSE state[n]]
      /\ applied' = [p \in Providers |->
           IF of(p) = {} THEN applied[p] ELSE of(p)]
      /\ revived' = {n \in revived : state'[n] = "active"} \ discovered
      /\ UNCHANGED <<queue>>
-----------------------------------------------------------------------------
(* The operator's scripts *)

(* seed_cti_model.py inserts its model as "manual", or sets it active.     *)
SeedCtiModel ==
  /\ state' = [state EXCEPT ![CtiModel] = "active"]
  /\ revived' = revived \cup {CtiModel}
  /\ UNCHANGED <<source, applied, queue, sync>>

(* Models with a complete run are left out of a selection of new ones,     *)
(* which is made from a longer list.                                       *)
Selections(p, newOnly) ==
  LET n    == IF newOnly THEN TopN * Overfetch ELSE TopN
      raws == IF p = "hf" THEN FetchTopHfModels(n) ELSE FetchTopModels(n)
      new(raw) == First(TopN, SelectSeq(raw, LAMBDA m : m \notin scanned))
  IN  IF newOnly THEN {new(raw) : raw \in raws} ELSE raws

TriggerSelect ==
  /\ script = << >>
  /\ \E p \in Providers, newOnly \in BOOLEAN : script' \in Selections(p, newOnly)
  /\ overwrite' \in BOOLEAN
  /\ UNCHANGED <<table, pending, scanned, sync>>

Skips(m) == pending[m] > 0 \/ m \in scanned

(* One model at a time, each with its own commit. A model without a row    *)
(* ends the script: the row it would insert has a column the table lost    *)
(* (is_active).                                                            *)
TriggerOne ==
  LET m == Head(script)
  IN  /\ script # << >>
      /\ IF state[m] = "absent"
         THEN script' = << >> /\ UNCHANGED pending
         ELSE /\ script' = Tail(script)
              /\ IF Skips(m) /\ ~overwrite
                 THEN UNCHANGED pending
                 ELSE /\ pending[m] < MaxPending
                      /\ pending' = [pending EXCEPT ![m] = @ + 1]
      /\ UNCHANGED <<table, scanned, overwrite, sync>>

(* The scan queue takes a pending run, and completes or fails it.          *)
Scan(m) ==
  /\ pending[m] > 0
  /\ pending' = [pending EXCEPT ![m] = @ - 1]
  /\ scanned' \in {scanned, scanned \cup {m}}
  /\ UNCHANGED <<table, script, overwrite, sync>>

Sync(f) ==
  \/ FetchOpenRouter(f)
  \/ FetchHf(f)
  \/ FetchFails(f)
  \/ SyncModelStatuses(f)

DiscoveryNext ==
  \/ \E f \in Syncers : Sync(f)
  \/ SeedCtiModel
  \/ TriggerSelect
  \/ TriggerOne
  \/ \E m \in Names : Scan(m)

DiscoverySpec == DiscoveryInit /\ [][DiscoveryNext]_discovery
-----------------------------------------------------------------------------
(* Correctness *)

(* The models that the weekly scans are queued for are those of the last   *)
(* lists that came back with models, whatever flow runs overlap or fail:   *)
(* each of these is active, and nothing else of a provider is, but the     *)
(* model that the CTI seed set active again since.                         *)
ActiveIsListed ==
  /\ \A p \in Providers : \A n \in applied[p] : state[n] = "active"
  /\ \A n \in Names :
       state[n] = "active" /\ source[n] # "manual" =>
         n \in applied[source[n]] \cup revived

(* A provider that cannot be reached, or answers with nothing, takes no    *)
(* model out of the weekly scans: a model leaves them when its own         *)
(* provider's list, not empty, no longer names it.                         *)
OutageArchivesNothing ==
  [][\A n \in Names : state[n] = "active" /\ state'[n] # "active" =>
       /\ source[n] # "manual"
       /\ applied'[source[n]] # {} /\ n \notin applied'[source[n]]
       /\ \E f \in Syncers : fetched[f][source[n]] # << >>
                             /\ phase[f] = "sync" /\ phase'[f] = "idle"]_discovery
=============================================================================
