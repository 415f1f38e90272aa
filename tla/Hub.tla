-------------------------------- MODULE Hub --------------------------------
(***************************************************************************)
(* Publishing the database as a dataset on the Hugging Face Hub, and       *)
(* merging that dataset into another database.                             *)
(*                                                                         *)
(* The export reads one table after the other while the pipelines write    *)
(* them, each query with what is committed by then, and pushes the tables  *)
(* one after the other. export_cti_to_hf.py publishes the CTI benchmark;   *)
(* export_to_hf.py and export_to_hf_public.py publish the scans, but ask   *)
(* for columns that only an older release's tables have. The import is of  *)
(* the scans: it downloads the tables one after the other and merges each  *)
(* in a transaction of its own. Any of the steps may be the last.          *)
(***************************************************************************)
EXTENDS Store, Sequences, FiniteSets

CONSTANTS
  Keys,     \* keys of result rows within a run
  Foreign   \* models whose name the importing database has under another id

ASSUME HubAssumption ==
  /\ Foreign \subseteq Models
  /\ IsFiniteSet(Keys)

VARIABLES
  exporter,  \* the script that exports, and whether on an older release
  db,        \* the exporting database: its models, runs and results
  reading,   \* how many tables the export has read, or 0
  read,      \* what it has read
  pushing,   \* how many tables it has pushed, or 0
  whole,     \* whether the last export to push has pushed every table
  hub,       \* the dataset
  loading,   \* how many tables the import has downloaded
  loaded,    \* what it has downloaded
  merging,   \* how many tables it has merged
  replica,   \* the importing database
  clean,     \* whether it was downloaded from one dataset that is whole
  merged     \* whether the last import to merge merged all of such a dataset

export == <<reading, read, pushing, whole, hub>>
import == <<loading, loaded, merging, replica, clean, merged>>
hubVars == <<exporter, db, export, import>>

(* models, runs, probe_results, attempts; the CTI benchmark's tables of    *)
(* items, techniques, actors and exploited CVEs refer to no other.         *)
Tables == <<"models", "runs", "results">>
Table  == {"models", "runs", "results"}

AbsentRun == [status |-> "absent", scored |-> 0]
EmptyDb == [models  |-> {},
            runs    |-> [r \in Runs |-> AbsentRun],
            results |-> [r \in Runs |-> {}]]

(* The columns a script serialises that the table has no more              *)
LostByScans ==
  [models  |-> {"is_active"},
   runs    |-> {"scanned_at", "submitted_by", "config_hash", "jsonl_manifest_hash",
                "verification_requested_at", "source_community_run_id"},
   results |-> {}]
LostByPublic == LostByScans
LostByCti == [t \in Table |-> {}]
Lost == CASE exporter.script = "scans"  -> LostByScans
          [] exporter.script = "public" -> LostByPublic
          [] exporter.script = "cti"    -> LostByCti

HubInit ==
  /\ exporter \in [script : {"cti", "scans", "public"}, older : BOOLEAN]
  /\ db = EmptyDb /\ read = EmptyDb /\ hub = EmptyDb /\ loaded = EmptyDb
  /\ replica = EmptyDb
  /\ reading = 0 /\ pushing = 0 /\ loading = 0 /\ merging = 0
  /\ whole = TRUE /\ clean = TRUE /\ merged = TRUE
-----------------------------------------------------------------------------
(* The pipelines *)

AddModel(m) ==
  /\ db' = [db EXCEPT !.models = @ \cup {m}]
  /\ UNCHANGED <<exporter, export, import>>

InsertRun(r) ==
  /\ ModelOf[r] \in db.models
  /\ db.runs[r].status = "absent"
  /\ db' = [db EXCEPT !.runs[r] = [status |-> "running", scored |-> 0]]
  /\ UNCHANGED <<exporter, export, import>>

(* Results are committed in batches before the run is completed with their *)
(* number, and never after.                                                *)
CommitResult(r, k) ==
  /\ db.runs[r].status = "running"
  /\ db' = [db EXCEPT !.results[r] = @ \cup {k}]
  /\ UNCHANGED <<exporter, export, import>>

FinishRun(r) ==
  /\ db.runs[r].status = "running"
  /\ db' = [db EXCEPT !.runs[r] =
              [status |-> "complete", scored |-> Cardinality(db.results[r])]]
  /\ UNCHANGED <<exporter, export, import>>
-----------------------------------------------------------------------------
(* The export *)

ReadOrder_ResultsFirst == <<"models", "results", "runs">>
ReadOrder == Tables

Serialisable(t) == exporter.older \/ Lost[t] = {} \/ db[t] = EmptyDb[t]

(* A script that meets a row of such a table ends (ExportEnds).            *)
ReadTable ==
  LET t == ReadOrder[reading + 1]
  IN  /\ reading < Len(Tables) /\ pushing = 0
      /\ Serialisable(t)
      /\ read' = [read EXCEPT ![t] = db[t]]
      /\ reading' = reading + 1
      /\ UNCHANGED <<exporter, db, pushing, whole, hub, import>>

(* The session is closed by then: what is pushed is what was read.         *)
PushTable ==
  LET t == Tables[pushing + 1]
      last == pushing + 1 = Len(Tables)
  IN  /\ reading = Len(Tables)
      /\ hub' = [hub EXCEPT ![t] = read[t]]
      /\ pushing' = IF last THEN 0 ELSE pushing + 1
      /\ reading' = IF last THEN 0 ELSE reading
      /\ read' = IF last THEN EmptyDb ELSE read
      /\ whole' = last
      /\ clean' = FALSE
      /\ UNCHANGED <<exporter, db, loading, loaded, merging, replica, merged>>

(* A dry run stops before it pushes; the Hub may fail any push.            *)
ExportEnds ==
  /\ reading > 0
  /\ reading' = 0 /\ pushing' = 0 /\ read' = EmptyDb
  /\ UNCHANGED <<exporter, db, whole, hub, import>>
Export == ReadTable \/ PushTable \/ ExportEnds
ExportScans  == exporter.script = "scans"  /\ Export
ExportPublic == exporter.script = "public" /\ Export
ExportCti    == exporter.script = "cti"    /\ Export
-----------------------------------------------------------------------------
(* The import, of what export_to_hf.py pushes *)

LoadTable ==
  LET t == Tables[loading + 1]
  IN  /\ exporter.script = "scans"
      /\ loading < Len(Tables) /\ merging = 0
      /\ loaded' = [loaded EXCEPT ![t] = hub[t]]
      /\ loading' = loading + 1
      /\ clean' = IF loading = 0 THEN whole ELSE clean
      /\ UNCHANGED <<exporter, db, export, merging, replica, merged>>

(* Rows the database has are skipped, the others inserted.                 *)
ImportModels == [replica EXCEPT !.models = @ \cup loaded.models]
ImportRuns   == [replica EXCEPT !.runs = [r \in Runs |->
  IF replica.runs[r] = AbsentRun THEN loaded.runs[r] ELSE replica.runs[r]]]
ImportResults_NewRuns == [replica EXCEPT !.results = [r \in Runs |->
  IF replica.results[r] = {} THEN loaded.results[r] ELSE replica.results[r]]]
ImportResults == [replica EXCEPT !.results = [r \in Runs |->
  replica.results[r] \cup loaded.results[r]]]

(* What makes the database refuse a table: a model's name it has under     *)
(* another id, a run of a model it has not, a result of a run it has not.  *)
Refused(t) ==
  CASE t = "models"  -> loaded.models \cap Foreign # {}
    [] t = "runs"    -> \E r \in Runs : loaded.runs[r] # AbsentRun
                                        /\ ModelOf[r] \notin replica.models
    [] t = "results" -> \E r \in Runs : loaded.results[r] # {}
                                        /\ replica.runs[r] = AbsentRun

EndImport ==
  /\ loading' = 0 /\ merging' = 0 /\ loaded' = EmptyDb /\ clean' = TRUE
  /\ UNCHANGED <<exporter, db, export>>

MergeTable ==
  LET t == Tables[merging + 1]
      last == merging + 1 = Len(Tables)
  IN  /\ loading = Len(Tables)
      /\ ~Refused(t)
      /\ replica' = CASE t = "models"  -> ImportModels
                      [] t = "runs"    -> ImportRuns
                      [] t = "results" -> ImportResults
      /\ merged' = (last /\ clean)
      /\ IF last THEN EndImport
                 ELSE /\ merging' = merging + 1
                      /\ UNCHANGED <<exporter, db, export, loading, loaded, clean>>

(* A download or a merge that fails ends the import; the tables merged     *)
(* before stay.                                                            *)
ImportFails ==
  /\ loading > 0
  /\ EndImport
  /\ UNCHANGED <<replica, merged>>

ImportAll == LoadTable \/ MergeTable \/ ImportFails

HubNext ==
  \/ \E m \in Models : AddModel(m)
  \/ \E r \in Runs : InsertRun(r) \/ FinishRun(r)
  \/ \E r \in Runs, k \in Keys : CommitResult(r, k)
  \/ ExportScans \/ ExportPublic \/ ExportCti
  \/ ImportAll

HubSpec == HubInit /\ [][HubNext]_hubVars
-----------------------------------------------------------------------------
(* Correctness *)

Whole(d, r) ==
  d.runs[r].status = "complete" => Cardinality(d.results[r]) = d.runs[r].scored

(* A dataset whose last push was not cut short has, for every run it shows *)
(* as complete, all the results the run was scored with, although the      *)
(* pipelines completed runs while it was read.                             *)
PublishedWhole == whole => \A r \in Runs : Whole(hub, r)

(* After an import of a dataset that was pushed whole, every run the       *)
(* importing database has as complete has all of its results, whatever     *)
(* earlier imports left behind: a run first imported while it was being    *)
(* scanned, a merge that was cut short.                                    *)
ReplicaWhole == merged => \A r \in Runs : Whole(replica, r)
=============================================================================
