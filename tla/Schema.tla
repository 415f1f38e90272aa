------------------------------- MODULE Schema -------------------------------
(***************************************************************************)
(* The tables of the database and init_db, which the API and every script  *)
(* run when they start, on an empty database or on one an older release    *)
(* left: create what is missing, then add missing columns. PostgreSQL's    *)
(* DDL is transactional; processes start at the same time, and the         *)
(* database may be away for a while.                                       *)
(***************************************************************************)
EXTENDS Naturals, Sequences, FiniteSetsExt

CONSTANTS
  Services,   \* processes that are started again when they fail
  Scripts,    \* processes that are not
  Older,      \* databases older releases left, functions like NoTables
  MaxOutages  \* bounds how often the database goes away

CreateAttempts == 5 \* max_retries in _create_tables

Processes == Services \cup Scripts
-----------------------------------------------------------------------------
(* The tables, their columns by what ALTER TABLE ADD COLUMN needs to know: *)
(* may it be NULL, has it a scalar default (the default an existing row    *)
(* gets), or must it be given (computed by the program, or without any).   *)

Table(null, scalar, given) == [null |-> null, scalar |-> scalar, given |-> given]

Model == Table({"version", "last_scan_at", "cutoff_start", "cutoff_end"},
               {"source", "status"},
               {"id", "name", "provider", "snapshot_date", "created_at"})
Run == Table({"probe_categories_json", "probe_prompt_cap", "parallel_attempts_override",
              "scan_timeout_seconds", "started_at", "completed_at",
              "garak_version", "garak_config", "raw_output"},
             {"triggered_by", "status"}, {"id", "model_id", "created_at"})
ProbeResult == Table({"score"}, {"pass_count", "fail_count"},
                     {"id", "run_id", "probe_name", "probe_category", "detector",
                      "created_at"})
Attempt == Table({"prompt", "response", "detector_outcome"}, {},
                 {"id", "run_id", "probe_name", "created_at"})
ProbeRunQueue == Table({}, {"status"},
                       {"id", "model_id", "probe_category", "scheduled_date", "created_at"})
ScanDlq == Table({"run_id", "missing_categories", "error_message"}, {},
                 {"id", "model_id", "reason", "created_at"})
CtiItem == Table({"input_text", "input_ref", "label", "label_provenance",
                  "source_revision", "input_date", "label_date",
                  "first_available_date", "difficulty"},
                 {"authority_agreement", "withhold", "status"},
                 {"id", "task", "external_id", "source", "created_at"})
CtiRun == Table({"model_cutoff_start", "model_cutoff_end", "prequential_score",
                 "config", "started_at", "completed_at"},
                {"triggered_by", "status", "item_count", "scored_count"},
                {"id", "model_id", "task", "created_at"})
CtiResult == Table({"prompt", "prompt_hash", "response", "parsed_output", "score",
                    "score_breakdown", "correct", "pre_cutoff"}, {},
                   {"id", "run_id", "item_id", "model_id", "created_at"})
CtiAttackTechnique == Table({"tactic", "revoked_by", "version"}, {},
                            {"id", "technique_id", "name", "created_at"})
CtiThreatActor == Table({"aliases", "techniques", "related_groups"}, {},
                        {"id", "canonical_name", "created_at"})
CtiKev == Table({"vendor", "product"}, {}, {"id", "cve_id", "date_added", "created_at"})

Orm == [models |-> Model, runs |-> Run, probe_results |-> ProbeResult,
        attempts |-> Attempt, probe_run_queue |-> ProbeRunQueue, scan_dlq |-> ScanDlq,
        cti_items |-> CtiItem, cti_runs |-> CtiRun, cti_results |-> CtiResult,
        cti_attack_techniques |-> CtiAttackTechnique,
        cti_threat_actors |-> CtiThreatActor, cti_kev |-> CtiKev]
OrmTables == DOMAIN Orm
Columns(t) == Orm[t].null \cup Orm[t].scalar \cup Orm[t].given

(* A table follows those its foreign keys refer to.                        *)
SortedTables ==
  <<"cti_attack_techniques", "cti_items", "cti_kev", "cti_threat_actors", "models",
    "cti_runs", "probe_run_queue", "runs", "attempts", "cti_results",
    "probe_results", "scan_dlq">>

NoTables == [t \in OrmTables |-> {}]

ASSUME SchemaAssumption ==
  /\ Services \cap Scripts = {}
  /\ \A d \in Older : \A t \in OrmTables : d[t] \subseteq Columns(t)
  /\ MaxOutages \in Nat
-----------------------------------------------------------------------------
VARIABLES
  columns, \* the columns each table has, {} if it does not exist
  filled,  \* tables that have rows
  up,      \* whether the database answers
  outages, \* how often it has been away
  at,      \* where a process is in init_db
  retries, \* failed attempts to create the tables
  absent   \* the tables a process has found missing, those left to create

schemaVars == <<columns, filled, up, outages, at, retries, absent>>
process == <<at, retries, absent>>

SchemaInit ==
  /\ columns \in Older \cup {NoTables}
  /\ filled \in {{}, {t \in OrmTables : columns[t] # {}}}
  /\ up = TRUE /\ outages = 0
  /\ at = [p \in Processes |-> "create"]
  /\ retries = [p \in Processes |-> 0]
  /\ absent = [p \in Processes |-> {}]

Missing == {t \in OrmTables : columns[t] = {}}
MoveTo(p, step) == at' = [at EXCEPT ![p] = step]
Create(S) == columns' = [t \in OrmTables |-> IF t \in S THEN Columns(t) ELSE columns[t]]

(* create_all: looks for what is missing, ...                              *)
CreateAll(p) ==
  /\ at[p] = "create" /\ up
  /\ absent' = [absent EXCEPT ![p] = Missing]
  /\ MoveTo(p, "commit")
  /\ UNCHANGED <<columns, filled, up, outages, retries>>

(* ... and creates it in one transaction. One that meets a type or table   *)
(* another process has created meanwhile is undone: the program goes on    *)
(* table by table, unless it had to wait for the other's commit, which is  *)
(* another error that ends it.                                             *)
AfterConflict_Again == {"commit"}
AfterConflict == {"tables", "failed"}
CommitAll(p) ==
  /\ at[p] = "commit" /\ up
  /\ IF absent[p] \subseteq Missing
     THEN /\ Create(absent[p])
          /\ MoveTo(p, "migrate")
          /\ absent' = [absent EXCEPT ![p] = {}]
     ELSE /\ \E step \in AfterConflict : MoveTo(p, step)
          /\ absent' = [absent EXCEPT ![p] = OrmTables]
          /\ UNCHANGED columns
  /\ UNCHANGED <<filled, up, outages, retries>>

(* The database does not answer: five attempts.                            *)
CreateFails(p) ==
  /\ at[p] \in {"create", "commit"} /\ ~up
  /\ retries' = [retries EXCEPT ![p] = @ + 1]
  /\ MoveTo(p, IF retries'[p] = CreateAttempts THEN "failed" ELSE "create")
  /\ UNCHANGED <<columns, filled, up, outages, absent>>

(* Table by table: one that exists is skipped, here or when it is created. *)
FirstOf(S) == SortedTables[Min({i \in DOMAIN SortedTables : SortedTables[i] \in S})]
CreateTable(p) ==
  /\ at[p] = "tables" /\ up
  /\ IF absent[p] = {}
     THEN MoveTo(p, "migrate") /\ UNCHANGED <<columns, absent>>
     ELSE \/ /\ FirstOf(absent[p]) \notin Missing
             /\ absent' = [absent EXCEPT ![p] = @ \ {FirstOf(@)}]
             /\ UNCHANGED <<columns, at>>
          \/ /\ FirstOf(absent[p]) \in Missing
             /\ MoveTo(p, "table")
             /\ UNCHANGED <<columns, absent>>
  /\ UNCHANGED <<filled, up, outages, retries>>

CommitTable(p) ==
  LET t == FirstOf(absent[p])
  IN  /\ at[p] = "table" /\ up
      /\ absent' = [absent EXCEPT ![p] = @ \ {t}]
      /\ \/ MoveTo(p, "tables") /\ Create({t} \cap Missing)
         \/ /\ t \notin Missing /\ MoveTo(p, "failed")
            /\ UNCHANGED columns
      /\ UNCHANGED <<filled, up, outages, retries>>

(* migrate_db, one transaction: adds the columns a table is without. One   *)
(* that existing rows would need a value for cannot be added.              *)
Lacks_Nullable(t) == IF columns[t] = {} THEN {} ELSE Orm[t].null \ columns[t]
Lacks(t) == IF columns[t] = {} THEN {} ELSE Columns(t) \ columns[t]
Impossible == {t \in filled : Lacks(t) \cap Orm[t].given # {}}
MigrateDb(p) ==
  /\ at[p] = "migrate" /\ up
  /\ \/ /\ Impossible = {}
        /\ columns' = [t \in OrmTables |-> columns[t] \cup Lacks(t)]
        /\ MoveTo(p, "ready")
     \/ /\ Impossible # {}
        /\ MoveTo(p, "failed") /\ UNCHANGED columns
  /\ UNCHANGED <<filled, up, outages, retries, absent>>

(* Only the creation of the tables is tried again.                         *)
InitFails(p) ==
  /\ at[p] \in {"tables", "table", "migrate"} /\ ~up
  /\ MoveTo(p, "failed")
  /\ UNCHANGED <<columns, filled, up, outages, retries, absent>>

Restart(p) ==
  /\ p \in Services /\ at[p] = "failed"
  /\ MoveTo(p, "create")
  /\ retries' = [retries EXCEPT ![p] = 0]
  /\ absent' = [absent EXCEPT ![p] = {}]
  /\ UNCHANGED <<columns, filled, up, outages>>

InitDb(p) ==
  \/ CreateAll(p) \/ CommitAll(p) \/ CreateFails(p)
  \/ CreateTable(p) \/ CommitTable(p) \/ MigrateDb(p) \/ InitFails(p)

(* A process that is ready writes rows; the database goes away and returns. *)
Write ==
  /\ up /\ \E p \in Processes : at[p] = "ready"
  /\ filled' = {t \in OrmTables : columns[t] # {}}
  /\ UNCHANGED <<columns, up, outages, process>>

GoesAway ==
  /\ up /\ outages < MaxOutages
  /\ up' = FALSE /\ outages' = outages + 1
  /\ UNCHANGED <<columns, filled, process>>

Returns == ~up /\ up' = TRUE /\ UNCHANGED <<columns, filled, outages, process>>

SchemaNext ==
  \/ \E p \in Processes : InitDb(p) \/ Restart(p)
  \/ Write \/ GoesAway \/ Returns

SchemaFairness == /\ \A p \in Processes : WF_schemaVars(InitDb(p) \/ Restart(p))
                  /\ WF_schemaVars(Returns)

SchemaSpec == SchemaInit /\ [][SchemaNext]_schemaVars /\ SchemaFairness
-----------------------------------------------------------------------------
(* Correctness *)

(* Once a process has come through init_db every table has every column    *)
(* the program uses, whatever the older release left and however processes *)
(* that started at the same time undid each other's transactions.          *)
SchemaComplete == (\E p \in Processes : at[p] = "ready") =>
  \A t \in OrmTables : columns[t] = Columns(t)

(* A service comes up, through conflicts, retries and restarts, unless the *)
(* older database has rows that a new column has no value for.             *)
ServicesStart == \A p \in Services :
  <>(at[p] = "ready" \/ Impossible # {})
=============================================================================
