# A TLA+ verification of Glokta

Glokta scans language models with garak and evaluates them on a benchmark of
cyber-threat intelligence (CTI). This directory models its pipelines, the
database they share, and what is published and shown of it. It says what each part
promises, checks the promises with TLC on small instances, and proves the most
important ones with TLAPS for every value of the constants.

Paths are those of the repository (`src/glokta/...`); the exact lines that each
definition stands for are in `PROJECT.json` under `map`.

## 1. The system

### Components, their state and how they interact

| component | code | state | operations | interacts by | modelled in |
|---|---|---|---|---|---|
| garak scan queue | `application/scan_service.py`, `pipeline/flows.py`, `db/repos.py`, `scripts/trigger_top_models.py` | tables `runs`, `scan_dlq`, `models.last_scan_at`; the flow session's copy of a run | queue stale models, queue from the script, reap, claim, execute, complete, fail, dead-letter | rows of `runs`, row locks with SKIP LOCKED, Prefect's retries and timeouts | `ScanQueue`, `RunLedger` |
| garak runner and report ingest | `infrastructure/garak/runner.py`, `application/ingest.py` | tables `probe_results`, `attempts`; the report file | compute the remaining probes, run garak, parse and store its report | called by the task of the scan queue | `GarakReport` |
| CTI evaluation runs | `application/cti/eval_service.py`, `pipeline/cti_flows.py` | tables `cti_runs`, `cti_results`; results added to a session and not committed | queue, claim, execute a page, aggregate, complete, fail, drain loop | rows of `cti_runs`, row locks, retries; reads `cti_items` | `CtiEval`, `RunLedger` |
| CTI item ingest, forecast items | `application/cti/ingest_service.py`, `forecast_service.py`, `connectors/cve.py`, `connectors/kev.py` | tables `cti_items`, `cti_kev` | fetch recent records, upsert, supersede, set the holdout flag, seed and resolve forecasts | two scheduled flows on one table, read by evaluation runs | `CtiItems` |
| CTI reference data | `application/cti/reference_service.py`, `connectors/attack.py`, `galaxy.py`, `malpedia.py` | tables `cti_attack_techniques`, `cti_threat_actors` | refresh, build the revocation, alias and relation indices | read by scoring and by the collection of advisories | `CtiReference` |
| CTI advisory collection and SYN items | `collection_service.py`, `syn_service.py`, `connectors/report.py`, `connectors/cert.py`, `cti/dedupe.py` | what a flow has collected; `cti_items` | collect, parse, deduplicate, mask, store | reads the reference data, writes items | `CtiSources` |
| CTI scoring | `domain/cti/scoring.py`, `scoring_aggregate.py`, `evaluator.py` | the indices of an attempt, its results | score an answer, aggregate a run | called by evaluation runs | `CtiScoring` |
| inference client, rate limiter, judge | `cti/inference.py`, `llm/throttle.py`, `llm/routing.py`, `cti/judge.py` | time of the last call | wait, post with retries, judge | called by evaluation runs | `Inference` |
| model sync | `scan_service.sync_model_statuses`, `flows.sync_top_models`, the two providers' clients, `scripts/seed_cti_model.py` | table `models` | fetch two lists, upsert, archive; the operator's selection | decides which models are queued | `Discovery` |
| database schema and sessions | `db/orm.py`, `db/session.py` | the tables' columns | create, retry table by table, migrate | every process, when it starts | `Schema` |
| leaderboard | `application/leaderboard.py`, `domain/risks.py`, `api/routers/leaderboard.py`, `glokta-lite/data.py` | none | rows, pages, pass rates, trends, detail | reads `runs`, `probe_results` or a copy | `Leaderboard` |
| CTI leaderboard | `api/routers/cti.py`, `cti_lite/data.py` | none | latest run per model and task, overall score, detail | reads `cti_runs` or a copy | `CtiBoard` |
| Hugging Face import and export | `hf/sync.py`, `scripts/export_*.py`, `scripts/import_from_hf.py` | a dataset outside, an importing database | read tables, push tables, download, merge | reads the tables above while they are written | `Hub` |
| user interfaces | `frontend/gradio_app.py`, `glokta-lite/app.py`, `cti_lite/app.py` | a browser's tables, the server's state of a session | load, filter, drill into a model, open a row | the queries above, events and answers | `Dashboard` (partly) |
| REST API, prompts and label formats | `api/`, `prompts.py`, `domain/cti/tasks.py` | none | queries, wording and reading of responses | | `Leaderboard`, `CtiBoard`, `CtiScoring` (partly) |
| operator scripts, notebooks | `scripts/` | none | downloads, smoke runs, generated documentation | | not modelled |

Every process has its own database session. There is no lock beside the row
lock of a claim, and the only unique columns are the names of models, techniques
and actors and the identifiers of KEV entries: nothing of that kind guards
`runs`, `cti_runs`, `cti_results` or `cti_items`. So every operation is a sequence of
transactions between which other processes run, and most of what makes the system
correct is the order of those transactions and what each of them reads again.

### What is hard, and what makes each part correct

**Scan queue.** Up to four flow runs claim from one queue; a task has four
attempts, each with a timeout; a reaper in every flow run fails runs that are
"running" for too long; a worker may die anywhere; the outcome of a run is
written by the attempt *and* by the flow, which decides on a cached copy of the
row; two processes queue, one of them without looking (`--overwrite`). Correct
means: one worker per run; no probe ingested twice over the attempts of a run; a
complete run has output; a dead-letter entry tells the truth; nothing but a crash
loses a run; the reaper costs no run a retry; outcomes stand once worker and reaper
have let go; a model has no more active runs than there are processes that queue
and forced queueings; every queued run ends.

**garak reports.** A report may be of all probes or end anywhere, with a broken
line; what it has is committed before the status is. Correct means: however
attempts fail, a detector's verdict on a probe counts once.

**Evaluation runs.** The flow, with retries and a session per attempt, and the
bootstrap's loop, with one session that survives failures, drain the same queue.
An attempt commits in batches, so a failure loses part of a batch and the retry
must find exactly the items without a committed result. Correct means: one
result per item; no gap; an aggregate over all attempts; wasted and paid
inference calls bounded; a bad run is failed and never left behind, unless the
handler itself fails; what is queued ends.

**Item store.** Two scheduled flows, each a few transactions long, write one
table from feeds in which labels and dates change, appear late, or arrive
before the item they belong to; a batch may hold a record twice. Correct means: an
ingested CVE always has a version in force; a version that was scored keeps its
label and dates; an answer is never older than the item's availability; labelled
items stay in the holdout for the whole window; an exploited CVE gets its answer.

**Advisories.** Agencies publish copies of each other's advisories with their own
numbers and headings; being a copy is not transitive; what is a conclusion depends on
headings and on the actors' names known that day. Correct means: what is kept has no
copies, what is dropped has a better one; a SYN item does not show its answer, by
any name that the flow takes for the actor's.

**Scoring.** Attempts of one run may see different reference data, results come
back in any order. Correct means: every answer has the score its measure stands
for under the data it was scored with, and the run's score is the recency-weighted
mean of all of them.

**Inference.** A limiter per attempt, a clock that runs on while requests and
retries go on, attempts that follow each other. Correct means: two questions are at
least the interval apart.

**Model sync.** Two providers, either of which may be away or answer in part, and
flow runs that overlap. Correct means: active is what the last real lists named, and
an outage archives nothing.

**Schema.** The API, the worker and scripts start together on an empty or an older
database, and undo each other's transactions. Correct means: who comes through has
every column, and services do come through.

**Published and shown results.** An export reads and pushes table by table while runs
are completed; an import can be cut short and repeated; two dashboards compute the
same tables in different ways; a click is answered with what the server holds by
then. Correct means: a complete run is published and imported with all its results;
the dashboards agree; pages lose nothing; a click opens the run of the row.

## 2. The modules

| module | what it is |
|---|---|
| `RunLedger` | abstract specification of a queue of runs: a run is submitted once, taken once, ended by its worker or by who has suspected it of being stuck, and its outcome stands when both have let go |
| `ScanQueue`, `ScanQueueProofs` | the queue of scans as the code implements it, with retries, reaper, crash and time; its properties, the refinement `ImplementsLedger`; the theorems on runs, on what is queued and on what is lost |
| `CtiEval`, `CtiEvalProofs` | evaluation runs: triggers, bootstrap, flow workers, batches and pages; the refinement `ImplementsLedger`; the theorems |
| `CtiItems`, `CtiItemsProofs` | the item store under its two flows; the theorems on its rows and on the versions in force |
| `GarakReport` | the attempts of one scan: probes asked, report, rows |
| `CtiReference` | techniques and actors, their refresh, the indices made from them |
| `CtiSources` | extends it: the two flows that make items of advisories |
| `CtiScoring`, `ScoringProofs` | extends it: the scoring of a run, with reference definitions of its measures; fractions, and the theorem that the scores agree with the references |
| `Inference` | the calls of an attempt in time |
| `Discovery` | the table of models under syncs and scripts |
| `Schema` | the tables' columns under processes that start |
| `PipelinesProofs` | the theorems on `GarakReport`, `CtiSources`, `Inference`, `Discovery` and `Schema` |
| `Store` | models and runs, as the four modules below share them |
| `Hub` | export and import against running pipelines |
| `CtiBoard` | the CTI leaderboard, by the API's queries and by those on a copy |
| `Dashboard` | a browser session of any of the three dashboards |
| `ViewsProofs` | the theorems on `Hub`, `CtiBoard` and `Dashboard` |
| `Leaderboard`, `LeaderboardProofs` | the leaderboard of the scans, likewise by both, its pages, rates and trends; the theorems |
| `Picks`, `PicksProofs` | a list comprehension with a condition, as a function of positions, and the sum of a function; the library of lemmas: induction over numbers and finite sets, recursion, the parts of sequences, sums in any order, counting pairs |
| `MCScanQueue`, `MCCtiEval`, `MCCtiItems`, `MCViews`, `MCPipelines` | the small instances for TLC |

`MCViews` and `MCPipelines` each put several modules into one specification. Those
modules share no variables (but `CtiReference`'s, of two of them), because in the code
they meet only in tables that are modelled by the module that owns them; so a
behaviour picks a `part` at the start, takes the steps of that part only, and leaves
the others as they are. It is one run per question on the outside world instead of one
per module, and no product of state spaces.

### How ScanQueue corresponds to the code

A `Workers` element is one slot of the deployment's `concurrency_limit`
(`prefect.yaml:14`). Its `step` is the place in the flow between two
transactions:

| step | place in the code | actions that leave it |
|---|---|---|
| `waiting`, `due` | no flow run; one is due | `Tick`, `StartFlow` |
| `reap` | `reap_stale_runs` has selected its rows | `CommitReap` |
| `claim`, `locked` | before and after SELECT ... FOR UPDATE SKIP LOCKED | `Claim`, `NothingPending`, `CommitClaim` |
| `attempt` | the task's attempt has not looked at the row yet | `AttemptStale`, `AttemptSkip`, `StartGarak`, `AttemptFails` |
| `garak` | garak runs | `Ingest`, `AttemptFails` |
| `ingested`, `committed` | before and after the attempt commits "complete" | `CompleteRun`, `ReturnTask`, `AttemptFails` |
| `backoff` | Prefect waits before a retry | `RetryAttempt` |
| `returned`, `raised`, `dlq` | back in `process_pending_run` | `FinishRun`, `FailRun`, `WriteDlqEntry` |

A row of `runs` is `status[r]` and `age[r]` (time since `started_at`); its
`probe_results` are counted per probe in `results[r]`; `attempts[r]` says whether
it has attempt rows; `dlq[r]` counts its dead-letter rows. `models.last_scan_at`
is `scanAge`, which saturates at the TTL. `cached[w]` is the flow session's copy
of the status: `find_by_id` returns the object that the session loaded after the
claim (its identity map), so the handler's test for "complete" is made on that
copy. The schedulers and the operator's script read (`ScheduleRead`,
`OperatorRead`) and insert (`Enqueue`) in two steps: nothing holds the table
between them. With `--overwrite` the script inserts without reading
(`OperatorOverwrites`, counted in `overwrites`).

`StartFlow` selects the rows to reap without locking them, and `CommitReap` writes
"failed" over whatever they are by then. The code's threshold lets a live worker's
run be selected (finding 2), so every passing run has a threshold below a task's
life, and what the properties say of the queue holds although the reaper strikes
live runs. In particular the abstract `RunLedger` has such an actor too: a run may be
*suspected* at any time while it is running, and who suspects it may end it; the
refinement maps `suspected` to what the flows have selected. What it forbids is that
an outcome changes after its worker and all who suspected it have let go, and that a
run is taken twice.

Time is discrete. Database steps take no time; a garak call and a pause before
a retry do, and they end at the latest when their limit is reached. A step that
takes no time is taken before the clock moves (`Tick` waits for it).
A report may cover any subset of the probes asked for, with or without attempt
rows; `GarakReport` has the same task with the report line by line, and without the
other workers. Failures of the database in the task are part of `AttemptFails`; those
in the flow (a claim, an outcome or a dead letter that cannot be committed, which it does
not catch) end the flow run and leave what its worker's death would, so they are part of
`Crash`. The
fallback without SKIP LOCKED for SQLite, for development, is not modelled.

### How CtiEval corresponds to the code

An actor is a flow run of cti-scan-pending (`Workers`) or of cti-bootstrap
(`Drainers`); both go through `process_pending_cti_run`. An item is its place in
the order of `first_available_date`; the slice is constant while a run is
executed. `buffer[w]` is what the session has added and not committed. A
failed attempt of the flow closes its session and loses the buffer; the drain
loop's session survives, and the commit of "failed" inserts it (`FailRun`).
`Known` is what `find_by_id` shows: the claim's copy in the flow, the row as it
is in the drain loop. `page[w]` is the part of the attempt's page that is left,
and `calls` a counter that the code does not have: the inference calls that were
paid for.

The database may also fail `process_pending_cti_run` itself. `FlowFails`: the commit of
the claim or of the outcome fails, or, in the drain loop, the session in which an
insertion has failed still needs a rollback, so that `find_by_id`
(`eval_service.py:200`) raises in the handler; the run stays "running" although no
process died. `ReadFails`: only the reading of the finished run fails, which the handler
takes for a failure of the run. `faults` counts them, and `OrphansBounded` says that
runs are left behind by these and by crashes alone, one by each. `RunsEnd` is about all
others.

Two observations that follow from the code and are no contradiction to its
documentation: the cap on inference calls is per attempt, so a run can pay for
`MaxAttempts` pages (`CallsBounded` states the true bound); and two queuers can
queue one pair twice, because `queue_cti_runs` checks and inserts without a
constraint (each run of the pair stays exclusive, so nothing but money is lost).

### How CtiItems corresponds to the code

`feed`, `listed` and `today` are the world: the CVE list, the KEV catalogue and
the calendar. A record's label is dated as its publication (from the CNA) or as
the update of its ADP container, which may have no date; that choice is what the
precedence in `normalise_cve_record` amounts to. The RCM item of a CVE stands
for RCM and VSP, which are ingested alike. A flow run fetches (`FetchRecords`,
any part of the downloads may be skipped), treats the records one by one in its
session (`UpsertItem`, reading what is committed), commits (`CommitItems`), seeds
forecasts (`SeedItem`) and commits again (`CommitSeeds`); the KEV flow stores the
entries (`StoreKev`, a commit) and resolves (`ResolveItem`, `CommitResolved`).
`txn[f]` is what a session has written and not committed: rows to insert, rows to
supersede, flags, answers. `Fail` rolls it back. A conflict on the unique index
of `cti_kev`, possible with two KEV flows, is such a failure.

The feed's delta lists a CVE that was published and updated since the last one under
both headings, and `recent_delta_links` does not remove the second: `twice[f]` is the
set of CVEs that a batch holds twice. The two GETs of such a CVE's link are taken to
return the same record. `upsert_item` flushes, so the second record finds the first
one's version; `seed_forecast_items` does not, and inserts two items (`Seed`, which
`copy` tells apart), although its docstring says that it never duplicates (section 5).

Any number of flow runs may be at work at a time. With two runs of cti-ingest-cve (the
hourly one and cti-bootstrap, which calls the same flow) `upsert_item` may insert a
version twice, and from then on supersede one of the two; `VersionInForce` says what
holds nevertheless: no CVE loses its version, whatever the two replace at a time. It is
proved for any number of flow runs and checked with one.

The two kinds of item differ in the holdout. `LabelledHoldoutKept` is about RCM and VSP
items; forecast items are inserted with `withhold` false and are open to runs at once,
while the page of the task tells visitors otherwise (section 5).
`LabelledHoldoutKept` speaks of an item's publication (`input_date`): the flag of an
unchanged label is recomputed from the dates of the *incoming* record while the
row keeps its own `first_available_date`, so a label that first came from a late
ADP container and is confirmed by the CNA leaves the holdout before its own
`first_available_date` is a window old.

### How GarakReport corresponds to the code

One run, from its first attempt to its last. `BuildConfig` is `GarakRunner.build_config` with
`compute_remaining_probes`, which asks for the probes that have no committed row;
`RunGarak` the subprocess, with the exit codes the runner tells apart (0 and 1 are
an end, others and the timeout an error); `IngestJsonlFile` the parser and its one
transaction; `Finish` the commit of the status. A probe's name is `<<category,
class>>`, and the prefix that the registry puts before it is a field, since removing
it is what makes a done probe comparable with a listed one. A report is a sequence of
lines; one that is cut may end in a line that is no JSON, which the parser skips.
`Raise` is any exception of an attempt.

### How CtiReference, CtiSources and CtiScoring correspond to the code

`CtiReference` is the tables `cti_attack_techniques` and `cti_threat_actors`, their
weekly refresh, and the indices. `IngestAttack` and `IngestGalaxy` are the flows, one
transaction each; `BuildTechniqueIndex`, `BuildAliasIndex` and `BuildRelatedIndex` read
what is committed. Rows are never removed, so a name may come to be an alias of two
rows, and the later one takes it.

`CtiSources` extends it. A collector (`report` or `syn`) builds the alias index,
collects source by source (`CollectSource`, any page may be unreadable and an index
unavailable), drops the copies (`Dedupe`), and stores (`StoreReports`, `StoreSyn`,
one transaction). A page's text is a sequence of tokens, each of which knows
whether it is a word of its own, because a technique id is masked only when it is,
and an actor's name wherever it occurs; a heading is the set of key words that it
has. `pool`, `names` and `cut` are the flow's local variables. A SYN item keeps, for the
properties only, the index its flow had built. `ActorTerms` looks the actor's name up
once more (`Resolved`), as the code does: if a later row has taken the name as an alias,
what is masked is that row's names. `ConclusionsWithheld` therefore promises the
actor's own aliases only as long as the name stands for itself; that the docstring
promises them always is finding 6.

`CtiScoring` extends it too. An attempt builds its indices (`StartScoring`), scores
items one by one (`ScoreAnswer`, with what the regular expressions find in the
response as the set per line) and aggregates (`AggregateRun`, over the rows in any
order). Scores are exact fractions: the code's floats are rounded to the precision of
the database only when they are shown. `SetF1`, `ScoreVsp`, `ScoreTaa`, `ScoreForecast`
and `ScoreSyn` follow `domain/cti/scoring.py`, `PrequentialForRun` and `AucForRun`
`scoring_aggregate.py`. The credit for an actor is what `score_taa` and
`docs/cti-benchmark.md:155-157` agree on (any of its names 1, a related group 1/2); the
page of the task tells visitors 1/2 and 0 (section 5). The references they are compared
with are written independently: Dice's coefficient for F1, monotonicity for the severity measure, the
rows of the actors for the credit, the rank sum for the AUC, counting of later
results for the weights. Items of the same date are weighted in the order in which the
database returned them, so the weighted mean is compared for dates that differ. The
judge's verdicts on grounded claims are a choice; since the runs always have a judge
(`eval_service.py:54`), the branch without one is left out.

### How Inference corresponds to the code

One attempt after the other of an evaluation run, as calls in time: `Wait` is
`RateLimiter.wait`, `Complete` one POST of `complete` with what its answer leads to,
`Rerun` the task's retry. `last` is the limiter's memory, which the attempt has for
itself; `apart` is what the property speaks of, the time since the model was last asked
about another item. Time saturates at the interval. The judge's calls go through the
same client and not through the limiter.

### How Discovery corresponds to the code

`FetchOpenRouter`, `FetchHf` and `SyncModelStatuses` are the flow sync-top-models: two
downloads and one transaction. A provider may answer with any ranking of any part of
its catalogue. `applied` and `revived` are history variables that say what the last
committed lists were and which model a script has set active since. `TriggerSelect`
and `TriggerOne` are `trigger_top_models.py`, which selects and then queues model by
model. The row it would insert for a model that has none names `is_active`, a column the
table no longer has (`db/orm.py`): that ends the script, and the model says so.

### How Schema corresponds to the code

The tables of `orm.py` with their columns, by what ALTER TABLE needs to know of a column:
nullable, with a scalar default, or neither. `CreateAll` and `CommitAll` are
`metadata.create_all` in one transaction, `CreateTable` and `CommitTable` the fallback
table by table, `CreateFails` the retry loop, `MigrateDb` `migrate_db`. Services (API,
worker) are restarted by docker compose, scripts are not.

### How Hub corresponds to the code

`ReadTable` and `PushTable` are an export script: its queries in order, in a session that
reads what is committed, then its pushes. `LoadTable` and `MergeTable` are the import,
each table merged in a transaction of its own. `whole`, `clean` and `merged` are history
variables: whether a sequence of steps was cut short. `export_to_hf.py` and
`export_to_hf_public.py` serialise columns that the tables lost (`is_active`, `config_hash` and others);
on the present tables they end at the first row (`Serialisable`), so what they would
publish is checked on an older release's tables (`exporter.older`). A run that was
imported while it was running is not refreshed by a later import; it is never shown as
complete, so `ReplicaWhole` holds, and the importing database just lacks it.

### How Leaderboard, CtiBoard and Dashboard correspond to the code

`Leaderboard` and `CtiBoard` have the queries of `application/leaderboard.py` and
`api/routers` beside those of `glokta-lite/data.py` and `cti_lite/data.py`, as operators
on one state that scans and evaluations change. The API takes the run created last and
the copy the one completed last: `ViewsAgree` is about models whose runs were
completed in the order of their creation (`InOrder`). A leaderboard is sorted by score
with no tie-break, so `PagesCover` is about tables without equal scores, and says of
every order the database may choose that the pages show each row once.

`Dashboard` has a browser's tables and the server's `gr.State`. An event carries what the
browser showed; events of one handler are served in order, those of different handlers in
any; answers arrive in the order in which they were made. `held` is the run id that the
server keeps for a tab. The tabs for Run Detail and Compare are plain queries and left out.
`glokta-lite/app.py:221` promises attempt-level detail on a click, and no handler is wired to
it.

## 3. The runs

| run | instance | checks | shows |
|---|---|---|---|
| `scan_any_timing` | 1 model, 2 runs, 2 probes, 2 workers, the scheduler, the operator's script, 1 `--overwrite`, 2 attempts, no crash, a threshold below a task's life | `TypeOK`, `ActiveRunsBounded`, `NoDuplicateResults`, `DlqMeansFailed`, `CompleteHasOutput`, `OnlyLastAttemptReaped` | what is queued, ingested, completed and dead-lettered is right although two processes queue, one of them also unread, and the reaper strikes runs with a live worker; it costs no run a retry |
| `scan_live` | 1 model, 2 runs, 1 probe, 2 workers, 1 scheduler, 2 attempts, 1 crash, a threshold below a task's life | `ExclusiveRun`, `LostRunsBounded`, `ImplementsLedger`, `RunsEnd` | the queue is the abstract one, nothing but a crash loses a run, and every queued scan ends, although a worker dies and the reaper strikes live runs |
| `scan_late_failure` | 1 model, 2 runs, 2 probes, 2 workers, 1 scheduler, no crash, a threshold above a task's life | violation of `CompleteIsKept` | finding 1 |
| `scan_reaps_live` | 4 attempts, the code's threshold in scale | violation of `NoLiveReap` | finding 2 |
| `cti_eval` | 1 pair, 2 runs, 4 items, worker + bootstrap + trigger, 2 attempts, cap 3, batch 2, drain limit 3, 1 fault, 1 crash | `ExclusiveRun`, `NoDuplicateResults`, `NoGap`, `AggregateIsWhole`, `LostWorkBounded`, `CallsBounded`, `OrphansBounded`, `ImplementsLedger`, `RunsEnd` | the queue is the abstract one, resuming is right over failures, batches and two kinds of actor, a run is left behind only by a crash or a fault, and every other one ends |
| `cti_slice` | 1 pair, 2 workers, a trigger, cap 3, 4 items | violation of `SliceExhausted` | finding 3 |
| `cti_stuck` | the same | violation of `InterruptedRunsEnd` | finding 4 |
| `cti_items` | 1 CVE, 2 labels, both flows, 3 days, lookback 0, window 1, 1 revision, 1 failure or doubled record | `VersionInForce`, `AnchorCoversLabel`, `LabelledHoldoutKept`, `HistoryKept`, `ForecastResolved` | the item store under both flows, late and early listings, relabelling, failures, a record twice in a batch |
| `cti_graduates` | 1 CVE, lookback 1, window 2, 3 days | violation of `Graduates` | finding 5 |
| `views` | hub: 2 models, 1 run, 2 results; leaderboard: 2 models, 3 runs, 3 probes; CTI leaderboard: 4 runs; dashboard: 2 models, 2 runs of one, 2 events under way | `PublishedWhole`, `ReplicaWhole`, `ViewsAgree`, `PagesCover`, `CtiViewsAgree`, `RowsAndRunAgree`, `ViewerOfClickedRun` | what is published, imported and shown is what the runs were scored with |
| `pipelines` | discovery: 2 models per provider, lists of 1, 2 flow runs; schema: 12 tables, a service and a script, 2 outages; inference: 3 items, 2 verdicts, 4 attempts; reports: 3 probes, 4 attempts; advisories: 3 agencies, 2 days; scoring: 2 items of each of 6 tasks | `ActiveIsListed`, `OutageArchivesNothing`, `SchemaComplete`, `ServicesStart`, `PacedCalls`, `VerdictsOnce`, `KeptIsDeduped`, `ConclusionsWithheld`, `ScoresMatchReference` | the pipelines around the two queues |
| `syn_masked` | the SYN collector of `pipelines` | violation of `AliasesMasked` | finding 6 |

**Bounds, and why they are enough.** Two workers and two runs show every
conflict the code can have over a row: claim against claim, reaper against
worker, reaper against reaper. Two probes let a report be partial, and a retry
run what is left. Two attempts are the first and the last; the scale of the
timing is the code's: the threshold is below the life of all attempts, and above that of
all but the last (`LastAttemptTiming`, which TLC needs no assumption for, since the
instance satisfies it). `scan_reaps_live` takes the code's four attempts,
because the comparison depends on their number; `scan_late_failure` has a threshold
above a task's life, so that its counterexample owes nothing to the reaper. Two runs, two processes that
queue and one `--overwrite` let `ActiveRunsBounded` fail for a queuer that misses a run
which is active; what more of each may do is proved. Crashes are in `scan_live`, for
what is about them: the properties of `scan_any_timing` are about what commits write, and
a crash commits nothing; they are proved with crashes. One fault beside
one crash leaves up to two runs behind in `cti_eval`, which are all there are, and shows
either alone. With a cap of 3, a batch of 2
and 4 items, a page ends in a partial batch, a second page is shorter than the
cap, and an attempt can fail before, in and after a batch commit. One crash is
enough to leave a run behind, and the second actor is there to meet it. In the item
store CVEs are independent of each other except for sharing transactions, so one
CVE with all its histories is worth more than two with few; two labels and a revision
give an item that is labelled late, one that is replaced, and one that is redated;
three days with a window of one have days inside and outside of it for an item that
is published, and for one that is relabelled, on either of the first two. A doubled
record counts against `MaxFailures` as a skipped one does, which bounds how many
there are. Lookback 0 in
`cti_items` and 1 below a window of 2 in `cti_graduates` keep the order of the
code's values (3 below 14 days).

In `views`, `MCViews` names the bounds: the hub has one run (`HubRuns`), whose results come
in two steps while it is read, and its models are there first; two runs of one model
and one of another (`BoardRuns`) tell the latest run from others and put rows of
different runs on a page; the bench has a second task; in the dashboard one model gets
runs (`DashboardModels`) while another one is there to choose. In `pipelines`, lists of
one model out of two let each list drop what the last one named; flow runs overlap until
a scan is triggered (then one at a time: the scripts share only the table with them);
the two collectors are parts of their own, since they share only the reference data, and
run over three agencies of which two copy one advisory and a third is like part of it,
so that being a copy is not transitive; the third cluster takes the name of an actor
as an alias, and is in the instance for the collectors (`InScoring` leaves it out of the
scoring, whose indices have conflicts of their own); scoring refreshes the reference data between
attempts where the task uses it and takes equal dates where a series is scored. Two items of a
run are a pair for the AUC and for monotonicity, and two attempts may score one each.
The tables and columns of `Schema` are the code's own.

**Fairness.** In `ScanQueue`, `WF(Tick)`: time passes and the schedule makes flow
runs due again and again (an interval of 900 s); `WF(Flow(w))`: a process that
lives runs its code. No fairness is assumed of queueing, of crashes, or of
particular outcomes of garak: its call ends because the timeout stops the clock. In
`CtiEval`, `WF(Work(w))`: the same for its flows. In `CtiItems`, the KEV flow is started
again and again (a daily cron line), which is all that `cti_items` needs;
`cti_graduates` adds that the days pass and that the hourly ingest keeps running, so
that its counterexample is none of a system that merely stops. In `Schema`, a process
that has started runs, a service is restarted (`restart: unless-stopped`), and the
database returns. There is no
fairness of publications, revisions or listings. Failures are bounded, never
forbidden at a particular place. Symmetry is used in safety runs only.

**Deadlock** is checked in every run of `ScanQueue` and `CtiItems`, where the clock
or a flow can always go on. Elsewhere the system really may come to rest (no
row left to queue, every run ended, every process started, no page left to post),
so those configurations say so.

## 4. What is proved

For every number of runs, workers, probes, items, attempts, models, tables, pages and
processes, and whatever the timeouts, batch sizes and caps are. The assumptions on the
constants are those named in the modules (`...Assumption`), and TLC evaluates them on the
runs. Most say that a constant is a number, a function, a list without repetitions or a
finite set; those with content are about the code's values: a retry of the client waits at
least the limiter's interval (`InferenceAssumption`), the catalogues of the two providers
are disjoint (`DiscoveryAssumption`), a priority names a source once
(`SourcesAssumption`), garak lists a probe once (`GarakReportAssumption`), severities and
stated probabilities are not negative, and the fading factor is a fraction
(`ScoringAssumption`).
One is stated by the theorem that needs it: `LastAttemptTiming`, that the slack of all attempts
but the last is below the garak timeout and the threshold's slack together, which the code's
values satisfy (3 * 300 s against `garak_timeout_seconds` + 600 s).

| theorem | states | argument |
|---|---|---|
| `ScanQueueProofs!TypeCorrect` | `TypeOK` | type invariant, one step per action |
| `RunsAreExclusive` | `ExclusiveRun` | the claim's guard alone gives the lock; the invariant adds that a worker past the claim has a run that is not "pending", and that a locked row is "pending" |
| `ResultsAreNotDuplicated` | `NoDuplicateResults` | what garak was given has no result yet, until this worker, alone on the run, ingests it |
| `DlqAgreesWithRuns` | `DlqMeansFailed` | a run with an entry is "failed" and in nobody's hands; only its worker could write otherwise |
| `CompleteRunsHaveOutput` | `CompleteHasOutput` | a worker that is about to write "complete" has output, also when it skips the attempt |
| `ReaperCostsNoRetry` | `OnlyLastAttemptReaped`, if `LastAttemptTiming` | a run is never older than the budget its worker's attempts have used, attempt by attempt; the budget of all but the last is below the threshold |
| `QueueImplementsLedger` | `ImplementsLedger` | each step maps to a step of `RunLedger` or a stutter, with no assumption on time: what a flow has selected was "running" then, so it has been taken, and whoever writes its outcome holds or suspects it |
| `ActiveRunsAreBounded` | `ActiveRunsBounded` | what queuers have read as due or insert unread, and what is active, are counted by who did it: an insertion moves one from the plans to the active runs, and no other step makes a run active that was not |
| `OnlyCrashesLoseRuns` | `LostRunsBounded` | a run that has been taken and has not ended well is in a worker's hands, in a dead letter, or was old when a reaper took it; only a crash lets go of one, and each of one |
| `CtiEvalProofs!TypeCorrect` | `TypeOK` (of `CtiEval`; no run repeats it) | type invariant, with a run in every hand that needs one |
| `RunsAreExclusive` | `ExclusiveRun` | as above, for two kinds of actor |
| `ResultsAreNotDuplicated` | `NoDuplicateResults` | page and buffer of an attempt are disjoint, and neither has a committed result, because the actor is alone on its run |
| `NoGapIsLeft` | `NoGap` | what is committed, then the buffer, then the page are consecutive parts of the slice, oldest first |
| `AggregatesAreWhole` | `AggregateIsWhole` | between the aggregate and the status nobody else can add a result |
| `CallsAreBounded` | `CallsBounded` | `BudgetInv`: what a run has paid fits the attempts that are over, a page each, and what the present one has done of its page; a page is no longer than the cap, since the items before each of its members count them |
| `LostWorkIsBounded` | `LostWorkBounded` | the same invariant: of each attempt that is over, at most a batch was not committed, and the buffer of the present one is smaller than a batch |
| `FewRunsAreOrphaned` | `OrphansBounded` | a "running" run is in its actor's hands; an actor lets go of one only by writing an outcome, by a crash or by a fault, and each of these lets go of one |
| `EvalImplementsLedger` | `ImplementsLedger` | each step maps to a step of `RunLedger` or a stutter, with no assumption on time: nothing writes off a run that is in hands |
| `CtiItemsProofs!AnchorsCoverLabels` | `AnchorCoversLabel` | `RowInv`: a row has the dates of its record or of the catalogue; `SessionInv`: what is written and not committed fits the rows it will meet, because rows keep task, CVE and input and the feeds keep what they published |
| `LabelledHoldoutIsKept` | `LabelledHoldoutKept` | the same: a flag is cleared, in a session or a row, only for an input older than the window, and days only pass |
| `HistoryIsKept` | `HistoryKept` | what a session retires, flags or answers is of the task that it may change, whoever has committed since |
| `VersionStaysInForce` | `VersionInForce` | for any number of flow runs: a row that a session retires has a successor of another label in the same session, and a commit makes both visible at once, to whatever the others have committed |
| `PipelinesProofs!ActiveAreListed` | `ActiveIsListed` | `ProvidersInv`: a model's source, the lists fetched and those applied are of one catalogue, and catalogues are disjoint, so a list of one provider says nothing of the other's models |
| `OutagesArchiveNothing` | `OutageArchivesNothing` | only a sync archives, and only models of a provider whose list is not empty and is then the applied one |
| `CallsArePaced` | `PacedCalls` | `PaceInv`: the limiter's memory is never older than the time since the model was asked, so an interval since the one is an interval since the other; a new attempt starts after a delay that is no shorter |
| `SchemaIsComplete` | `SchemaComplete` | `SchemaInv`: what a process knows of the tables at each of its steps stays true whatever the others do, since no table is dropped and a complete one stays so |
| `VerdictsCountOnce` | `VerdictsOnce` | `GarakInv`: an attempt asks for probes without rows only, and the lines of its report, whole or cut, name each of them once per detector |
| `StoredIsDeduped` | `KeptIsDeduped` | induction over the advisories in the order of their sources' ranks: those kept so far are no copies of each other over sources, and what was dropped is a copy of one kept before it |
| `SynWithholds` | `ConclusionsWithheld` | masking leaves no technique and no name among the terms; the leak check covers the actor's name itself, and while that name stands for itself the terms are all of its aliases; an item is only ever replaced by one that was made so |
| `ViewsProofs!DashboardRows`, `DashboardViewer` | `RowsAndRunAgree`, `ViewerOfClickedRun` | `DashboardInv`: the run kept for a tab is that of its rows, or of the last answer under way that replaces them; an answer made for a lone click is of the clicked row |
| `CtiBoardsAgree` | `CtiViewsAgree` | `BenchInv`: runs end once, in the order of `finished`; the newest complete one of a model and task is the same by both queries, and both sort the same means |
| `PublishedIsWhole` | `PublishedWhole` | `HubInv`: every copy is behind what it was taken from, run by run; a run that is complete in one is the same run, with the same results, wherever it is complete; results are read after runs |
| `ReplicaIsWhole` | `ReplicaWhole` | the same, along hub, download and replica; merging only adds, and what an earlier import left is a part of it |
| `LeaderboardProofs!BoardsAgree` | `ViewsAgree` | `BoardInv`: no two runs are created in one moment, so a model has one latest run; a sum over the run's probes is the sum of its sums by category, in whatever order the rows come |
| `PagesShowAll` | `PagesCover` | the pages' joint positions increase and leave none out, so they are the table's positions; the number of pages is the least that has room for all |
| `ScoringProofs!ScoresAreRight` | `ScoresMatchReference` | `ScoringInv`: a result fits the label and the indices it was scored with, measure by measure, and those were made of a table in which a name has one row; a run's total is right when it is written and stays so until the next attempt |

Each invariant is built in layers: the layer for types, then who holds what,
then what that implies for data, so that a layer's proof may use the ones below
it and has one step per action that disturbs it; the others are covered by a
frame lemma. Properties that are true but not inductive are strengthened: for
example `NoGap` says nothing of uncommitted work, so `ChainInv` adds the buffer and
the page. TLC found the inductive invariants to hold on the runs' instances before they
were proved.

The prover has no induction rule that could be used with an operator for a parameter, so
`PicksProofs` states induction over numbers and over the parts of a finite set with a *set*
for the induction hypothesis, and proves it from the well-foundedness of inclusion. On it
rest the existence of recursive functions (`Place` of `Picks`, `Power` of `CtiScoring`), what
the flattening of a sequence of sequences has where (`Joins`), that a sum over a finite set
does not depend on the order and is the sum of the sums over its parts, and that pairs are
counted by their first members.

`ScoresAreRight` needs more of such facts than any other theorem. `Frac` gives the one
fraction in lowest terms of its value, so two results are equal when their cross products
are. `PlusAll` adds in an order that nobody knows; over a common denominator it is a sum of
numbers, of which the order does not matter. With that, the harmonic mean of precision and
recall is Dice's coefficient, and a mean of credits is full only if each of them is. For the
total, `Sorted` has one order to choose if the dates differ, in which the place of a result
is the number of those before it, so the weights are those of `Recency`; and the rank sum
counts, for each resolved item, the unresolved ones below it and the resolved ones, whose
pairs with each other come to n(n + 1) in all.

**Only model-checked:** the liveness properties (`RunsEnd` twice, `ForecastResolved`,
`ServicesStart`), since the prover does not handle fairness, and the violations that the
findings show. Every safety property that a passing run checks is stated by a theorem.

## 5. Findings

1. *A completed scan is overwritten with "failed"* (`scan_late_failure`). The
   handler in `process_pending_run` means to leave a run alone that the task has
   completed, but tests the cached copy.
2. *The reaper takes runs that are being scanned* (`scan_reaps_live`). The
   threshold allows four garak timeouts plus 600 s; the task allows four times
   the timeout plus 300 s each, 1200 s in all.
3. *A capped evaluation run is not resumed* (`cti_slice`). The runbook says it
   resumes until the slice is exhausted; it is "complete" after a page.
4. *An evaluation run whose worker dies is "running" for ever* (`cti_stuck`).
   The query for stale CTI runs has no caller.
5. *Items do not graduate from the holdout on their own* (`cti_graduates`). The
   flag is refreshed only when a record is ingested again, and that happens
   within three days of its last update, not after the fourteen of the window.
6. *A SYN item may show an alias of its actor* (`syn_masked`). The docstring of
   `_actor_terms` says that all aliases are masked; when the actor's name has become an
   alias of another row, that row's are.

Disagreements that the modelling met and no run is about, since the lines named show
them side by side:

- *A CVE may get two forecast items.* "Never duplicates", says `seed_forecast_items`
  (`forecast_service.py:53`); but a batch may hold a CVE as new and as updated
  (`connectors/cve.py:250`), and the session does not flush between the two. `FetchRecords`
  and `SeedItem` model it; the resolver then answers one of the items.
- *Forecast items are scored from their first day.* The page of the task says that items
  are withheld for 14 days and the newest slice is always held out
  (`cti_lite/app.py:165-166`); only labelled items are, and `LabelledHoldoutKept` says so.
- *The explainer of the TAA task gives other credits than the code.* It says 0.5 for an
  alias and 0 for a related group (`cti_lite/app.py:135-138`); `domain/cti/scoring.py:93`
  and `docs/cti-benchmark.md:155-157` say 1 and 0.5. `ScoresMatchReference` takes the side of
  the latter two.
- *A click on a greyed-out row opens no model.* "Click a row to drill into probe results",
  says the page; the row's model cell is HTML with a warning sign in it, the handler strips
  the tags, keeps the sign, and finds no model of that name, so the tab opens for all
  models (`frontend/gradio_app.py:669`).
- `export_to_hf.py` and `export_to_hf_public.py` end at the first model row, and
  `trigger_top_models.py` at the first model it would insert, because they name columns that
  `orm.py` no longer has.
- `glokta-lite/app.py:221` promises a detail that nothing opens.
- `docs/cti-benchmark.md:287` says that without a reachable judge a SYN item is scored
  without faithfulness, while the judge is always built (`eval_service.py:54`) and its
  failed call fails the attempt.

## 6. What is left

1. The slice that moves: evaluation runs over an item store that is written
   meanwhile (items superseded or withheld between two attempts of a run). A
   composition of `CtiEval` and `CtiItems`, or `Items` as a variable of `CtiEval`;
   `NoDuplicateResults` and `AggregateIsWhole` should survive, `NoGap` should not.
2. The two collectors with one store, over several days, when copies are posted on
   different days: what is deduplicated within a run is not deduplicated over runs.

## 7. What is not modelled

Operator scripts that download data or run a smoke test, and the generators of the
walkthrough notebooks, keep no state that another part reads. `run_cve_ingest` and
`run_syn_pilot` call the operations that are modelled, in the order of the flows. HTML and
text work (scraping, tokenising, prompts, rendering) is modelled by what it leaves for the
state: tokens, headings, key words. The REST endpoints that are plain selections, the tabs
for comparison and run status, and the SQLite fallback of the claim (for development) are
left out. The garak subprocess, the inference providers, the Hub and the publishers of
feeds are the world: any outcome the code can see of them is a choice in the models.
