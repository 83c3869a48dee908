# Sentinel-Fi: TLA+ models and proofs

Sentinel-Fi (`src/src/sentinelfi`) is a FastAPI service that audits bank
statements: it reads them from CSV or PDF, classifies transactions in a cascade of
classifiers, looks for leaks and missed tax credits, proposes cleanup tasks, executes
the approved ones, and retrains its classifier on corrections. One uvicorn process
serves requests in threads, runs audits in a thread pool, retrains in a second pool of
one thread, ticks schedules in a daemon thread, and keeps its state in a database, a
model file and an output directory. After a restart it recovers from the database.

This directory models that process in TLA+, checks small instances with TLC and
proves the most important invariants for all instances with TLAPS. File names
below are relative to `src/src/sentinelfi`.

## 1. Inventory

| Part | State | Operations | Works with | Modelled in |
|---|---|---|---|---|
| Audit job service (`services/audit_job_service.py`, `repositories/job_repository.py`) | `audit_jobs` table, executor queue | submit, `_run_job`, recover, shutdown | execution, notifier, scheduler | `AuditJobs`, which implements `JobLedger` |
| Synchronous endpoint (`api/app.py`, `run_audit_sync`) | the same rows | lookup, mark running, execute, mark success or failed | execution | `AuditJobs` |
| Execution and persistence (`services/audit_orchestrator.py`, `repositories/audit_repository.py`) | audits, their transactions | two commits per audit | graph | `AuditJobs` |
| Scheduler (`services/scheduled_audit_service.py`) | `scheduled_audits` table | create, pause, resume, tick | job service | `ScheduledAudits` |
| Cleanup (`graph/cleanup_graph.py`, `services/cleanup_execution_service.py`, `run_cleanup`) | task rows, artifacts, outside systems | gate, handlers, four commits | settings | `Cleanup` |
| Active learning (`services/active_learning_service.py`) | feedback, training runs, model file, in-progress flag | feedback, retrain, training job, recover, shutdown | training, drift monitor | `ActiveLearning` |
| Model training (`services/ml_training_service.py`) | the artifact it writes | sources, deduplication, labels, calibration, baseline | dataset manifest, classifier | `ModelTraining` |
| Dataset manifest (`services/dataset_manifest.py`) | cache file, temporary file | check, download, verify, replace | training | `DatasetCache` |
| Model in use: ML classifier, drift monitor, runtime statistics | model of the graph, baseline, window, counters | load, refresh, record | retraining, settings, audits | `ModelServing` |
| Audit graph (`graph/audit_graph.py`) | `AuditState` of one audit | ten nodes, two conditional edges | classifiers | `AuditGraph` up to `finalize_classification`, `LeakAudit` from there |
| Rules: MCC table, router, SLM, taxonomy (`agents/mcc_classifier.py`, `agents/slm_classifier.py`, `services/routing_service.py`, `services/taxonomy_service.py`) | - (pure) | a verdict on a row | graph | `RuleClassifiers` |
| LLM reasoner (`agents/llm_reasoner.py`) | batches under way | request, retry, fallback | graph | `LlmReasoner`, which implements `Labelling` |
| Leak detection, GST sentinel, cleanup planner, risk score | - (pure) | functions of the classified rows | graph | `LeakAudit` |
| Merchant resolver (`services/merchant_resolver.py`) | gazetteer | resolve | endpoint | `MerchantResolver` |
| CSV and PDF ingestion (`connectors/csv_connector.py`, `connectors/pdf_connector.py`, `services/ingestion_service.py`) | - (pure) | parse, deduplicate, normalise | audits | `CsvIngestion`, `PdfStatement` |
| Runtime settings (`api/app.py`) | settings object, `app_settings` table, what was built from it | update, reload | all services | `RuntimeSettings` |
| Notifications (`services/notification_service.py`) | - | webhook with retries | audits | `AlertWebhook`; that it returns or raises also in `AuditJobs` |
| Rate limiters (`services/api_security.py`) | deque or Redis set per client | allow | middleware | `RateLimiter` |
| Lifecycle (`lifespan` in `api/app.py`) | - | import, startup order, shutdown | all services | in each module |
| Payment connectors, API key middleware, uploads, text utilities, exports, reports, configuration, migrations, telemetry, web pages, scripts | - | - | - | not modelled, see section 6 |

What is hard, and what has to hold (each entry of `hazards` in `PROJECT.json`
gives the line and the property):

* **Jobs.** Lookups and the writes they decide are separate transactions;
  processes die between any two commits; recovery runs while the scheduler already
  submits. No open job may be left to nobody, every open job must end, a succeeded
  job must have a complete audit, one key must not be audited twice.
* **Schedules.** A tick works on rows it read before; pauses must hold, nothing
  may starve although a tick is limited to 25 rows.
* **Cleanup.** Effects only with approval, approval on record before the
  execution is, a record of an execution backed by an answer or a file, mails not
  repeated.
* **Models.** Feedback arrives while a training runs, runs are executed twice after
  a crash, the model file is overwritten in place and read by others at other times,
  the server's own import among them; a run fails after its success is committed; the
  same probability is computed by two pieces of code; a dataset is pinned at one moment
  and read at another.
* **Settings.** An update applies and stores key by key and may fail at each, and
  then rebuilds what was built from them; a restart must come to the same state.
* **Cascade.** Rows are found by an id that need not be unique, stages may be
  missing, a merge has to leave out what was escalated, and the LLM may leave rows
  out, repeat them or invent some.
* **Rules and findings.** Thresholds, weights and rounding meet; the order of rows,
  of categories or of a Python set must not matter.
* **Statements.** Cells that do not parse and become equal to empty ones, rows that
  repeat, and lines whose recogniser gives them in any order.
* **Network.** A webhook loses the request or the reply, and is repeated, or keeps its
  reply coming; the thread that sends is an audit's. The Redis limiter counts and adds in
  two pipelines.

## 2. Modules

`MC*` modules only give values for TLC; `*Proofs` hold theorems. Operators named
"Variant" in a comment are mutated forms of the definition after them, used by
the mutants of `PROJECT.json`, and are part of no specification. `Lists` says what the
elements of a list at given places are (`AtPlaces`), what passes a test (`Where`) and how
a stable sort arranges it (`SortedBy`), in a form that can be reasoned about: they stand
where a list is filtered, looked through or sorted.

Four modules put several components into one specification, with a run and a proof
module each:

| Module | Instances |
|---|---|
| `Services` | `RuntimeSettings` (extended), `AlertWebhook`, `ScheduledAudits` |
| `Statements` | `LeakAudit` (extended), `CsvIngestion`, `PdfStatement`, `RateLimiter` |
| `Classifiers` | `LlmReasoner` (extended), `AuditGraph`, `RuleClassifiers`, `MerchantResolver` |
| `Models` | `ModelServing` (extended), `ModelTraining`, `DatasetCache` |

Their parameters are CONSTANTS with the instances' assumptions; `MCServices`,
`MCStatements`, `MCClassifiers` and `MCModels` define values for them. The components
share a specification and not a state: each behaviour has work for one of them, named
by the variable `component`, and leaves the others where they start. They are sums, not
compositions. The composition of components that do share state is inside the modules:
requests, workers, scheduler and recovery on the job table in `AuditJobs`; requests,
training thread and recovery in `ActiveLearning`; training, drift monitor, graph, audits
and settings updates on the artifact in `ModelServing`; settings and cleanup in `Cleanup`.

**AuditJobs.** One action per transaction or hand-over between threads. `jobs` is
the table (status, error, result), indexed by idempotency key: the unique index
and rows that are never deleted make keys and job ids one-to-one. `audits` is
what `save_audit_output` (`SaveAudit`) and `save_classified_transactions`
(`SaveTransactions`) commit. `snap` is the row a session still holds:
`reset_for_retry` and `requeue_jobs` do not read it again and write only the
columns they changed (`Flush`). `mark_running`, `mark_success` and `mark_failed`
read by primary key and commit at once; they are one step. Calls are
`AsyncCalls` (`/v1/audit/submit`), `TickCalls` (submit from the scheduler thread,
possible before recovery and after shutdown) and `SyncCalls` (`/v1/audit/run`).
`FailingKeys` are the keys whose execution or notification may raise.

`JobLedger` is what callers of one key may count on, without calls, threads, queue and
process: the job is accepted once, its one audit is stored while it is open, and it
succeeds for good with that audit; a key that may fail may be tried again, and a key
that a restart requeues may be executed again. `AuditJobs` implements it: `job <-` what
callers see of the row (`Seen`: queued and running are one), `stored <-` the audits of
each key, `once <-` the keys that neither fail nor were requeued (`Undisturbed`). The
steps of lookups, hand-overs, threads and crashes are stutters of the ledger.

**ActiveLearning.** `submit_feedback` is one session with several reads and one
commit, so it takes a step for each read; `_run_training_job` likewise. The model
file is the set of rows that the run which wrote it was given; `torn` says that
`joblib.dump` has truncated it and not written it again. Which rows of a run the
classifier is fitted on is in `ModelTraining`. Training after the read, the dump and the
callback may raise (`MayFail`). `Boot` is the import, which loads the model file outside
any `try`: it is not enabled while the file is torn. The corrections of one call commit
together and are one row.

**ModelTraining.** One run of `train_ml_classifier`, step by step: the sources in
their order, each with its loader's way to a side, the deduplication, the label each
row is trained under, the side each label stands for, the split, the calibrator, the
drift baseline and the artifact. What scikit-learn does is external: the split puts any
rows into the parts to fit, calibrate and test with, none of them empty; the pipeline
gives any distribution over the labels of the rows it was fitted on, to a row of the
test; the calibration is any of three curves, one of them falling, when the rows to
calibrate with are of both sides. The classifier's reading of the artifact is beside it, because the
two compute one probability twice.

**ModelServing.** Who reads the artifact, and when. A model is its version. The
trainer's steps are the status of the run, the dump's beginning and end, the commit
and the callback; any may be the last, and after any the run may fail: also in the
callback, which turns the committed success into a failure. `Boot` is the import of
`app.py`, which builds drift monitor and graph. Audits take the graph's model when they
begin; only the synchronous ones are recorded at the end.

**DatasetCache.** Trainers share a directory: check of the manifest entry, digest of
a cached file, download to the temporary path, digest, replacement, read. A path names
a file and an open handle keeps its file, as on a POSIX file system, so files have
identities. A trainer may die anywhere, the download may fail or serve something else.

**RuntimeSettings.** `PUT /v1/admin/settings` assigns and commits one key at a
time, then refreshes keys and limiter, then the services; each step may fail. Keys are
told apart by who built something from them: `AuthKeys`, `LimiterKeys`, `ServiceKeys`,
`LiveKeys` (read at each use) and `ImportedKeys` (read once by the import). `Boot` is
the import, under any of the environments `Envs`; `Load_runtime_settings_overrides` is
the startup. A payload is a dict of up to `MaxPayload` keys in some order.

**AuditGraph.** The nodes are actions, `state` is `AuditState`. A row has a number,
a tx_id that may repeat, and whether its risk is high. A classifier's verdict on a
row is chosen among the outcomes the MC module lists, one in each band the
thresholds cut out. Settings are fixed within an audit. Only rows in
`ml_escalated` reach the SLM and the LLM, so the routes "slm" and "llm" do not occur:
a row that one of them judged alone, for want of a model, reports "mixed" as well.

**RuleClassifiers** says what the verdict of each deterministic classifier is,
for one row given by what they see of it: counts of words, tokens, matches, the MCC.
Scores are whole numbers in units in which the constants of the code are whole.

**LlmReasoner.** Batches, attempts and the answer's items, which name rows by tx_id.
`batches` is a history variable: which rows were concluded by which answer after how
many failures. `Labelling` is what the caller counts on: rows get one verdict each, in
order, none is taken back. `LabelsInOrder` is the abstract specification with
`labelled <- Labelled`, checked as a property and proved (`ImplementsLabelling`).

**LeakAudit.** The four nodes behind `finalize_classification`, with all six
detectors, as operators on the classified rows. Amounts are rupees, impacts
hundredths. `tokens` is the order in which this process iterates over a set of
strings, which differs from process to process.

**MerchantResolver.** Cleaning, exact, word and fuzzy stages, the ranking and the slice
by `top_k`, which may be negative; the two similarity measures give any score of a small
set. Cleaning takes "PAY" behind a mark from the beginning of longer words too (`PayRest`),
so that "*PAYMENT" leaves "MENT", joined to the word before it (`Glue`). The first alias
that is part of a word ends the search. The gazetteer of the repository gives
17 ids to more than one row. The last of these rows is the merchant, while the names of
all of them lead to the id (`NamesOf`, `TakenBy`). Of equal scores either may come first:
candidates are a set in the code.

**CsvIngestion, PdfStatement.** A statement goes from cells, tables or recognised
lines to transactions. An empty CSV cell is `Blank`, which turns into NaN or "nan" as
pandas and `str` have it; an amount that does not read is a NaN to the deduplication, and
one NaN equals another (`Coerced`). A PDF line is its words and where they stand on the
page. Date and amount are taken out of its text where they first occur, be it within
another word; which words hold which, and what is left of them, is data (`Rest`).

**AlertWebhook.** One alert. An attempt's request and reply are lost or not, the
answer is a success (any status below 400), retryable, or a refusal; the reply may keep
coming, since httpx applies its timeout to each phase and each read and not to the
attempt (`stalled`); and an exception that is not caught leaves the loop (`raised`). How
long an attempt takes is not bounded; pauses count in quarters of a second.

**ScheduledAudits.** `next_run_at` is kept as the time left; overdue schedules stand
in a sequence in the order in which they became due, so time is not bounded. A
tick lists, dispatches and writes back, with requests in between.

**RateLimiter.** Both limiters for one key, with the clock read (`Start`) apart
from the admission. `MaxDelay` bounds the time between the two. In the present
application `allow` runs on the event loop of one process, so the in-process
limiter sees no such delay (the property is then the plain one) and only the Redis
limiter, shared by processes, has the interleavings; the class is written for threads.

**Cleanup.** One audit's tasks. `ledger_reclass`, `invoice_fetch` and `gst_recon`
have one shape and are `Webhooks`; `email_draft` tasks are `Emails`. Opening and
closing a file are two steps, every webhook attempt is one. A webhook may have
taken a request that timed out, any answer below 400 is taken for a success, and a mail
may have gone out although sending raised. Settings change between any two steps, and
the reads of one task are steps of their own: the URL beside the file (`BeginWebhook`),
the URL to post to (`ReadUrl`), the host (`NoHost`), live mode (`NoConnector`).

Assumptions throughout: one server process, except for `DatasetCache` and the Redis
limiter; READ COMMITTED isolation; database calls do not fail, save for the unique
index; the database survives crashes.

## 3. Runs

| Run | Question | Bounds, and why they do |
|---|---|---|
| `audit_jobs_safe` | `NoOrphanJob`, `SucceededHasAudit`, `KeepsLedger` (the refinement of `JobLedger`) | 2 keys (one may fail), one call of each kind, 2 workers, 1 stop: each pair of entry points meets on one key, and meets recovery |
| `audit_jobs_live` | `OpenJobsEnd` | 1 key, one call of each kind, 1 worker, 2 stops: a crash during the recovery from a crash |
| `audit_jobs_final` | `SucceededIsFinal` is violated | 1 key, no stop |
| `audit_jobs_one_execution` | `OneExecutionPerKey` is violated | 3 synchronous calls on 1 key: one fails, two race |
| `active_learning` | `NoOrphanRun`, `AppliedIsInModel`, `AppliedOnce`, `RunsEnd` | 2 feedback calls and 1 manual retrain, 2 stops: every two triggers race, feedback arrives during a training, a recovered training crashes again |
| `active_learning_threshold` | `ThresholdRetrains` is violated | 2 feedback calls, no failure, no stop |
| `cleanup` | `EffectsApproved`, `ExecutedIsBacked`, `ApprovalOnRecord`, `OneMailPerRequest` | 2 requests with any approvals, a task of each kind, 1 change of settings, 1 crash or failed write |
| `cleanup_live_mode` | `LiveModeNeedsConnectors` is violated | 2 requests, no fault |
| `services` | settings: `SettingsAgree`, `ServerComesBack`; alerts: `AlertedOnce`; schedules: `PausesHold`, `DueGetsDispatched` | settings: a key of each kind but the imported one, good and bad values, 2 environments (backend "redis" and not), payloads of 1 or 2 keys, 2 updates, 1 stop, 1 outage of Redis: an update fails behind a key that it has stored, and another meets what it left, with a restart between or after. Alerts: attempts -1 to 4, waits 0, 1, 5: each cap of the back-off, and settings no attempt is made with. Schedules: 3 for 1 place in a tick (25 in the code), 1 stop, unbounded time |
| `statements` | limiters: `WindowsHold`; reading: `RowsAreRead`; findings: `FindingsAreStable`, `SumsGoTogether` | limiters: 3 threads, limit 2, window 3, delay 1, clock to 5. CSV: all files of up to two rows over five columns of two to five cells each, an empty and an unreadable amount among them, and three rows of one merchant. PDF: small tables, words that hold a date or an amount of the row, up to 3 lines on a page, 2 pages, the distance that joins two lines being 1. Findings: statements of up to 4 charges of 10 kinds, 1 merged row: 4 is where the median of a price hike and the mean of a group begin to move |
| `classifiers` | cascade: `VerdictsAreKept`, `ThresholdsHold`; LLM: `VerdictsAreEarned`, `LabelsInOrder`, `AllLabelled`; rules: `EvidenceDecides`; merchants: `ResolvedInOrder` | cascade: up to 2 rows over 2 ids, every combination of fast mode, LLM and model: rows only meet through a shared id. LLM: up to 3 rows with ids that may repeat, batches of 2, 3 attempts, answers of up to 2 items: a full batch, a rest, a stray and a repeated id. Rules: rows with each signal absent, weak, strong and opposed. Merchants: 9 texts, 4 rows after the real gazetteer, two of them with one id, `top_k` 2 and -1: texts that are a name, hold one in a word, hold two, or none |
| `models` | training: `CorrectionsReachTheRun`, `ServedAsTrained`; serving: `MonitorFollowsSuccess`, `ServedNeverOlder`; cache: `OnlyPinned` | training: up to 5 rows of 12 kinds, with any split of 3 or more (500 in the code) into three parts, probabilities in quarters: a correction in each part, calibration rows of one side and of both. Serving: 2 synchronous audits and 1 job, window 1, 3 retrainings, 2 crashes: a retraining fails, in the callback too, succeeds and fails again around a crash. Cache: 1 trainer, 5 runs, 3 deaths: a death in each place and the runs that meet its leftovers |

Each passing run also checks type invariants. Properties of several names are
conjunctions: `SettingsAgree` says that memory is what a restart would load and that
what was built follows, unless an update failed on its way; `FindingsAreStable` that equal
charges meet in one finding, the order of rows does not matter, and a price hike is a
rise; `SumsGoTogether` that the missed credit is that of the invoices the plan fetches,
findings get tasks, and a finding never lowers the risk score; `EvidenceDecides` that a
strong category decides, the sides are symmetric, more evidence never turns a
verdict, both paths without an LLM agree, and the order of the taxonomy does not matter;
`RowsAreRead` that deduplication takes only repetitions from a CSV, but for a row with an
unreadable amount that repeats one with an empty amount, and that the rows of a page are
the connected components of its lines, with ids of their own, read as in a table;
`AlertedOnce` that the receiver raises one alert, the pauses are bounded, nothing is sent
after an answer that settles the matter, and the call ends unless its receiver stalls;
`ResolvedInOrder` that a text in which a name stands is answered with a merchant it names,
that matches of any other are ranked and none is missing, and that a last "*PAY" changes
nothing; `MonitorFollowsSuccess` that no run stands as a success whose baseline has not
reached the monitor, and that statistics count no audit that failed;
`ServedAsTrained` that calibration is applied to what it was fitted on, and that the
baseline holds what the audit answers. The comment at each definition says it in full.

Deadlock is checked in `classifiers`, where `Terminated` steps stand for the end of the
cascade and of a classification, so that a node without a successor shows; elsewhere it is not,
because every call happens once and the instance comes to rest when all are answered.
Every property of a passing run has a mutant: the definition a plausible bug would
change, under which TLC finds the property violated.

What the violated properties show (`findings` has the quotations):

1. *Succeeded is not final.* `_run_job` notifies after it has committed
   `succeeded`, inside the same `try`; an exception there turns the row to `failed`.
2. *Two executions of one key.* The 409 guards the lookup only; two calls that
   both read a failed row both run it.
3. *The threshold is looked at only on arrival.* Feedback that comes in during a
   training stays pending until more arrives.
4. *Live mode reports a draft as executed* the second time, because the existing
   file is looked at before live mode is.

### Further properties that do not hold

These are defined in the modules, with the documentation or comment they come from,
and are in no run. TLC finds each violated when it is added to the run's cfg
(`Instance!Property` through a definition in the MC module), with the change in the
last column where one is needed. They bound what the properties above may claim.

| Property | Says | But the code | To see it |
|---|---|---|---|
| `UpdateTakesEffect` (`RuntimeSettings`) | an update that was accepted is in effect (README.md:259) | reads CORS and telemetry settings at import only, `api/app.py:289` | `services`, with `ImportedKeys = {"cors_allow_origins_csv"}` |
| `AliasInTextMatches` (`MerchantResolver`) | an alias in the text matches (merchant_resolver.py:5-6) | compares aliases with single words, `services/merchant_resolver.py:147`: "ICICI DIRECT" in a longer text is missed | `classifiers` |
| `ExactIsItsOwn` (`MerchantResolver`) | what matches exactly is a name of the merchant in the answer (tests/test_merchant_resolver.py:57) | lets the last row of an id stand, `services/merchant_resolver.py:80`: "ICICI DIRECT" is answered with GOOGLE and a score of 1.0, since both rows have the id 350 | `classifiers` |
| `CodeIsCarried` (`RuleClassifiers`) | only rows that carry an MCC are judged by it (mcc_classifier.py:38) | takes any word of four digits, `agents/mcc_classifier.py:120` | `classifiers` |
| `DriftComparesLikeWithLike` (`ModelTraining`) | the baseline holds what audits report (docs/ARCHITECTURE.md:79) | for labels of neither side it holds another quantity, `services/ml_training_service.py:809` | `models` |
| `CorrectionTeachesItsLabel` (`ModelTraining`) | a correction teaches its side (docs/REFERENCE_INTEGRATION.md:82) | trains it under the category of its text, which may stand for the other side, `services/ml_training_service.py:425` | `models` |
| `RetrainedIsServed` (`ModelServing`) | retraining is continuous (README.md:61) | refreshes the drift monitor only, `api/app.py:103`; the graph keeps its model | `ModelServing` with `FairSpec` |
| `BaselineOfServedModel` (`ModelServing`) | drift is measured against the model's own baseline (docs/ARCHITECTURE.md:79) | for the same reason compares one model's answers with another's baseline | `models` |
| `EveryAuditIsMeasured` (`ModelServing`) | runtime statistics count audits (README.md:64) | records synchronous audits only, `services/audit_job_service.py:163` | `models` |
| `InterruptedRunIsRecovered` (`ModelServing`) | interrupted trainings are recovered (README.md:70) | loads a torn artifact at import, outside any `try`, `services/ml_training_service.py:858`: the server does not start | `ModelServing` with `FairSpec` |
| `ReadIsPinned` (`DatasetCache`) | only pinned data is read (README.md:236) | has one temporary name for all processes, `services/dataset_manifest.py:87` | `models`, with two trainers |
| `TrainedOnPinnedData` (`DatasetCache`) | training is reproducible (docs/ARCHITECTURE.md:77) | goes on without a dataset whose download fails, `services/ml_training_service.py:287` | `models` |
| `CorrectionsAreFitted` (`ModelTraining`) | the classifier is fitted on the corrections (README.md:61) | splits all rows at random: a correction may be one to calibrate with or to test on, `services/ml_training_service.py:737` | `models` |
| `BestIsAnswered` (`MerchantResolver`) | the answer is the most similar merchant | ends at the first alias within a word, `services/merchant_resolver.py:147`: "UBER EATSS" is answered with UBER, 0.85, however similar UBER EATS is | `classifiers` |
| `EveryChargeIsThere` (`CsvIngestion`) | every charge of a file that loads is there with its amount | makes NaN of an empty and of an unreadable amount, `connectors/csv_connector.py:38`, and takes them for equal: the second goes unseen, although alone it refuses the file | `statements` |
| `InvalidRowsAreDropped` (`CsvIngestion`) | rows without description or amount are dropped (tests/test_ingestion_service.py:49) | meets NaN, which is not `<= 0`, `services/ingestion_service.py:141` | `statements` |
| `UnnamedStayApart` (`CsvIngestion`) | charges without a merchant are not one merchant's | makes the text "nan" of an empty merchant cell, `connectors/csv_connector.py:60` | `statements` |

Some of them explain a weaker form that is checked. `OnlyPinned` is about a single
trainer. `AppliedIsInModel` and `RunsEnd` make an exception for a model file that is cut
short: the first for as long as it is and for a run that ended there, the second for a
server that went down with one, which does not come up again before the file is replaced
by hand and leaves its runs queued or running (`InterruptedRunIsRecovered` is the claim
without the exception). `CorrectionsReachTheRun` stops at the rows that are split,
`RowsAreRead` leaves out the row that `EveryChargeIsThere` is violated by, and
`ResolvedInOrder` claims the best match only for texts that name nobody.
`MonitorFollowsSuccess` speaks of the runs that are recorded a success: when the callback
fails after the commit, the monitor keeps an older baseline and the run says failed.

### Fairness

`AuditJobs`: weak fairness for each call that has begun (requests are served,
nothing makes a client call), each worker, the recovery, the exit after
shutdown, and the restart. The code justifies the workers by its bounded retries
and timeouts (webhooks, LLM calls); the restart is the deployment's (a container
with a restart policy), without which no recovery is possible. Crashes and
shutdowns are not fair and are bounded by `MaxStops`: a server that crashes for
ever ends nothing. `ActiveLearning`: the same, but the restart does not get beyond the
import while the model file is cut short (`Boot` is not enabled). `ScheduledAudits`: the tick, whose
exceptions `_run_loop` catches, and time. `LlmReasoner`: its next step, since the
client's timeout ends every request. `AlertWebhook`: an attempt ends or stalls, because
the timeout bounds the connection, each write and each read, and only a reply that keeps
coming in pieces escapes it: there `NotifyEnds` has its exception; the sleep ends a pause.
`RuntimeSettings`: a request that has begun is served, and a server that is down is
started again; no outage of Redis has to end, which is why `ServerComesBack` makes an
exception of the backend "redis", stored or of the environment. `ModelServing` states fairness
only for the violated properties above. The safety runs assume no fairness, except
where they share a run with a liveness property.

## 4. Proofs

Each `*Proofs` module goes the same way: an inductive invariant, a lemma for
each action or group of actions, and their composition. The assumptions are those
of the modules' named `ASSUME`s and nothing else, save for `OneTrainerIsPinned`, which
assumes a single trainer and says so: no bound is small. A theorem about a component
is about the component's own specification, as the composing module instantiates it;
`ServicesTypeCorrect`, `ModelsTypeCorrect`, `ClassifiersTypeCorrect` and all theorems of
`StatementsProofs` but `LimiterTypeCorrect` are about the whole sums.

| Module | Theorems | The inductive invariant and why it is needed |
|---|---|---|
| `AuditJobsProofs` | `TypeCorrect`, `NoJobIsOrphaned`, `SucceededJobsHaveAudits`, `OneAuditPerKey`, `ImplementsLedger` | see below |
| `CleanupProofs` | `CleanupTypeCorrect`, `NothingWithoutApproval`, `ApprovalIsRecorded`, `GateInvariant`, `ExecutedHasBacking`, `NoMailTwice` | see below |
| `ActiveLearningProofs` | `TypeCorrect`, `NoOrphans`, `AppliedIsTrainedOn`, `AppliedByFirst` | `NoOrphan` has to hold from the recovery's commit on, not only when the server is up; `ReadInv` says that the training thread has read everything applied, so its dump cannot lose it; `ModelInv` follows the file, and that it is torn, through the dump |
| `ClassifiersProofs` | LLM: `TypeCorrect`, `VerdictsEarned`, `ImplementsLabelling` | `IInv`: verdicts stand in the order of the rows, batches cover rows that have one, and each batch has been heard or was tried to the last attempt |
| | cascade: `CascadeTypeCorrect`, `CascadeKeepsVerdicts`, `CascadeHoldsThresholds` | `CascadeInv`, see below |
| | rules: `RulesTypeCorrect`, `EvidenceDecidesAlways` | `RulesInv`: a verdict is the one the row has by the propensities of now; the rest is arithmetic, see below |
| | merchants: `MerchantsTypeCorrect`, `ResolvesInOrder` | `MerchantsInv`: the answer is the one the query has. Names are places of the gazetteer, so there is a first of those found (`FirstExists`). A best match exists for each merchant close enough (`BestMatchExists`), and two of one merchant are the same (`OneMatchEach`); what cleaning computes is followed part by part (`CleanIs`, `PayAddsNothing`) |
| | `ClassifiersTypeCorrect` | the four together |
| `ServicesProofs` | `SettingsTypeCorrect`, `SettingsAgreement` | `SettingsInv`: in the middle of an update memory differs from table and environment in at most the key about to be stored, and what was rebuilt so far follows memory |
| | `AlertsTypeCorrect`, `AlertsOnce` | `AlertInv` bounds the pauses by the attempts made, a pause fewer than attempts; an answer that settles the matter ends the call |
| | `SchedulesTypeCorrect`, `SchedulePauses` | `ScheduleInv`: an overdue schedule stands in the queue once (`OverdueOnce`), and one that is paused while the tick has still to submit it has not been dispatched since (`PausedNotYet`) |
| | `ServicesTypeCorrect` | the three together |
| `ModelsProofs` | `ServingTypeCorrect`, `MonitorFollows`, `NeverOlder` | `ServingInv`: the file is whole from the end of a dump to the end of the run, only the run whose callback is still to return, the newest, is a success ahead of the baseline, and audits yet to be recorded have been finished |
| | `TrainingTypeCorrect`, `CorrectionsReachTraining`, `ServedLikeTrained` | `TrainingInv`: sides, split, calibrator and artifact are what the steps before them computed from the rows (`LabelsFollow`, `CalibratorFollows`, `ArtifactFollows`); feedback is the last source and deduplication keeps the last of equals |
| | `CacheTypeCorrect`, `OneTrainerIsPinned` | from opening the temporary file to renaming it, the path and the handle name one file, and there is no cache; this is where one trainer (`OneTrainer`) is needed |
| | `ModelsTypeCorrect` | the three together |
| `StatementsProofs` | `LimiterTypeCorrect`, `WindowsAlwaysHold` | `LimiterInv`, see below |
| | `RowsAreAlwaysRead` | `CsvInv` and `PdfInv`: what is loaded is what the loader computes from the file; what that is, is followed row by row and line by line, see below |
| | `SumsAlwaysGoTogether`, `FindingsAlwaysStable` | `LeakInv`: what each node that has run has left is what it computes from the rows and what came before it, and nothing yet of the others; findings are finitely many, each with rows of the statement and an impact, and because the tokens keep their order they stay what the detectors would find again (`LeaksStay`). See below |
| | `StatementsTypeCorrect` | the four together |
| `ListsProofs` | lemmas only | a set of places of a list has a last and a first one, the places are ranked without a gap (`RankIsBijective`), so `AtPlaces` has the length, the elements and the order one expects (`AtPlacesProperties`), and a stable sort is a permutation in order (`SortedByProperties`). Sums over finite sets do not depend on the order they are taken in: they fall by an element that is taken out (`SumTakesOut`) and stay when elements are renamed (`SumIsRenamed`). `RecursionExists` defines a function step by step along the places of a list, and the existence of a least counterexample (`LeastOf`) gives the inductions |

`NoOrphanJob` is not inductive: it speaks of the time when the server is up, and
has to be carried through the recovery. `IInv` (at the end of `AuditJobs`) adds:

* `KeyInv`: whoever works, works on a key;
* `PhaseInv`: recovery is under way exactly while the server starts, and has
  nothing to do before it has read the table;
* `OwnedInv`: open rows have an owner from the moment recovery has read the
  table: rows that are opened later bring their own owner, and those opened
  earlier are in `rec.todo`;
* `AuditInv`: every reference to an audit, in a row, in a session's snapshot or in
  an actor's hands, is to an audit of the right key, complete once it is in a row.
  Audits only grow, so references stay good through crashes and through the late
  writes of other threads; snapshots matter because `Flush` can put an old
  result back.

`OneAuditPerKey` counts. For a key whose execution does not fail and that no
recovery has touched, the places in the queue, the actors about to execute or
executing, and the audits stored are together at most one (`ChanceInv`), and none
while there is no row; `Steady` says that such a key never has a failed row, nor does
anyone hold a snapshot of one, so that nothing resets it. The counting uses the
cardinalities of finite sets and the unique index. `DeduplicatedUnlessRetried`, which it
states, is a part of `KeepsLedger` and has no run of its own.

`ImplementsLedger` needs two more invariants beside these. `ThereInv`: whoever works on a
key, the queue and the recovery have it from a row, and no row goes away, so each write
of a row is of a key that was accepted. `FlightInv`: of a key that neither fails nor was
requeued, one actor or one place in the queue is all there is from the enqueueing to
the row's end (`Doers`), and as long as it is there the row is open; so the audit is
stored, and the job succeeds, while it is open, and the start of its execution changes
nothing that callers see. Then each action is a step of the ledger or a stutter: the
steps that write one row by one lemma (`RowStep`), the commit of an audit by another
(`StoreStep`), and `RecoverWrite` is `Requeue` of all keys it read, of which those
that it read as running are the ones that are open from then on.

In `Cleanup`, the invariant of the gate says that what a request has to do or is
doing is permitted by the approvals it came with (`OnlyPermitted`), and that
approvals do not change while a request is under way (`ApprovalsFixed`).
`ApprovalIsRecorded` then rests on the order of the commits: the approved ids are
written first. `ExecutedHasBacking` adds that a truncated file has a request that writes it,
unless there was a fault, and that results and rows said to be executed have
what they speak of. `NoMailTwice` counts again: the mails out plus the requests that
may still send are at most the requests that were permitted to.

`CascadeInv` follows the ids of the statement through the nodes: each is among the
verdicts or on its way to one (`IdsGoOn`), although ids repeat and look-ups find the
last row of an id, and stages that are still to come have left nothing (`StillToCome`).
Each stage signs its verdicts and flags those below the row's threshold (`StagesJudge`),
and what it is unsure of it has handed on or flagged (`UnsureIsHandedOn`). The last node
decides by all of these at once (`Decided`): a verdict that stands alone was escalated by
nobody, and an id on which two stages have a verdict has the route "mixed".

`EvidenceDecidesAlways` is a statement about constants of the code, for every taxonomy
file, override file and row. `VerdictIsMonotone` and `VerdictIsSymmetric` say how a
verdict moves when a match is added and when the sides are exchanged;
`StrongMatchDecides` and `FallbackAgrees` compare the two paths; `TurnedOrder` says
that a maximum over a set does not depend on the order of the taxonomy, as long as
there are no two best categories.

The limiters count what is in a window. Stamps are taken before the lock, so the bucket
need not be sorted. `BucketIsRecent` says that it holds the stamps of the last admissions
and that those before them are `Window - MaxDelay` or more ago; `SetIsRecent` that
members of the Redis set plus the threads that have counted and not yet added are at most
`Limit + Cardinality(Threads) - 1`. Hence admissions that are as many places apart as the
bound are that long apart in time (`Apart`), and `ApartIsFew` turns this into the bound on
every window.

`RowsAreAlwaysRead` is about what loops over a file compute. The rows kept of a CSV file
are those at the places of first repeats, in order (`RowsAreKept`). For a page,
`GroupedRowsIs` gives each line, in the order of heights, the number of its row, which
goes up where the distance to the line before exceeds the threshold. `RowsAreGroups` says
that the lines of one number are a row; `LinkedIs` turns the chains of the reference
definition into a closed set, and `LinkedIsSameGroup` shows by induction along heights
that a chain never leaves a number and reaches all of it. Ids are unique because the marks
for the side have no digits, so that taking out date and amount leaves them in the
description, and adds none unless it cuts one out of a longer word, which the property
excepts (`MarksAreDescribed`); so equal ids have equal sides (`IdTellsSide`) and would
have been taken for repetitions.

`SumsAlwaysGoTogether` rests on what sums of a set have in common with those of its parts.
A finding less lowers the severities, the count and the impacts of the rest
(`FindingsSumLess`), and an invoice less the missed credit (`MissedIs`); each part of the
score is a ratio that is capped at one and grows with its part (`RatioIs`), and the
weighted score, rounded, grows with each of them (`RiskIs`). Confidences of n rows are at
most n together, so the score is at most 100. The credit is the same over findings and over the rows
they name because the rows are numbered (`MissedIsOfRows`).

`FindingsAlwaysStable` is about what the detectors compute from lists of any length, in
three parts.

* *Equal charges meet* (`EqualsMeet`). The groups of a merchant's charges are built in the
  order of amounts, so equal charges come one after the other. The invariant of that loop
  (`Clustered`) is that each charge so far is in just one group, equal ones in the same, and
  that the latest is in the first group that it fits. When an equal one comes next, no
  group before that has changed, and the mean of that group has moved towards it
  (`FitsAfter`): first fit takes it to the same place. That the impact is
  rounded plays no part; that two findings with the same rows are one does.
* *Order does not matter* (`LeaksReversed`). Reversing the rows permutes what each
  detector is handed. In the order of amounts the two lists agree in their amounts, place
  by place, although equal charges may have changed places; so the loops make groups
  of the same shape side by side (`Alike`), and as equal charges share a group, the same
  rows are in groups of the same number (`GroupsAlike`). In the order of days two charges of
  one merchant never tie, and then there is one such order only (`OrderIsOne`), so trials
  and hikes are the same as well; the other detectors take sums over sets of rows.
* *A hike is a rise* (`HikesRise`). The rows a finding names, sorted by day, are the list
  the detector had (`NamedByDay`). With three charges the base is the least of them.
  With more it is the median of the earlier ones, which at least half of them do not
  exceed (`RisesAboveHalf`); a charge that is a quarter above the base is a quarter above each
  of those.

Only model-checked:

* liveness (`OpenJobsEnd`, `RunsEnd`, `DueGetsDispatched`, `ServerComesBack`,
  `AllLabelled`, and `NotifyEnds`, the liveness part of `AlertedOnce`, whose
  safety parts are `AlertsOnce`), which the prover does not do under fairness.

## 5. How far the bounds reach

Where a property holds by a count, the bound is the smallest in which the
count can go wrong, and the mutant shows that it does there. Where the property is
proved too, the instance only guards the statement: that is every safety property of
the runs. Liveness stands on its instance: more calls or stops than its bounds are not
covered.

## 6. Not modelled

* **Payment connectors** (`connectors/stripe_connector.py`,
  `connectors/razorpay_connector.py`): paging through remote APIs and renaming fields.
* **API key middleware and uploads**: a sequence of checks on one request, without
  state; the limiter behind it is `RateLimiter`.
* **Text utilities**: regular expressions; what they find is data of the models.
* **Exports, reports, web pages, scripts**: rendering of what is stored, and command lines
  around the services.
* **Configuration, migrations, telemetry**; the database's isolation and the
  session's semantics are assumptions.
* **Numerics**: fitting and cross validation, PSI and z scores of the drift monitor,
  rounding of floats at exact halves (kept out of the model values).
* In modelled parts: contents of reports, the JSONL copy of feedback (a failure
  between it and the commit leaves a copy of feedback that is not in the table; only
  `scripts/train_ml_classifier.py` reads it), retry pauses of cleanup, signatures, encodings, job ids apart from keys,
  `run_inline`, database failures. In `AuditJobs` the synchronous 200 stands for the
  moment the row is written; the alert after it cannot change the row. Two cleanup
  requests that write the status of one task are in `Cleanup`, but which of their
  statuses should win is nowhere said and no property is about it.

## 7. What could come next

1. The composition of the scheduler with the job table, for schedules whose key has
   succeeded.
2. A second server process: the database is shared, and the recovery of one would
   requeue the open jobs of the other.
