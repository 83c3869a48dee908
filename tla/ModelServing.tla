---------------------------- MODULE ModelServing ----------------------------
(***************************************************************************)
(* The model artifact and everyone who reads it: the audit graph, the      *)
(* drift monitor and the runtime statistics, across retrainings, settings  *)
(* updates, crashes and restarts (services/ml_drift_monitor.py,            *)
(* services/runtime_stats.py, services/active_learning_service.py,         *)
(* agents/ml_classifier.py and api/app.py under src/src/sentinelfi).       *)
(*                                                                         *)
(* A model is its version; `joblib.dump` writes over the artifact in       *)
(* place, so between its first and its last byte the file is Torn, and     *)
(* stays so when the process dies there.  Only one retraining runs at a    *)
(* time (ActiveLearning has the queue); which audits come, when settings   *)
(* are updated and when the process dies is up to the environment.         *)
(***************************************************************************)
EXTENDS Integers, Sequences, FiniteSets

CONSTANTS
    Auditors,      \* audits the environment may run
    Synchronous,   \* those of them that come through POST /v1/audit/run
    Window,        \* ml_drift_window
    MaxRuns,       \* bound: retrainings
    MaxCrashes,    \* bound: deaths of the process
    Torn           \* an artifact that ends in the middle

ASSUME ServingAssumption ==
    /\ IsFiniteSet(Auditors) /\ Synchronous \subseteq Auditors
    /\ Window \in Nat \ {0} /\ MaxRuns \in Nat /\ MaxCrashes \in Nat
    /\ Torn \notin Nat

VARIABLES
    file,       \* the artifact on disk: a version, 0 when there is none, or Torn
    newest,     \* the last version a dump completed
    up,         \* the process serves requests
    served,     \* version the audit graph classifies with; 0: it has none
    baseline,   \* version whose drift profile the monitor holds; 0: none
    run,        \* status of the latest training run, in the database
    trainer,    \* where the training thread is
    succeeded,  \* versions whose run is recorded a success
    audit,      \* [Auditors -> [pc, model]]
    window,     \* the monitor's samples, as the versions that made them
    total,      \* total_audits of the runtime statistics
    finished,   \* audits recorded a success since the process started
    crashes

vars == << file, newest, up, served, baseline, run, trainer, succeeded, audit,
           window, total, finished, crashes >>

disk     == << file, newest >>
training == << run, trainer, succeeded >>
stats    == << window, total, finished >>

Idle == [pc |-> "idle", model |-> 0]

\* A deployment ships with a model, version 1, or with none.
Init ==
    /\ file      \in {0, 1}
    /\ newest    = file
    /\ up        = TRUE
    /\ served    = file
    /\ baseline  = file
    /\ run       = "none"
    /\ trainer   = "idle"
    /\ succeeded = {}
    /\ audit     = [a \in Auditors |-> Idle]
    /\ window    = << >>
    /\ total     = 0
    /\ finished  = 0
    /\ crashes   = 0

----------------------------------------------------------------------------
(* Retraining *)

Incomplete == {"queued", "running"}

\* A correction over the threshold or POST /v1/ml/retrain.
Retrain ==
    /\ up /\ run \notin Incomplete /\ trainer = "idle" /\ newest < MaxRuns
    /\ run' = "queued"
    /\ UNCHANGED << disk, up, served, baseline, trainer, succeeded, audit, stats, crashes >>

BeginTraining ==
    /\ up /\ run = "queued" /\ trainer = "idle"
    /\ run'     = "running"
    /\ trainer' = "fitting"
    /\ UNCHANGED << disk, up, served, baseline, succeeded, audit, stats, crashes >>

\* joblib.dump opens the artifact itself, not a copy beside it.
OpenArtifact ==
    /\ trainer  = "fitting"
    /\ file'    = Torn
    /\ trainer' = "dumping"
    /\ UNCHANGED << newest, up, served, baseline, run, succeeded, audit, stats, crashes >>

CloseArtifact ==
    /\ trainer  = "dumping"
    /\ newest'  = newest + 1
    /\ file'    = newest'
    /\ trainer' = "dumped"
    /\ UNCHANGED << up, served, baseline, run, succeeded, audit, stats, crashes >>

\* Any exception of the run: too few rows or a refused dataset before the dump, a
\* full disk in it, a metrics file that cannot be written after it, and at last the
\* callback itself, which takes back a success that was committed.
FailTraining ==
    /\ trainer # "idle"
    /\ run'       = "failed"
    /\ succeeded' = IF trainer = "committed" THEN succeeded \ {newest} ELSE succeeded
    /\ trainer'   = "idle"
    /\ UNCHANGED << disk, up, served, baseline, audit, stats, crashes >>

\* VARIANT: the run ends without telling the drift monitor.
CommitAndForget ==
    /\ trainer    = "dumped"
    /\ run'       = "success"
    /\ succeeded' = succeeded \cup {newest}
    /\ trainer'   = "idle"
    /\ UNCHANGED << disk, up, served, baseline, audit, stats, crashes >>

CommitRun ==
    /\ trainer    = "dumped"
    /\ run'       = "success"
    /\ succeeded' = succeeded \cup {newest}
    /\ trainer'   = "committed"
    /\ UNCHANGED << disk, up, served, baseline, audit, stats, crashes >>

\* on_retrain_success: refresh_baseline of the drift monitor, and nothing else.
Refresh_baseline ==
    /\ trainer   = "committed"
    /\ baseline' = file
    /\ trainer'  = "idle"
    /\ UNCHANGED << disk, up, served, run, succeeded, audit, stats, crashes >>

----------------------------------------------------------------------------
(* The process *)

\* VARIANT: an artifact that does not load is taken for the model all the same.
LoadsAnything == TRUE

\* joblib.load raises on a torn artifact, and none of its callers here catches it.
Loads == file # Torn

\* VARIANT: the exception is swallowed and the new graph has no model.
UpdateOrDrop ==
    /\ up
    /\ served' = IF Loads THEN file ELSE 0
    /\ UNCHANGED << disk, up, baseline, training, audit, stats, crashes >>

\* PUT /v1/admin/settings builds the audit graph anew, which reads the artifact;
\* when that raises, the old graph stays.
UpdateSettings ==
    /\ up
    /\ served' = IF Loads THEN file ELSE served
    /\ UNCHANGED << disk, up, baseline, training, audit, stats, crashes >>

\* The process dies; what it held in memory is gone.
Crash ==
    /\ up /\ crashes < MaxCrashes
    /\ up'       = FALSE
    /\ crashes'  = crashes + 1
    /\ served'   = 0
    /\ baseline' = 0
    /\ trainer'  = "idle"
    /\ audit'    = [a \in Auditors |-> Idle]
    /\ window'   = << >>
    /\ total'    = 0
    /\ finished' = 0
    /\ UNCHANGED << disk, run, succeeded >>

\* The import builds drift monitor and audit graph, both of which read the
\* artifact, before the startup re-queues what was interrupted.
Boot ==
    /\ ~up /\ Loads
    /\ up'       = TRUE
    /\ served'   = file
    /\ baseline' = file
    /\ run'      = IF run \in Incomplete THEN "queued" ELSE run
    /\ UNCHANGED << disk, trainer, succeeded, audit, stats, crashes >>

----------------------------------------------------------------------------
(* Audits *)

\* The audit runs with the graph the process has when it begins.
BeginAudit(a) ==
    /\ up /\ audit[a].pc = "idle"
    /\ audit' = [audit EXCEPT ![a] = [pc |-> "running", model |-> served]]
    /\ UNCHANGED << disk, up, served, baseline, training, stats, crashes >>

FailAudit(a) ==
    /\ audit[a].pc = "running"
    /\ audit' = [audit EXCEPT ![a] = Idle]
    /\ UNCHANGED << disk, up, served, baseline, training, stats, crashes >>

\* The job's row is a success; only the synchronous endpoint goes on to measure.
Mark_success(a) ==
    /\ audit[a].pc = "running"
    /\ finished' = finished + 1
    /\ audit' = [audit EXCEPT ![a] =
                   IF a \in Synchronous THEN [@ EXCEPT !.pc = "marked"]
                   ELSE [@ EXCEPT !.pc = "done"]]
    /\ UNCHANGED << disk, up, served, baseline, training, window, total, crashes >>

\* A sample per audit; a graph without a model leaves none.
Sampled(w, version) ==
    LET all == IF version = 0 THEN w ELSE Append(w, version)
    IN  IF Len(all) > Window THEN Tail(all) ELSE all

\* runtime_stats.record and drift_monitor.record
Record(a) ==
    /\ audit[a].pc = "marked"
    /\ total'  = total + 1
    /\ window' = Sampled(window, audit[a].model)
    /\ audit'  = [audit EXCEPT ![a].pc = "done"]
    /\ UNCHANGED << disk, up, served, baseline, training, finished, crashes >>

Trainer == BeginTraining \/ OpenArtifact \/ CloseArtifact \/ FailTraining \/ CommitRun
           \/ Refresh_baseline

Next ==
    \/ Retrain \/ Trainer \/ UpdateSettings \/ Crash \/ Boot
    \/ \E a \in Auditors : BeginAudit(a) \/ FailAudit(a) \/ Mark_success(a) \/ Record(a)

Spec == Init /\ [][Next]_vars

\* Threads go on and a process that can be started is started.
FairSpec ==
    /\ Spec
    /\ WF_vars(Trainer) /\ WF_vars(Boot)
    /\ \A a \in Auditors : WF_vars(Mark_success(a)) /\ WF_vars(Record(a))

----------------------------------------------------------------------------
(* Properties *)

\* Type invariant; it also says that nothing torn is ever served or compared with.
TypeOK ==
    /\ file \in 0..newest \cup {Torn}
    /\ served \in 0..newest /\ baseline \in 0..newest
    /\ run \in {"none", "queued", "running", "success", "failed"}
    /\ trainer \in {"idle", "fitting", "dumping", "dumped", "committed"}
    /\ \A a \in Auditors : audit[a].pc \in {"idle", "running", "marked", "done"}
    /\ Len(window) <= Window

\* A run that is recorded a success has given the monitor its model's baseline,
\* through crashes and restarts: while the process is up and nothing is being
\* trained, no older profile is in use.  After a callback that failed the older one
\* is, and the run is not recorded a success.
BaselineFollowsSuccess ==
    (up /\ trainer = "idle") => \A v \in succeeded : baseline >= v

\* The statistics count no audit that failed, whatever order audits finish in.
OnlySuccessIsMeasured ==
    total + Cardinality({ a \in Auditors : audit[a].pc = "marked" }) <= finished

\* A model never goes back: not by a settings update, not by a failed retraining,
\* not by a restart.  Only the crash itself leaves the process without one.
ServedNeverOlder == [][up' => served' >= served]_vars

\* The drift signals compare the answers of a model with the baseline of that model.
BaselineOfServedModel ==
    (up /\ trainer = "idle") =>
        \A i \in DOMAIN window : window[i] = baseline

\* Every audit that succeeded is in the runtime statistics once it has ended.
EveryAuditIsMeasured ==
    (\A a \in Auditors : audit[a].pc \in {"idle", "done"}) => total = finished

\* Continuous retraining: a model a successful run produced is served in time.
RetrainedIsServed ==
    \A v \in 1..MaxRuns : (v \in succeeded) ~> (served >= v)

\* A training run that a crash interrupted is taken up after the restart.
InterruptedRunIsRecovered == (~up /\ run \in Incomplete) ~> up

\* Monitor and statistics follow what succeeded: a training its baseline, an audit
\* its count.
MonitorFollowsSuccess == BaselineFollowsSuccess /\ OnlySuccessIsMeasured
=============================================================================
