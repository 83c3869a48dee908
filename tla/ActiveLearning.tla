--------------------------- MODULE ActiveLearning ---------------------------
(***************************************************************************)
(* Feedback and retraining in Sentinel-Fi (ActiveLearningService).         *)
(*                                                                         *)
(* POST /v1/ml/feedback stores corrections and, past a threshold, creates  *)
(* a training run; POST /v1/ml/retrain creates one on demand.  A run is a  *)
(* row of the table and a job for an executor with one thread, which reads *)
(* all the feedback there is, trains a model, replaces the model file and  *)
(* marks the feedback it read as applied.                                  *)
(*                                                                         *)
(* The corrections of one call share its transaction and its fate: one     *)
(* row, named after the call, stands for them.  A run is named after the   *)
(* call that creates it.                                                   *)
(***************************************************************************)
EXTENDS Naturals, Sequences, FiniteSets

CONSTANTS Submits,      \* single calls of submit_feedback
          Retrains,     \* single calls of trigger_retrain
          Threshold,    \* ml_feedback_retrain_threshold
          MinRows,      \* ml_feedback_min_rows
          AutoRetrain,  \* the values of auto_retrain that calls pass
          Cooldown,     \* whether ml_retrain_cooldown_minutes is not zero
          MayFail,      \* whether training, and the callback after it, may raise
          NoRun,        \* "no run"
          MaxStops      \* bound on the crashes and shutdowns of the process

Calls == Submits \cup Retrains

ASSUME ConstantsAssumption ==
  /\ IsFiniteSet(Submits)
  /\ Submits \cap Retrains = {}
  /\ NoRun \notin Calls
  /\ Threshold \in Nat
  /\ MinRows \in Nat
  /\ AutoRetrain \subseteq BOOLEAN
  /\ Cooldown \in BOOLEAN
  /\ MayFail \in BOOLEAN
  /\ MaxStops \in Nat

VARIABLES
  phase,      \* of the server process
  stops,      \* how often it has stopped
  table,      \* the feedback rows committed
  applied,    \* the run that applied each of them, or NoRun: it is pending
  accepted,   \* the calls whose corrections were accepted
  model,      \* the rows the run that wrote the model file was given
  torn,       \* whether that file is cut short and cannot be loaded
  runs,       \* the status of each run
  queue,      \* the executor's work queue
  pc,         \* where each call stands
  wants,      \* whether the call still means to retrain
  todo,       \* the runs the startup recovery has yet to enqueue
  job         \* the executor's thread

calls  == <<pc, wants>>
data   == <<table, applied, accepted>>
server == <<phase, stops, todo>>
vars   == <<server, data, model, torn, runs, queue, calls, job>>
-----------------------------------------------------------------------------
\* The filter of list_incomplete_training_runs.
QueuedOnly == {r \in Calls : runs[r] = "queued"}                    \* variant
Incomplete == {r \in Calls : runs[r] \in {"queued", "running"}}

\* count_feedback(statuses=["pending"])
Pending == {f \in table : applied[f] = NoRun}

\* The executor's thread: its run, the rows it read, those pending then.
Resting == [at |-> "idle", run |-> NoRun, read |-> {}, fresh |-> {}]

\* _training_in_progress
InProgress == job.at # "idle"

\* _cooldown_elapsed: the clock is not modelled, it may say either.
Elapsed == IF Cooldown /\ \E r \in Calls : runs[r] # "absent" THEN BOOLEAN ELSE {TRUE}

Init ==
  /\ phase = "up"
  /\ stops = 0
  /\ table = {}
  /\ applied = [f \in Submits |-> NoRun]
  /\ accepted = {}
  /\ model = {}
  /\ torn = FALSE
  /\ runs = [r \in Calls |-> "absent"]
  /\ queue = << >>
  /\ pc = [c \in Calls |-> "idle"]
  /\ wants = [c \in Calls |-> FALSE]
  /\ todo = {}
  /\ job = Resting

Goto(c, from, to) == pc[c] = from /\ pc' = [pc EXCEPT ![c] = to]
-----------------------------------------------------------------------------
(* submit_feedback: one session, one commit at its end.                    *)

\* The corrections are checked; the accepted ones join the session.
AddFeedback(c) ==
  /\ phase = "up"
  /\ Goto(c, "idle", "count")
  /\ \/ accepted' = accepted \cup {c}
     \/ UNCHANGED accepted             \* all rejected
  /\ UNCHANGED <<server, table, applied, model, torn, runs, queue, wants, job>>

\* count_feedback sees the session's own rows too.
CountPending(c) ==
  /\ Goto(c, "count", "check")
  /\ \E auto \in AutoRetrain :
       wants' = [wants EXCEPT ![c] =
         auto /\ Cardinality(Pending \cup (accepted \cap {c})) >= Threshold]
  /\ UNCHANGED <<server, data, model, torn, runs, queue, job>>

\* latest_training_run and list_incomplete_training_runs.
CheckRuns(c) ==
  /\ Goto(c, "check", "flag")
  /\ \E elapsed \in Elapsed :
       wants' = [wants EXCEPT ![c] = @ /\ elapsed /\ Incomplete = {}]
  /\ UNCHANGED <<server, data, model, torn, runs, queue, job>>

CheckFlag(c) ==
  /\ Goto(c, "flag", "commit")
  /\ wants' = [wants EXCEPT ![c] = @ /\ ~InProgress]
  /\ UNCHANGED <<server, data, model, torn, runs, queue, job>>

\* The rows and the run become visible together.
CommitFeedback(c) ==
  /\ Goto(c, "commit", IF wants[c] THEN "enqueue" ELSE "done")
  /\ table' = table \cup (accepted \cap {c})
  /\ runs' = IF wants[c] THEN [runs EXCEPT ![c] = "queued"] ELSE runs
  /\ UNCHANGED <<server, applied, accepted, model, torn, queue, wants, job>>

\* _enqueue_training_job, after the session is closed.
Enqueue(c) ==
  /\ Goto(c, "enqueue", "done")
  /\ queue' = Append(queue, c)
  /\ UNCHANGED <<server, data, model, torn, runs, wants, job>>

Submit_feedback(c) ==
  \/ AddFeedback(c) \/ CountPending(c) \/ CheckRuns(c) \/ CheckFlag(c)
  \/ CommitFeedback(c) \/ Enqueue(c)

(* trigger_retrain: asks for incomplete runs only.                         *)

Retrain(c) ==
  /\ phase = "up"
  /\ Goto(c, "idle", IF Incomplete = {} THEN "commit" ELSE "done")
  /\ wants' = [wants EXCEPT ![c] = Incomplete = {}]
  /\ UNCHANGED <<server, data, model, torn, runs, queue, job>>

CommitRun(c) ==
  /\ Goto(c, "commit", "enqueue")
  /\ runs' = [runs EXCEPT ![c] = "queued"]
  /\ UNCHANGED <<server, data, model, torn, queue, wants, job>>

Trigger_retrain(c) == Retrain(c) \/ CommitRun(c) \/ Enqueue(c)
-----------------------------------------------------------------------------
(* _run_training_job in the executor's thread.                             *)

\* The flag goes up, and the run's row says running.
StartTraining ==
  /\ job.at = "idle"
  /\ queue # << >>
  /\ job' = [Resting EXCEPT !.at = "started", !.run = Head(queue)]
  /\ queue' = Tail(queue)
  /\ runs' = [runs EXCEPT ![Head(queue)] = "running"]
  /\ UNCHANGED <<server, data, model, torn, calls>>

\* Variant: only the pending rows are trained on.
ReadPending ==
  /\ job.at = "started"
  /\ job' = [job EXCEPT !.at = "read", !.read = Pending, !.fresh = Pending]
  /\ UNCHANGED <<server, data, model, torn, runs, queue, calls>>

\* Variant: what was applied before is applied again.
ReadAllFresh ==
  /\ job.at = "started"
  /\ job' = [job EXCEPT !.at = "read", !.read = table, !.fresh = table]
  /\ UNCHANGED <<server, data, model, torn, runs, queue, calls>>

\* list_feedback: every row; which of them are pending is decided on what
\* was read here.
ReadFeedback ==
  /\ job.at = "started"
  /\ job' = [job EXCEPT !.at = "read", !.read = table, !.fresh = Pending]
  /\ UNCHANGED <<server, data, model, torn, runs, queue, calls>>

\* The run's last commit, and the end of the job.
Finish(status) ==
  /\ runs' = [runs EXCEPT ![job.run] = status]
  /\ job' = Resting
  /\ UNCHANGED <<server, data, model, torn, queue, calls>>

SkipTraining == job.at = "read" /\ Cardinality(job.read) < MinRows /\ Finish("skipped")

\* joblib.dump opens the file that is being served and truncates it ...
OpenModel ==
  /\ job.at = "read"
  /\ Cardinality(job.read) >= MinRows
  /\ model' = {}
  /\ torn' = TRUE
  /\ job' = [job EXCEPT !.at = "dumping"]
  /\ UNCHANGED <<server, data, runs, queue, calls>>

\* ... and has written it.
DumpModel ==
  /\ job.at = "dumping"
  /\ model' = job.read
  /\ torn' = FALSE
  /\ job' = [job EXCEPT !.at = "dumped"]
  /\ UNCHANGED <<server, data, runs, queue, calls>>

\* mark_feedback_applied and the run's success, in one commit.
ApplyFeedback ==
  /\ job.at = "dumped"
  /\ applied' = [f \in Submits |-> IF f \in job.fresh THEN job.run ELSE applied[f]]
  /\ runs' = [runs EXCEPT ![job.run] = "success"]
  /\ job' = [job EXCEPT !.at = "callback"]
  /\ UNCHANGED <<server, table, accepted, model, torn, queue, calls>>

\* on_retrain_success returns.
Retrained ==
  /\ job.at = "callback"
  /\ job' = Resting
  /\ UNCHANGED <<server, data, model, torn, runs, queue, calls>>

\* Variant: a status nobody else knows.
ErrorTraining == MayFail /\ job.at # "idle" /\ Finish("error")

\* Anything above raises, the callback included.
FailTraining == MayFail /\ job.at # "idle" /\ Finish("failed")

Run_training_job ==
  \/ ReadFeedback \/ SkipTraining \/ OpenModel \/ DumpModel \/ ApplyFeedback
  \/ Retrained \/ FailTraining
-----------------------------------------------------------------------------
(* The process.                                                            *)

\* recover_incomplete_training_runs: one commit ...
Recover ==
  /\ phase = "starting"
  /\ todo = {}
  /\ todo' = Incomplete
  /\ runs' = [r \in Calls |-> IF r \in Incomplete THEN "queued" ELSE runs[r]]
  /\ phase' = IF Incomplete = {} THEN "up" ELSE phase
  /\ UNCHANGED <<stops, data, model, torn, queue, calls, job>>

\* ... and a loop of executor.submit, while the thread already works.
RecoverEnqueue(r) ==
  /\ r \in todo
  /\ todo' = todo \ {r}
  /\ queue' = Append(queue, r)
  /\ phase' = IF todo = {r} THEN "up" ELSE phase
  /\ UNCHANGED <<stops, data, model, torn, runs, calls, job>>

\* shutdown cancels the queue, once the requests are over.
Shutdown ==
  /\ phase = "up"
  /\ stops < MaxStops
  /\ \A c \in Calls : pc[c] \in {"idle", "done", "lost"}
  /\ phase' = "draining"
  /\ queue' = << >>
  /\ UNCHANGED <<stops, todo, data, model, torn, runs, calls, job>>

Vanish ==
  /\ phase' = "down"
  /\ stops' = stops + 1
  /\ todo' = {}
  /\ queue' = << >>
  /\ pc' = [c \in Calls |-> IF pc[c] \in {"idle", "done"} THEN pc[c] ELSE "lost"]
  /\ job' = Resting
  /\ UNCHANGED <<data, model, torn, runs, wants>>

\* The interpreter joins the thread before it exits.
Exit == phase = "draining" /\ job.at = "idle" /\ Vanish

Crash == phase # "down" /\ stops < MaxStops /\ Vanish

\* Variant: nothing is recovered.
BootOnly ==
  /\ phase = "down"
  /\ phase' = "up"
  /\ UNCHANGED <<stops, todo, data, model, torn, runs, queue, calls, job>>

\* Importing the application loads the model file, outside of any try
\* (MLDriftMonitor): with a file cut short the server does not start.
Boot ==
  /\ phase = "down"
  /\ ~torn
  /\ phase' = "starting"
  /\ UNCHANGED <<stops, todo, data, model, torn, runs, queue, calls, job>>
-----------------------------------------------------------------------------
Next ==
  \/ \E c \in Submits : Submit_feedback(c)
  \/ \E c \in Retrains : Trigger_retrain(c)
  \/ StartTraining \/ Run_training_job
  \/ Recover \/ \E r \in Calls : RecoverEnqueue(r)
  \/ Shutdown \/ Exit \/ Crash \/ Boot

Spec == Init /\ [][Next]_vars

\* A call once made is served, the thread runs, training ends or raises,
\* and a stopped server is started again, as often as it takes; it does not
\* come up from a torn model file (Boot).
Fairness ==
  /\ \A c \in Submits : WF_vars(Submit_feedback(c) /\ pc[c] # "idle")
  /\ \A c \in Retrains : WF_vars(Trigger_retrain(c) /\ pc[c] # "idle")
  /\ WF_vars(StartTraining)
  /\ WF_vars(Run_training_job)
  /\ WF_vars(Recover) /\ \A r \in Calls : WF_vars(RecoverEnqueue(r))
  /\ WF_vars(Exit) /\ WF_vars(Boot)

FairSpec == Spec /\ Fairness
-----------------------------------------------------------------------------
(* Properties.                                                             *)

\* Type invariant: runs, feedback rows and the training thread have no other
\* states than those the code writes.
TypeOK ==
  /\ phase \in {"down", "starting", "up", "draining"}
  /\ stops \in Nat
  /\ table \subseteq Submits
  /\ applied \in [Submits -> Calls \cup {NoRun}]
  /\ accepted \subseteq Submits
  /\ model \subseteq Submits
  /\ torn \in BOOLEAN
  /\ runs \in [Calls -> {"absent", "queued", "running", "success", "skipped", "failed"}]
  /\ queue \in Seq(Calls)
  /\ pc \in [Calls -> {"idle", "count", "check", "flag", "commit", "enqueue", "done", "lost"}]
  /\ wants \in [Calls -> BOOLEAN]
  /\ todo \subseteq Calls
  /\ job \in [at: {"idle", "started", "read", "dumping", "dumped", "callback"},
               run: Calls \cup {NoRun}, read: SUBSET Submits, fresh: SUBSET Submits]

\* An incomplete run blocks every later retraining.  While the server is
\* up, one that says queued is in the executor's queue, with a caller about
\* to enqueue it, or left to the recovery; one that says running is the
\* job of the executor's thread, before its last commit.
NoOrphanRun ==
  phase = "up" => \A r \in Calls :
    /\ runs[r] = "queued" =>
         pc[r] = "enqueue" \/ r \in todo \/ \E i \in DOMAIN queue : queue[i] = r
    /\ runs[r] = "running" =>
         job.run = r /\ job.at \in {"started", "read", "dumping", "dumped"}

\* Feedback that says applied was given to the run that wrote the model
\* file, also after later trainings, and although feedback arrives while one
\* runs (which of those rows the classifier is fitted on is ModelTraining's
\* matter).  The exception is the moment the file is rewritten in place: a
\* crash then, or a dump that raises, leaves a torn file, and a run that is
\* still incomplete or that says failed.
AppliedIsInModel ==
  \/ \A f \in Submits : applied[f] # NoRun => f \in model
  \/ torn /\ \E r \in Calls : runs[r] \in {"queued", "running", "failed"}

\* Feedback keeps the model version that first applied it, over retrainings,
\* crashes in the middle of one and runs that are executed twice.
AppliedOnce ==
  [][\A f \in Submits : applied[f] # NoRun => applied'[f] = applied[f]]_vars

\* A training run comes to an end, through crashes and restarts: README
\* "Restart recovery for queued/running ... ML retraining jobs".  That holds
\* unless the server went down with the model file cut short: it does not
\* come up again before somebody replaces the file, and what was queued or
\* running stays so.
RunsEnd ==
  \A r \in Calls :
    runs[r] \in {"queued", "running"} ~>
      runs[r] \in {"success", "skipped", "failed"} \/ (phase = "down" /\ torn)

\* docs/ARCHITECTURE "auto-triggers retraining on configurable thresholds":
\* feedback past the threshold is followed by a training run.
ThresholdRetrains ==
  Cardinality(Pending) >= Threshold
    ~> (Cardinality(Pending) < Threshold \/ Incomplete # {})
=============================================================================
