----------------------------- MODULE AuditJobs -----------------------------
(***************************************************************************)
(* The life of an audit job in Sentinel-Fi: a row of the audit_jobs table  *)
(* and everything that works on it.                                        *)
(*                                                                         *)
(*   - POST /v1/audit/submit and the scheduler's tick call                 *)
(*     AuditJobService.submit, which looks the row up by idempotency key,  *)
(*     inserts or resets it, and hands it to a thread pool;                *)
(*   - the pool's threads run AuditJobService._run_job;                    *)
(*   - POST /v1/audit/run executes the audit in the request itself and     *)
(*     keeps the same row up to date;                                      *)
(*   - on startup the lifespan handler starts the scheduler and then       *)
(*     requeues the rows an earlier process left queued or running.        *)
(*                                                                         *)
(* Each action is one database transaction, or one hand-over between       *)
(* threads.  A lookup and the write it decides are different steps: other  *)
(* threads run between them.  Job ids are not modelled apart from the      *)
(* idempotency key: the unique index on the column, and rows that are      *)
(* never deleted, make the two one-to-one.                                 *)
(***************************************************************************)
EXTENDS Naturals, Sequences, FiniteSets

CONSTANTS Keys,         \* idempotency keys
          FailingKeys,  \* keys whose execution or notification may raise
          AsyncCalls,   \* single calls of POST /v1/audit/submit
          TickCalls,    \* single calls of submit made by the scheduler thread
          SyncCalls,    \* single calls of POST /v1/audit/run
          Workers,      \* threads of the executor (max_workers)
          NoKey,        \* "works on nothing"
          MaxStops      \* bound on the crashes and shutdowns of the process

Submits == AsyncCalls \cup TickCalls
Calls   == Submits \cup SyncCalls
Actors  == Calls \cup Workers

ASSUME ConstantsAssumption ==
  /\ FailingKeys \subseteq Keys
  /\ NoKey \notin Keys
  /\ AsyncCalls \cap TickCalls = {}
  /\ Submits \cap SyncCalls = {}
  /\ Calls \cap Workers = {}
  /\ MaxStops \in Nat

VARIABLES
  phase,    \* of the server process
  stops,    \* how often it has stopped
  jobs,     \* the table: the row of each key
  audits,   \* the audits stored, in order; an audit's id is its position
  queue,    \* the executor's work queue
  pc,       \* where each actor stands
  key,      \* the key it works on
  audit,    \* the audit it stored or answers with, 0 if none
  snap,     \* the row a call read and still holds in its session
  rec       \* the startup recovery

vars == <<phase, stops, jobs, audits, queue, pc, key, audit, snap, rec>>
-----------------------------------------------------------------------------
(* Rows.                                                                   *)

Statuses == {"absent", "queued", "running", "succeeded", "failed"}
Errors   == {"none", "recovered", "raised"}
Row      == [status: Statuses, error: Errors, result: Nat]

AbsentRow == [status |-> "absent", error |-> "none", result |-> 0]
FreshRow(status) == [status |-> status, error |-> "none", result |-> 0]

Open(row) == row.status \in {"queued", "running"}

\* The filter of list_incomplete_jobs.
QueuedOnly(row) == row.status = "queued"                           \* variant
Incomplete(row) == row.status \in {"queued", "running"}

\* What a commit leaves in the table: the session writes the columns it
\* assigned a value other than the one it loaded, and only those.
Column(now, loaded, assigned) == IF assigned # loaded THEN assigned ELSE now
Flush(now, loaded, assigned) ==
  [status |-> Column(now.status, loaded.status, assigned.status),
   error  |-> Column(now.error, loaded.error, assigned.error),
   result |-> Column(now.result, loaded.result, assigned.result)]

Store(k, row) == jobs' = [jobs EXCEPT ![k] = row]
-----------------------------------------------------------------------------
Idle == [pc |-> "off", todo |-> {}, snap |-> [k \in Keys |-> AbsentRow]]

Init ==
  /\ phase = "starting"
  /\ stops = 0
  /\ jobs = [k \in Keys |-> AbsentRow]
  /\ audits = << >>
  /\ queue = << >>
  /\ pc = [a \in Actors |-> "idle"]
  /\ key = [a \in Actors |-> NoKey]
  /\ audit = [a \in Actors |-> 0]
  /\ snap = [c \in Calls |-> AbsentRow]
  /\ rec = [Idle EXCEPT !.pc = "read"]

Goto(a, from, to) == pc[a] = from /\ pc' = [pc EXCEPT ![a] = to]

\* The actor drops what it holds: a call is over, a thread is free again.
Release(a, from, to) ==
  /\ Goto(a, from, to)
  /\ key' = [key EXCEPT ![a] = NoKey]
  /\ audit' = [audit EXCEPT ![a] = 0]

process == <<phase, stops, rec>>
-----------------------------------------------------------------------------
(* Requests.                                                               *)

\* Requests are served once startup is over.  The scheduler thread runs
\* from before the recovery until the process is gone: stop() waits for it
\* no longer than two seconds.
Serving(c) == \/ phase = "up"
              \/ c \in TickCalls /\ phase \in {"starting", "draining"}

\* The lookup by key, which every entry point starts with.
Lookup(c, k) ==
  /\ Serving(c)
  /\ Goto(c, "idle", "decide")
  /\ key' = [key EXCEPT ![c] = k]
  /\ snap' = [snap EXCEPT ![c] = jobs[k]]
  /\ UNCHANGED <<process, jobs, audits, queue, audit>>

\* The unique index refuses the insert: the session raises.
InsertRefused(c) ==
  /\ Release(c, "decide", "refused")
  /\ snap[c].status = "absent"
  /\ jobs[key[c]].status # "absent"
  /\ snap' = [snap EXCEPT ![c] = AbsentRow]
  /\ UNCHANGED <<process, jobs, audits, queue>>

(* AuditJobService.submit.                                                 *)

\* Variant: no unique index, the second insert is not refused.
SubmitCreateUnindexed(c) ==
  /\ Goto(c, "decide", "enqueue")
  /\ snap[c].status = "absent"
  /\ Store(key[c], FreshRow("queued"))
  /\ snap' = [snap EXCEPT ![c] = AbsentRow]
  /\ UNCHANGED <<process, audits, queue, key, audit>>

SubmitCreate(c) ==
  /\ Goto(c, "decide", "enqueue")
  /\ snap[c].status = "absent"
  /\ jobs[key[c]].status = "absent"
  /\ Store(key[c], FreshRow("queued"))
  /\ snap' = [snap EXCEPT ![c] = AbsentRow]
  /\ UNCHANGED <<process, audits, queue, key, audit>>

\* reset_for_retry finds the row in the session: it does not read it again.
SubmitRetry(c) ==
  /\ Goto(c, "decide", "enqueue")
  /\ snap[c].status = "failed"
  /\ Store(key[c], Flush(jobs[key[c]], snap[c], FreshRow("queued")))
  /\ snap' = [snap EXCEPT ![c] = AbsentRow]
  /\ UNCHANGED <<process, audits, queue, key, audit>>

SubmitExisting(c) ==
  /\ Release(c, "decide", "answered")
  /\ snap[c].status \in {"queued", "running", "succeeded"}
  /\ snap' = [snap EXCEPT ![c] = AbsentRow]
  /\ UNCHANGED <<process, jobs, audits, queue>>

\* executor.submit, after the session is closed.
Enqueue(c) ==
  /\ Release(c, "enqueue", "answered")
  /\ phase \in {"starting", "up"}
  /\ queue' = Append(queue, key[c])
  /\ UNCHANGED <<process, jobs, audits, snap>>

\* An executor that is shut down raises; the row stays queued.
EnqueueRefused(c) ==
  /\ Release(c, "enqueue", "refused")
  /\ phase = "draining"
  /\ UNCHANGED <<process, jobs, audits, queue, snap>>

Submit(c) ==
  \/ InsertRefused(c) \/ SubmitCreate(c) \/ SubmitRetry(c)
  \/ SubmitExisting(c) \/ Enqueue(c) \/ EnqueueRefused(c)

(* run_audit_sync up to the execution.                                     *)

\* 200 with the stored response.
SyncCached(c) ==
  /\ Goto(c, "decide", "answered")
  /\ snap[c].status = "succeeded"
  /\ snap[c].result # 0
  /\ audit' = [audit EXCEPT ![c] = snap[c].result]
  /\ snap' = [snap EXCEPT ![c] = AbsentRow]
  /\ UNCHANGED <<process, jobs, audits, queue, key>>

\* 409: already in progress.
SyncConflict(c) ==
  /\ Release(c, "decide", "refused")
  /\ Open(snap[c])
  /\ snap' = [snap EXCEPT ![c] = AbsentRow]
  /\ UNCHANGED <<process, jobs, audits, queue>>

\* _mark_running: the row is inserted, or read afresh and overwritten
\* whatever it says by now.
SyncMarkRunning(c) ==
  /\ Goto(c, "decide", "exec")
  /\ \/ snap[c].status = "absent" /\ jobs[key[c]].status = "absent"
     \/ snap[c].status = "failed"
     \/ snap[c].status = "succeeded" /\ snap[c].result = 0
  /\ Store(key[c], FreshRow("running"))
  /\ snap' = [snap EXCEPT ![c] = AbsentRow]
  /\ UNCHANGED <<process, audits, queue, key, audit>>

\* mark_success, and the 200.
SyncSucceed(c) ==
  /\ Goto(c, "persisted", "answered")
  /\ Store(key[c], [jobs[key[c]] EXCEPT !.status = "succeeded",
                                        !.result = audit[c]])
  /\ UNCHANGED <<process, audits, queue, key, audit, snap>>

\* mark_failed, and the 400.
SyncFail(c) ==
  /\ pc[c] \in {"exec", "saved", "persisted"}
  /\ key[c] \in FailingKeys
  /\ Store(key[c], [jobs[key[c]] EXCEPT !.status = "failed", !.error = "raised"])
  /\ Release(c, pc[c], "refused")
  /\ UNCHANGED <<process, audits, queue, snap>>
-----------------------------------------------------------------------------
(* AuditExecutionService.execute, in a pool thread or in a request.        *)

\* Variant: the transactions are not saved.
SaveAuditAlone(a) ==
  /\ Goto(a, "exec", "persisted")
  /\ audits' = Append(audits, [key |-> key[a], details |-> FALSE])
  /\ audit' = [audit EXCEPT ![a] = Len(audits')]
  /\ UNCHANGED <<process, jobs, queue, key, snap>>

\* save_audit_output commits the audit ...
SaveAudit(a) ==
  /\ Goto(a, "exec", "saved")
  /\ audits' = Append(audits, [key |-> key[a], details |-> FALSE])
  /\ audit' = [audit EXCEPT ![a] = Len(audits')]
  /\ UNCHANGED <<process, jobs, queue, key, snap>>

\* ... and save_classified_transactions, in a second transaction, its rows.
SaveTransactions(a) ==
  /\ Goto(a, "saved", "persisted")
  /\ audits' = [audits EXCEPT ![audit[a]].details = TRUE]
  /\ UNCHANGED <<process, jobs, queue, key, audit, snap>>

Execute(a) == SaveAudit(a) \/ SaveTransactions(a)

Sync(c) ==
  \/ InsertRefused(c) \/ SyncCached(c) \/ SyncConflict(c) \/ SyncMarkRunning(c)
  \/ Execute(c) \/ SyncSucceed(c) \/ SyncFail(c)
-----------------------------------------------------------------------------
(* AuditJobService._run_job in a thread of the pool.                       *)

\* The thread takes the next job and mark_running commits.
StartJob(w) ==
  /\ Goto(w, "idle", "exec")
  /\ queue # << >>
  /\ key' = [key EXCEPT ![w] = Head(queue)]
  /\ queue' = Tail(queue)
  /\ Store(Head(queue), [jobs[Head(queue)] EXCEPT !.status = "running"])
  /\ UNCHANGED <<process, audits, audit, snap>>

\* mark_success; the error column keeps what it held.
MarkSuccess(w) ==
  /\ Goto(w, "persisted", "notify")
  /\ Store(key[w], [jobs[key[w]] EXCEPT !.status = "succeeded",
                                        !.result = audit[w]])
  /\ UNCHANGED <<process, audits, queue, key, audit, snap>>

Notified(w) ==
  /\ Release(w, "notify", "idle")
  /\ UNCHANGED <<process, jobs, audits, queue, snap>>

\* Variant: a status nobody else knows.
MarkErrored(w) ==
  /\ pc[w] \in {"exec", "saved", "persisted", "notify"}
  /\ key[w] \in FailingKeys
  /\ Store(key[w], [jobs[key[w]] EXCEPT !.status = "error", !.error = "raised"])
  /\ Release(w, pc[w], "idle")
  /\ UNCHANGED <<process, audits, queue, snap>>

\* One except clause covers the execution, mark_success and the
\* notification; the result column keeps what it held.
MarkFailed(w) ==
  /\ pc[w] \in {"exec", "saved", "persisted", "notify"}
  /\ key[w] \in FailingKeys
  /\ Store(key[w], [jobs[key[w]] EXCEPT !.status = "failed", !.error = "raised"])
  /\ Release(w, pc[w], "idle")
  /\ UNCHANGED <<process, audits, queue, snap>>

RunJob(w) == Execute(w) \/ MarkSuccess(w) \/ Notified(w) \/ MarkFailed(w)
-----------------------------------------------------------------------------
(* The process: startup recovery, shutdown, crash, restart.                *)

\* list_incomplete_jobs.
RecoverRead ==
  /\ phase = "starting"
  /\ rec.pc = "read"
  /\ LET found == {k \in Keys : Incomplete(jobs[k])} IN
     IF found = {}
     THEN rec' = Idle /\ phase' = "up"
     ELSE /\ rec' = [pc |-> "write", todo |-> found,
                     snap |-> [k \in Keys |-> IF k \in found THEN jobs[k]
                                              ELSE AbsentRow]]
          /\ UNCHANGED phase
  /\ UNCHANGED <<stops, jobs, audits, queue, pc, key, audit, snap>>

\* requeue_jobs, one commit for all of them.
RecoverWrite ==
  /\ rec.pc = "write"
  /\ jobs' = [k \in Keys |->
                IF k \in rec.todo
                THEN Flush(jobs[k], rec.snap[k],
                           [rec.snap[k] EXCEPT !.status = "queued",
                                               !.error = "recovered"])
                ELSE jobs[k]]
  /\ rec' = [pc |-> "enqueue", todo |-> rec.todo,
             snap |-> [k \in Keys |-> AbsentRow]]
  /\ UNCHANGED <<phase, stops, audits, queue, pc, key, audit, snap>>

\* The loop of executor.submit; after the last one startup is over.
RecoverEnqueue(k) ==
  /\ rec.pc = "enqueue"
  /\ k \in rec.todo
  /\ queue' = Append(queue, k)
  /\ IF rec.todo = {k}
     THEN rec' = Idle /\ phase' = "up"
     ELSE rec' = [rec EXCEPT !.todo = @ \ {k}] /\ UNCHANGED phase
  /\ UNCHANGED <<stops, jobs, audits, pc, key, audit, snap>>

Recover == RecoverRead \/ RecoverWrite \/ \E k \in Keys : RecoverEnqueue(k)

\* The lifespan's shutdown, once the server has finished its requests:
\* the queue is cancelled, running jobs go on.
Shutdown ==
  /\ phase = "up"
  /\ stops < MaxStops
  /\ \A c \in AsyncCalls \cup SyncCalls : pc[c] \in {"idle", "answered", "refused"}
  /\ phase' = "draining"
  /\ queue' = << >>
  /\ UNCHANGED <<stops, jobs, audits, pc, key, audit, snap, rec>>

\* Whatever lived in memory is gone; calls in flight get no answer.
Vanish ==
  /\ phase' = "down"
  /\ stops' = stops + 1
  /\ queue' = << >>
  /\ pc' = [a \in Actors |->
              IF a \in Workers THEN "idle"
              ELSE IF pc[a] \in {"idle", "answered"} THEN pc[a] ELSE "refused"]
  /\ key' = [a \in Actors |-> IF a \in Calls /\ pc[a] = "answered"
                              THEN key[a] ELSE NoKey]
  /\ audit' = [a \in Actors |-> IF a \in Calls /\ pc[a] = "answered"
                                THEN audit[a] ELSE 0]
  /\ snap' = [c \in Calls |-> AbsentRow]
  /\ rec' = Idle
  /\ UNCHANGED <<jobs, audits>>

\* The interpreter joins the pool's threads before it exits.
Exit == phase = "draining" /\ (\A w \in Workers : pc[w] = "idle") /\ Vanish

Crash == phase # "down" /\ stops < MaxStops /\ Vanish

\* Variant: the lifespan does not recover.
BootOnly ==
  /\ phase = "down"
  /\ phase' = "up"
  /\ UNCHANGED <<stops, jobs, audits, queue, pc, key, audit, snap, rec>>

Boot ==
  /\ phase = "down"
  /\ phase' = "starting"
  /\ rec' = [Idle EXCEPT !.pc = "read"]
  /\ UNCHANGED <<stops, jobs, audits, queue, pc, key, audit, snap>>
-----------------------------------------------------------------------------
Next ==
  \/ \E c \in Calls, k \in Keys : Lookup(c, k)
  \/ \E c \in Submits : Submit(c)
  \/ \E c \in SyncCalls : Sync(c)
  \/ \E w \in Workers : StartJob(w) \/ RunJob(w)
  \/ Recover
  \/ Shutdown \/ Exit \/ Crash \/ Boot

Spec == Init /\ [][Next]_vars

\* Threads get to run, calls of the audit pipeline and of the notifier
\* return (each has a timeout), and a stopped server is started again.
\* Nothing makes a client call, and nothing makes the process stop.
Fairness ==
  /\ \A c \in Submits : WF_vars(Submit(c))
  /\ \A c \in SyncCalls : WF_vars(Sync(c))
  /\ \A w \in Workers : WF_vars(StartJob(w)) /\ WF_vars(RunJob(w))
  /\ WF_vars(Recover)
  /\ WF_vars(Exit)
  /\ WF_vars(Boot)

FairSpec == Spec /\ Fairness
-----------------------------------------------------------------------------
(* Properties.                                                             *)

\* Type invariant: rows have a status the code writes, and each call and
\* worker is at one of its steps.
TypeOK ==
  /\ phase \in {"down", "starting", "up", "draining"}
  /\ stops \in Nat
  /\ jobs \in [Keys -> Row]
  /\ audits \in Seq([key: Keys, details: BOOLEAN])
  /\ queue \in Seq(Keys)
  /\ pc \in [Actors -> {"idle", "decide", "enqueue", "exec", "saved",
                        "persisted", "notify", "answered", "refused"}]
  /\ key \in [Actors -> Keys \cup {NoKey}]
  /\ audit \in [Actors -> Nat]
  /\ snap \in [Calls -> Row]
  /\ rec \in [pc: {"off", "read", "write", "enqueue"},
               todo: SUBSET Keys, snap: [Keys -> Row]]

\* Someone will still bring the row of k to an end.
Has(q, k)    == \E i \in DOMAIN q : q[i] = k
Waiting(k)   == Has(queue, k)
InFlight(k)  == \E a \in Actors : key[a] = k /\ pc[a] \in {"enqueue", "exec", "saved", "persisted"}
Recovered(k) == rec.pc # "read" /\ k \in rec.todo

\* While the server is up, every row that says queued or running is in the
\* executor's queue, with a thread or request that runs it, or with one
\* about to enqueue it: nobody polls a job that no one works on.  It is
\* what the order commit, then executor.submit and the startup recovery of
\* AuditJobService are for.
NoOrphanJob ==
  phase = "up" => \A k \in Keys :
    Open(jobs[k]) => Waiting(k) \/ InFlight(k) \/ Recovered(k)

\* id is an audit of k; and it is stored completely.
SavedFor(k, id)  == id \in DOMAIN audits /\ audits[id].key = k
StoredFor(k, id) == SavedFor(k, id) /\ audits[id].details

\* A job that says succeeded carries an audit of its own key, stored with
\* its transactions, whichever of the threads that ran it wrote last; and
\* so does a 200 answer of the synchronous endpoint, the cached one too.
SucceededHasAudit ==
  /\ \A k \in Keys :
       jobs[k].status = "succeeded" => StoredFor(k, jobs[k].result)
  /\ \A c \in SyncCalls :
       pc[c] = "answered" => StoredFor(key[c], audit[c])

AuditsOf(k) == {i \in DOMAIN audits : audits[i].key = k}

\* Calls with one key, however they race, store one audit, as long as the
\* execution does not fail and the startup recovery never touched the row:
\* the lookup and the unique index together deduplicate.
DeduplicatedUnlessRetried ==
  \A k \in Keys \ FailingKeys :
    jobs[k].error # "recovered" => Cardinality(AuditsOf(k)) <= 1

\* What callers see of a row: where the job stands, and which audit it has.
Seen(row) ==
  [status |-> IF Open(row) THEN "open" ELSE row.status,
   result |-> IF row.status = "succeeded" THEN row.result ELSE 0]

\* The keys that neither fail nor were taken up again by a restart.
Undisturbed == {k \in Keys \ FailingKeys : jobs[k].error # "recovered"}

Ledger == INSTANCE JobLedger WITH
  Unreliable <- FailingKeys,
  job <- [k \in Keys |-> Seen(jobs[k])],
  stored <- [k \in Keys |-> AuditsOf(k)],
  once <- Undisturbed

\* The table implements the ledger.  Of the calls with one key, however they
\* race, one creates the job; its one audit is stored while the job is open,
\* and a succeeded job stays so and keeps that audit: the lookup and the
\* unique index together deduplicate.  This ends only for a key whose execution
\* may fail, or that the startup recovery requeues, and the recovery requeues
\* no key that was never submitted.
KeepsLedger == Ledger!Spec

\* An open job comes to an end, through crashes, shutdowns that cancel its
\* future and restarts: the recovery of README "Restart recovery for
\* queued/running audit ... jobs persisted in DB".
OpenJobsEnd ==
  \A k \in Keys : Open(jobs[k]) ~> jobs[k].status \in {"succeeded", "failed"}

\* A client may stop polling at succeeded: README "Poll ... until status is
\* succeeded or failed".  (A failed job is reset only by a new submit.)
SucceededIsFinal ==
  [][\A k \in Keys : jobs[k].status = "succeeded" => jobs'[k].status = "succeeded"]_vars

\* The 409 of the synchronous endpoint, "Audit already in progress for
\* idempotency key", means to keep executions of one key apart.
OneExecutionPerKey ==
  \A a, b \in Actors :
    /\ pc[a] \in {"exec", "saved", "persisted"}
    /\ pc[b] \in {"exec", "saved", "persisted"}
    /\ key[a] = key[b]
    => a = b
-----------------------------------------------------------------------------
(* The inductive invariant behind TypeOK, NoOrphanJob, SucceededHasAudit.  *)

\* Whoever works, works on a key.
KeyInv ==
  \A a \in Actors : pc[a] \notin {"idle", "answered", "refused"} => key[a] \in Keys

\* The recovery runs while the server starts, and only then.
PhaseInv ==
  /\ phase = "starting" <=> rec.pc # "off"
  /\ rec.pc \in {"off", "read"} => rec.todo = {}

\* NoOrphanJob, from the moment the recovery has read the table.
OwnedInv ==
  phase = "up" \/ rec.pc \in {"write", "enqueue"} => \A k \in Keys :
    Open(jobs[k]) => Waiting(k) \/ InFlight(k) \/ Recovered(k)

\* Every reference to an audit, in a row, in a session or in an actor's
\* hands, is to an audit of the right key; all but an actor that has just
\* stored it, and a row that says so, may count on its transactions.
AuditInv ==
  /\ \A a \in Actors : pc[a] = "saved" => SavedFor(key[a], audit[a])
  /\ \A a \in Actors : pc[a] = "persisted" => StoredFor(key[a], audit[a])
  /\ \A c \in SyncCalls : pc[c] = "answered" => StoredFor(key[c], audit[c])
  /\ \A c \in Calls : pc[c] = "decide" /\ snap[c].result # 0 =>
       StoredFor(key[c], snap[c].result)
  /\ \A k \in Keys : jobs[k].result # 0 => StoredFor(k, jobs[k].result)
  /\ \A k \in Keys : jobs[k].status = "succeeded" => jobs[k].result # 0

IInv == TypeOK /\ KeyInv /\ PhaseInv /\ OwnedInv /\ AuditInv
=============================================================================
