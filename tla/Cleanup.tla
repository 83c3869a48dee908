------------------------------ MODULE Cleanup ------------------------------
(***************************************************************************)
(* POST /v1/cleanup/run of Sentinel-Fi for one audit: a request names the  *)
(* tasks it approves, CleanupGraph lets the permitted ones through,        *)
(* CleanupTaskExecutor runs them one by one, and the outcome is persisted  *)
(* in four commits.  Requests run in threads and know nothing of each      *)
(* other; what they share is the table, the output directory, the outside  *)
(* systems, and settings that an administrator changes at run time.        *)
(*                                                                         *)
(* ledger_reclass, invoice_fetch and gst_recon have one shape (a webhook,  *)
(* or a file where none is configured); email_draft has its own.           *)
(***************************************************************************)
EXTENDS Naturals, FiniteSets

CONSTANTS Webhooks,       \* the audit's tasks that go to a webhook
          Emails,         \* its email_draft tasks
          NeedsApproval,  \* tasks whose row says requires_approval
          Requests,       \* single calls of the endpoint
          MaxAttempts,    \* cleanup_webhook_max_attempts
          Live,           \* initial cleanup_live_mode
          Connected,      \* initially, tasks whose URL or SMTP host is set
          NoTask,         \* "no task"
          MaxChanges,     \* bound on the changes of the settings
          MaxFaults       \* bound on the crashes of the process and failed writes

Tasks == Webhooks \cup Emails

ASSUME ConstantsAssumption ==
  /\ Webhooks \cap Emails = {}
  /\ NeedsApproval \subseteq Tasks
  /\ Connected \subseteq Tasks
  /\ Live \in BOOLEAN
  /\ NoTask \notin Tasks
  /\ IsFiniteSet(Requests)
  /\ MaxAttempts \in Nat
  /\ MaxChanges \in Nat
  /\ MaxFaults \in Nat

VARIABLES
  live, connected,  \* the settings
  changes, faults,   \* how often they changed; crashes and failed writes so far
  status, approved_at,  \* the rows of the tasks
  files,            \* the artifact of each task
  posted,           \* tasks whose webhook was called
  acknowledged,     \* tasks whose webhook answered with a status below 400
  mailed,           \* how often the mail of each task was sent
  pc,               \* where each request stands
  approved,         \* the tasks it approves
  todo,             \* the permitted tasks still to execute
  task,             \* the one being executed
  attempt,          \* of the webhook
  result            \* what it has to report of each task

settings == <<live, connected, changes>>
rows     == <<status, approved_at>>
outside  == <<files, posted, acknowledged, mailed>>
graph    == <<todo, task, attempt, result>>
vars     == <<settings, faults, rows, outside, pc, approved, graph>>
-----------------------------------------------------------------------------
Init ==
  /\ live = Live
  /\ connected = Connected
  /\ changes = 0
  /\ faults = 0
  /\ status = [t \in Tasks |-> "proposed"]
  /\ approved_at = [t \in Tasks |-> FALSE]
  /\ files = [t \in Tasks |-> "absent"]
  /\ posted = {}
  /\ acknowledged = {}
  /\ mailed = [t \in Tasks |-> 0]
  /\ pc = [r \in Requests |-> "idle"]
  /\ approved = [r \in Requests |-> {}]
  /\ todo = [r \in Requests |-> {}]
  /\ task = [r \in Requests |-> NoTask]
  /\ attempt = [r \in Requests |-> 0]
  /\ result = [r \in Requests |-> [t \in Tasks |-> "none"]]

Goto(r, from, to) == pc[r] = from /\ pc' = [pc EXCEPT ![r] = to]
-----------------------------------------------------------------------------
(* approval_gate.                                                          *)

\* Variant: the flag is read the wrong way round.
PermittedAll(approvals) == {t \in Tasks : t \in NeedsApproval \/ t \in approvals}

Permitted(approvals) == {t \in Tasks : t \notin NeedsApproval \/ t \in approvals}

\* The tasks are loaded, ids that are not the audit's are refused, and the
\* gate splits the rest.
Gate(r, approvals) ==
  /\ Goto(r, "idle", "next")
  /\ approved' = [approved EXCEPT ![r] = approvals]
  /\ todo' = [todo EXCEPT ![r] = Permitted(approvals)]
  /\ result' = [result EXCEPT ![r] =
       [t \in Tasks |-> IF t \in Permitted(approvals) THEN "none" ELSE "skipped"]]
  /\ UNCHANGED <<settings, faults, rows, outside, task, attempt>>
-----------------------------------------------------------------------------
(* CleanupTaskExecutor.execute.                                            *)

\* The handler returns a result, and the loop goes on with the next task.
Report(r, t, outcome) ==
  /\ pc' = [pc EXCEPT ![r] = "next"]
  /\ task' = [task EXCEPT ![r] = NoTask]
  /\ attempt' = [attempt EXCEPT ![r] = 0]
  /\ result' = [result EXCEPT ![r][t] = outcome]

\* The handler's first checks, for a task of the loop; the order of the
\* loop is that of the ids, which are random.  A file once there stays, so
\* looking for it and then at the connector is one step.
AlreadyExecuted(r, t) ==
  /\ pc[r] = "next" /\ t \in todo[r]
  /\ files[t] # "absent" /\ t \notin connected
  /\ todo' = [todo EXCEPT ![r] = @ \ {t}]
  /\ Report(r, t, "executed")
  /\ UNCHANGED <<settings, faults, rows, outside, approved>>

BeginWebhook(r, t) ==
  /\ pc[r] = "next" /\ t \in todo[r] \cap Webhooks
  /\ files[t] = "absent" \/ t \in connected
  /\ todo' = [todo EXCEPT ![r] = @ \ {t}]
  /\ pc' = [pc EXCEPT ![r] = "url"]
  /\ task' = [task EXCEPT ![r] = t]
  /\ UNCHANGED <<settings, faults, rows, outside, approved, attempt, result>>

\* The URL is read once more, to be handed to _post_webhook.
ReadUrl(r) ==
  /\ pc[r] = "url"
  /\ \/ /\ task[r] \in connected
        /\ pc' = [pc EXCEPT ![r] = "post"]
        /\ attempt' = [attempt EXCEPT ![r] = 1]
     \/ /\ task[r] \notin connected
        /\ pc' = [pc EXCEPT ![r] = "live"]
        /\ UNCHANGED attempt
  /\ UNCHANGED <<settings, faults, rows, outside, approved, todo, task, result>>

\* The draft is written in any case.
BeginEmail(r, t) ==
  /\ pc[r] = "next" /\ t \in todo[r] \cap Emails
  /\ files[t] = "absent" \/ t \in connected
  /\ todo' = [todo EXCEPT ![r] = @ \ {t}]
  /\ pc' = [pc EXCEPT ![r] = "write"]
  /\ task' = [task EXCEPT ![r] = t]
  /\ UNCHANGED <<settings, faults, rows, outside, approved, attempt, result>>

\* Opening the file truncates it ...
OpenFile(r) ==
  /\ Goto(r, "write", "writing")
  /\ files' = [files EXCEPT ![task[r]] = "partial"]
  /\ UNCHANGED <<settings, faults, rows, posted, acknowledged, mailed, approved, graph>>

\* ... and closing it completes it.
CloseFile(r) ==
  /\ pc[r] = "writing"
  /\ files' = [files EXCEPT ![task[r]] = "complete"]
  /\ IF task[r] \in Emails
     THEN pc' = [pc EXCEPT ![r] = "send"] /\ UNCHANGED <<task, attempt, result>>
     ELSE Report(r, task[r], "executed")
  /\ UNCHANGED <<settings, faults, rows, posted, acknowledged, mailed, approved, todo>>

\* The disk refuses: what is there of the file stays.
WriteFails(r) ==
  /\ pc[r] \in {"write", "writing"}
  /\ faults < MaxFaults
  /\ faults' = faults + 1
  /\ Report(r, task[r], "failed")
  /\ UNCHANGED <<settings, rows, outside, approved, todo>>

\* _post_webhook: the attempt raised in transport, or the answer is one to
\* retry; the receiver may have acted on the call.
PostAgain(r) ==
  /\ pc[r] = "post"
  /\ posted' = posted \cup {task[r]}
  /\ IF attempt[r] < MaxAttempts
     THEN attempt' = [attempt EXCEPT ![r] = @ + 1] /\ UNCHANGED <<pc, task, result>>
     ELSE Report(r, task[r], "failed")
  /\ UNCHANGED <<settings, faults, rows, files, acknowledged, mailed, approved, todo>>

\* A status the client does not retry, or an exception execute() catches.
PostRefused(r) ==
  /\ pc[r] = "post"
  /\ posted' = posted \cup {task[r]}
  /\ Report(r, task[r], "failed")
  /\ UNCHANGED <<settings, faults, rows, files, acknowledged, mailed, approved, todo>>

\* Any status below 400 counts as success, a redirect too, which the client
\* does not follow; nothing says that the receiver has acted.  The response
\* is kept in a file of its own, which may fail.
PostAccepted(r) ==
  /\ pc[r] = "post"
  /\ posted' = posted \cup {task[r]}
  /\ acknowledged' = acknowledged \cup {task[r]}
  /\ \/ Report(r, task[r], "executed") /\ UNCHANGED faults
     \/ /\ faults < MaxFaults /\ faults' = faults + 1
        /\ Report(r, task[r], "failed")
  /\ UNCHANGED <<settings, rows, files, mailed, approved, todo>>

\* _send_email_if_configured without a host.
NoHost(r) ==
  /\ Goto(r, "send", "live")
  /\ task[r] \notin connected
  /\ UNCHANGED <<settings, faults, rows, outside, approved, graph>>

\* Nothing to connect to, which is a failure when running live.  Otherwise
\* the local artifact does: it is yet to be written, or is the draft.
NoConnector(r) ==
  /\ pc[r] = "live"
  /\ \/ live /\ Report(r, task[r], "failed")
     \/ ~live /\ task[r] \in Emails /\ Report(r, task[r], "executed")
     \/ /\ ~live /\ task[r] \in Webhooks
        /\ pc' = [pc EXCEPT ![r] = "write"]
        /\ UNCHANGED <<task, attempt, result>>
  /\ UNCHANGED <<settings, faults, rows, outside, approved, todo>>

\* Variant: a send that raised is tried again.
SendRetrying(r) ==
  /\ pc[r] = "send"
  /\ task[r] \in connected
  /\ mailed[task[r]] < 4
  /\ mailed' = [mailed EXCEPT ![task[r]] = @ + 1]
  /\ \/ Report(r, task[r], "executed")
     \/ UNCHANGED <<pc, task, attempt, result>>
  /\ UNCHANGED <<settings, faults, rows, files, posted, acknowledged, approved, todo>>

\* The mail goes out or does not; an exception may also follow a mail that
\* has gone out.  Addresses may be missing, which is a failure too.
Send(r) ==
  /\ pc[r] = "send"
  /\ task[r] \in connected
  /\ \/ /\ mailed' = [mailed EXCEPT ![task[r]] = @ + 1]
        /\ \E outcome \in {"executed", "failed"} : Report(r, task[r], outcome)
     \/ Report(r, task[r], "failed") /\ UNCHANGED mailed
  /\ UNCHANGED <<settings, faults, rows, files, posted, acknowledged, approved, todo>>

Execute(r) ==
  \/ \E t \in Tasks : AlreadyExecuted(r, t) \/ BeginWebhook(r, t) \/ BeginEmail(r, t)
  \/ ReadUrl(r) \/ NoConnector(r) \/ OpenFile(r) \/ CloseFile(r) \/ WriteFails(r)
  \/ PostAgain(r) \/ PostRefused(r) \/ PostAccepted(r)
  \/ NoHost(r) \/ Send(r)
-----------------------------------------------------------------------------
(* _persist_cleanup_result: a commit for each list of ids.                 *)

Reported(r, outcome) == {t \in Tasks : result[r][t] = outcome}

Overwrite(ids, value) == status' = [t \in Tasks |-> IF t \in ids THEN value ELSE status[t]]

\* Variant: the executed tasks are marked before the approval is.
MarkExecutedFirst(r) ==
  /\ Goto(r, "next", "executed")
  /\ todo[r] = {}
  /\ Overwrite(Reported(r, "executed"), "executed")
  /\ UNCHANGED <<settings, faults, approved_at, outside, approved, graph>>

MarkApproved(r) ==
  /\ Goto(r, "next", "executed")
  /\ todo[r] = {}
  /\ Overwrite(approved[r], "approved")
  /\ approved_at' = [t \in Tasks |-> approved_at[t] \/ t \in approved[r]]
  /\ UNCHANGED <<settings, faults, outside, approved, graph>>

\* Variant: every task that was run counts as executed.
MarkRunExecuted(r) ==
  /\ Goto(r, "executed", "skipped")
  /\ Overwrite(Reported(r, "executed") \cup Reported(r, "failed"), "executed")
  /\ UNCHANGED <<settings, faults, approved_at, outside, approved, graph>>

MarkExecuted(r) ==
  /\ Goto(r, "executed", "skipped")
  /\ Overwrite(Reported(r, "executed"), "executed")
  /\ UNCHANGED <<settings, faults, approved_at, outside, approved, graph>>

MarkSkipped(r) ==
  /\ Goto(r, "skipped", "failed")
  /\ Overwrite(Reported(r, "skipped"), "skipped_unapproved")
  /\ UNCHANGED <<settings, faults, approved_at, outside, approved, graph>>

\* Variant: a status nobody else knows.
MarkFailedAsError(r) ==
  /\ Goto(r, "failed", "answered")
  /\ Overwrite(Reported(r, "failed"), "error")
  /\ UNCHANGED <<settings, faults, approved_at, outside, approved, graph>>

\* The last commit, and the 200.
MarkFailed(r) ==
  /\ Goto(r, "failed", "answered")
  /\ Overwrite(Reported(r, "failed"), "failed")
  /\ UNCHANGED <<settings, faults, approved_at, outside, approved, graph>>

Persist(r) == MarkApproved(r) \/ MarkExecuted(r) \/ MarkSkipped(r) \/ MarkFailed(r)
-----------------------------------------------------------------------------
\* PUT /v1/admin/settings: a connector is set or cleared, live mode flipped;
\* executors at work see it at once.  The override is stored.
Reconfigure ==
  /\ changes < MaxChanges
  /\ changes' = changes + 1
  /\ \/ live' = ~live /\ UNCHANGED connected
     \/ \E t \in Tasks : connected' \in {connected \cup {t}, connected \ {t}}
        /\ UNCHANGED live
  /\ UNCHANGED <<faults, rows, outside, pc, approved, graph>>

\* The process dies and is started again: the requests are gone.
Crash ==
  /\ faults < MaxFaults
  /\ faults' = faults + 1
  /\ pc' = [r \in Requests |-> IF pc[r] \in {"idle", "answered"} THEN pc[r] ELSE "lost"]
  /\ todo' = [r \in Requests |-> {}]
  /\ task' = [r \in Requests |-> NoTask]
  /\ attempt' = [r \in Requests |-> 0]
  /\ UNCHANGED <<settings, rows, outside, approved, result>>

Next ==
  \/ \E r \in Requests :
       \/ \E approvals \in SUBSET Tasks : Gate(r, approvals)
       \/ Execute(r)
       \/ Persist(r)
  \/ Reconfigure
  \/ Crash

Spec == Init /\ [][Next]_vars
-----------------------------------------------------------------------------
(* Properties.                                                             *)

\* Type invariant: statuses of tasks and steps of requests are those of the
\* cleanup graph and the endpoint.
TypeOK ==
  /\ live \in BOOLEAN
  /\ connected \subseteq Tasks
  /\ changes \in 0 .. MaxChanges
  /\ faults \in 0 .. MaxFaults
  /\ status \in [Tasks -> {"proposed", "approved", "executed", "skipped_unapproved", "failed"}]
  /\ approved_at \in [Tasks -> BOOLEAN]
  /\ files \in [Tasks -> {"absent", "partial", "complete"}]
  /\ posted \subseteq Webhooks
  /\ acknowledged \subseteq posted
  /\ mailed \in [Tasks -> Nat]
  /\ pc \in [Requests -> {"idle", "next", "url", "live", "write", "writing", "post",
                          "send", "executed", "skipped", "failed", "answered", "lost"}]
  /\ approved \in [Requests -> SUBSET Tasks]
  /\ todo \in [Requests -> SUBSET Tasks]
  /\ task \in [Requests -> Tasks \cup {NoTask}]
  /\ attempt \in [Requests -> Nat]
  /\ result \in [Requests -> [Tasks -> {"none", "executed", "failed", "skipped"}]]

Touched(t) == files[t] # "absent" \/ t \in posted \/ mailed[t] > 0

\* docs/ARCHITECTURE "Explicit approval gate before write operations": no
\* artifact, webhook call or mail for a task that needs approval, unless
\* a request approved that task.
EffectsApproved ==
  \A t \in NeedsApproval : Touched(t) => \E r \in Requests : t \in approved[r]

\* A task on record as executed has something to show for it: its webhook
\* answered with a status below 400, which is all the executor asks for, or
\* its artifact is there; a truncated one only while a request writes it, or
\* after a crash or a failed write: _handle_* take any file they find for an
\* execution.
ExecutedIsBacked ==
  \A t \in Tasks : status[t] = "executed" =>
    \/ t \in acknowledged
    \/ files[t] = "complete"
    \/ files[t] = "partial" /\ (faults > 0 \/ \E r \in Requests : task[r] = t)

\* The approval is on record no later than the execution it permitted,
\* wherever in the four commits the process dies.
ApprovalOnRecord ==
  \A t \in NeedsApproval : status[t] = "executed" => approved_at[t]

\* Unlike webhooks, mails are not retried: a request sends at most one for
\* a task, although an error may follow a mail that went out.
OneMailPerRequest ==
  \A t \in Emails :
    mailed[t] <= Cardinality({r \in Requests : pc[r] # "idle" /\ t \in Permitted(approved[r])})

\* tests/test_cleanup_orchestrator.py,
\* test_cleanup_live_mode_fails_without_real_connectors: in live mode a task
\* without a connector is reported as failed.
LiveModeNeedsConnectors ==
  live /\ connected = {} =>
    \A r \in Requests, t \in Tasks : result[r][t] # "executed"
=============================================================================
