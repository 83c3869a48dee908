--------------------------- MODULE CleanupProofs ---------------------------
(***************************************************************************)
(* The approval gate of Cleanup holds, what it calls executed has an answer *)
(* or a file to show for it and no request sends a mail twice, for any set  *)
(* of tasks and requests, any settings and any number of crashes, failed    *)
(* writes and changes of the settings.                                      *)
(***************************************************************************)
EXTENDS Cleanup, FiniteSetTheorems, TLAPS

\* The places of a request that works on a task.
Working == {"url", "live", "write", "writing", "post", "send"}

PostsWebhook == \A r \in Requests : pc[r] \in {"url", "post"} => task[r] \in Webhooks

TypeInv == TypeOK /\ PostsWebhook

\* What Report leaves behind is well typed.
Reporting ==
  /\ pc \in [Requests -> Working \cup
                {"idle", "next", "executed", "skipped", "failed", "answered", "lost"}]
  /\ task \in [Requests -> Tasks \cup {NoTask}]
  /\ attempt \in [Requests -> Nat]
  /\ result \in [Requests -> [Tasks -> {"none", "executed", "failed", "skipped"}]]
  /\ PostsWebhook

LEMMA ReportTyped ==
  ASSUME TypeInv, NEW r \in Requests, NEW t, NEW outcome \in {"executed", "failed"},
         Report(r, t, outcome)
  PROVE  Reporting'
<1>1. /\ pc' = [pc EXCEPT ![r] = "next"]
      /\ task' = [task EXCEPT ![r] = NoTask]
      /\ attempt' = [attempt EXCEPT ![r] = 0]
      /\ result' = [result EXCEPT ![r][t] = outcome]
  BY DEF Report
<1>2. result' \in [Requests -> [Tasks -> {"none", "executed", "failed", "skipped"}]]
  <2>1. result[r] \in [Tasks -> {"none", "executed", "failed", "skipped"}]
    BY DEF TypeInv, TypeOK
  <2>2. [result[r] EXCEPT ![t] = outcome] \in [Tasks -> {"none", "executed", "failed", "skipped"}]
    BY <2>1
  <2> QED
    BY <1>1, <2>2 DEF TypeInv, TypeOK
<1> QED
  BY <1>1, <1>2 DEF TypeInv, TypeOK, PostsWebhook, Working, Reporting

LEMMA InitTypeInv == ASSUME Init PROVE TypeInv
  BY ConstantsAssumption DEF Init, TypeInv, TypeOK, PostsWebhook, Tasks

LEMMA NextTypeInv == ASSUME TypeInv, Next PROVE TypeInv'
<1> USE ConstantsAssumption DEF Tasks
<1>1. ASSUME NEW r \in Requests, NEW a \in SUBSET Tasks, Gate(r, a) PROVE TypeInv'
  BY <1>1 DEF Gate, Goto, Permitted, settings, rows, outside, TypeInv, TypeOK, PostsWebhook, Working
<1>2. ASSUME NEW r \in Requests, NEW t \in Tasks, AlreadyExecuted(r, t) PROVE TypeInv'
  BY <1>2, ReportTyped DEF AlreadyExecuted, settings, rows, outside, Reporting, TypeInv, TypeOK, PostsWebhook, Working
<1>3. ASSUME NEW r \in Requests, NEW t \in Tasks, BeginWebhook(r, t) PROVE TypeInv'
  BY <1>3 DEF BeginWebhook, settings, rows, outside, TypeInv, TypeOK, PostsWebhook, Working
<1>4. ASSUME NEW r \in Requests, NEW t \in Tasks, BeginEmail(r, t) PROVE TypeInv'
  BY <1>4 DEF BeginEmail, settings, rows, outside, TypeInv, TypeOK, PostsWebhook, Working
<1>5. ASSUME NEW r \in Requests, OpenFile(r) PROVE TypeInv'
  BY <1>5 DEF OpenFile, Goto, settings, rows, graph, TypeInv, TypeOK, PostsWebhook, Working
<1>6. ASSUME NEW r \in Requests, CloseFile(r) PROVE TypeInv'
  BY <1>6, ReportTyped DEF CloseFile, settings, rows, Reporting, TypeInv, TypeOK, PostsWebhook, Working
<1>7. ASSUME NEW r \in Requests, WriteFails(r) PROVE TypeInv'
  <2>1. Reporting'
    BY <1>7, ReportTyped DEF WriteFails, TypeInv
  <2>2. faults' \in 0 .. MaxFaults
    BY <1>7 DEF WriteFails, TypeInv, TypeOK
  <2>3. UNCHANGED <<settings, rows, outside, approved, todo>>
    BY <1>7 DEF WriteFails
  <2> QED
    BY <2>1, <2>2, <2>3 DEF settings, rows, outside, Reporting, TypeInv, TypeOK, PostsWebhook, Working
<1>8. ASSUME NEW r \in Requests, PostAgain(r) PROVE TypeInv'
  <2>1. Reporting'
    <3>1. CASE Report(r, task[r], "failed")
      BY <3>1, ReportTyped
    <3>2. CASE attempt' = [attempt EXCEPT ![r] = @ + 1] /\ UNCHANGED <<pc, task, result>>
      BY <3>2 DEF TypeInv, TypeOK, PostsWebhook, Working, Reporting
    <3> QED
      BY <1>8, <3>1, <3>2 DEF PostAgain
  <2>2. posted' \subseteq Webhooks /\ acknowledged' \subseteq posted'
    BY <1>8 DEF PostAgain, TypeInv, TypeOK, PostsWebhook, Working
  <2>3. UNCHANGED <<settings, faults, rows, files, mailed, approved, todo>>
    BY <1>8 DEF PostAgain
  <2> QED
    BY <2>1, <2>2, <2>3 DEF settings, rows, Reporting, TypeInv, TypeOK, PostsWebhook, Working
<1>9. ASSUME NEW r \in Requests, PostRefused(r) PROVE TypeInv'
  <2>1. Reporting'
    BY <1>9, ReportTyped DEF PostRefused
  <2>2. posted' \subseteq Webhooks /\ acknowledged' \subseteq posted'
    BY <1>9 DEF PostRefused, TypeInv, TypeOK, PostsWebhook, Working
  <2>3. UNCHANGED <<settings, faults, rows, files, mailed, approved, todo>>
    BY <1>9 DEF PostRefused
  <2> QED
    BY <2>1, <2>2, <2>3 DEF settings, rows, Reporting, TypeInv, TypeOK, PostsWebhook, Working
<1>10. ASSUME NEW r \in Requests, PostAccepted(r) PROVE TypeInv'
  <2>1. Reporting'
    BY <1>10, ReportTyped DEF PostAccepted
  <2>2. posted' \subseteq Webhooks /\ acknowledged' \subseteq posted'
    BY <1>10 DEF PostAccepted, TypeInv, TypeOK, PostsWebhook, Working
  <2>3. faults' \in 0 .. MaxFaults
    BY <1>10 DEF PostAccepted, TypeInv, TypeOK
  <2>4. UNCHANGED <<settings, rows, files, mailed, approved, todo>>
    BY <1>10 DEF PostAccepted
  <2> QED
    BY <2>1, <2>2, <2>3, <2>4 DEF settings, rows, Reporting, TypeInv, TypeOK, PostsWebhook, Working
<1>11. ASSUME NEW r \in Requests, NoHost(r) PROVE TypeInv'
  BY <1>11 DEF NoHost, Goto, settings, rows, outside, graph, TypeInv, TypeOK, PostsWebhook, Working
<1>19. ASSUME NEW r \in Requests, ReadUrl(r) PROVE TypeInv'
  BY <1>19 DEF ReadUrl, settings, rows, outside, TypeInv, TypeOK, PostsWebhook, Working
<1>20. ASSUME NEW r \in Requests, NoConnector(r) PROVE TypeInv'
  <2>1. Reporting'
    <3>1. CASE \E outcome \in {"executed", "failed"} : Report(r, task[r], outcome)
      BY <3>1, ReportTyped
    <3>2. CASE pc' = [pc EXCEPT ![r] = "write"] /\ UNCHANGED <<task, attempt, result>>
      BY <3>2 DEF TypeInv, TypeOK, PostsWebhook, Working, Reporting
    <3> QED
      BY <1>20, <3>1, <3>2 DEF NoConnector
  <2>2. UNCHANGED <<settings, faults, rows, outside, approved, todo>>
    BY <1>20 DEF NoConnector
  <2> QED
    BY <2>1, <2>2 DEF settings, rows, outside, Reporting, TypeInv, TypeOK, PostsWebhook, Working
<1>12. ASSUME NEW r \in Requests, Send(r) PROVE TypeInv'
  <2>1. Reporting'
    BY <1>12, ReportTyped DEF Send
  <2>2. mailed' \in [Tasks -> Nat]
    BY <1>12 DEF Send, TypeInv, TypeOK
  <2>3. UNCHANGED <<settings, faults, rows, files, posted, acknowledged, approved, todo>>
    BY <1>12 DEF Send
  <2> QED
    BY <2>1, <2>2, <2>3 DEF settings, rows, Reporting, TypeInv, TypeOK, PostsWebhook, Working
<1>13. ASSUME NEW r \in Requests, MarkApproved(r) PROVE TypeInv'
  BY <1>13 DEF MarkApproved, Goto, Overwrite, settings, outside, graph, TypeInv, TypeOK, PostsWebhook, Working
<1>14. ASSUME NEW r \in Requests, MarkExecuted(r) PROVE TypeInv'
  BY <1>14 DEF MarkExecuted, Goto, Overwrite, settings, outside, graph, TypeInv, TypeOK, PostsWebhook, Working
<1>15. ASSUME NEW r \in Requests, MarkSkipped(r) PROVE TypeInv'
  BY <1>15 DEF MarkSkipped, Goto, Overwrite, settings, outside, graph, TypeInv, TypeOK, PostsWebhook, Working
<1>16. ASSUME NEW r \in Requests, MarkFailed(r) PROVE TypeInv'
  BY <1>16 DEF MarkFailed, Goto, Overwrite, settings, outside, graph, TypeInv, TypeOK, PostsWebhook, Working
<1>17. ASSUME Reconfigure PROVE TypeInv'
  <2>1. live' \in BOOLEAN
    BY <1>17, Zenon DEF Reconfigure, TypeInv, TypeOK
  <2>2. connected' \subseteq Tasks
    BY <1>17 DEF Reconfigure, TypeInv, TypeOK
  <2>3. changes' \in 0 .. MaxChanges
    BY <1>17 DEF Reconfigure, TypeInv, TypeOK
  <2>4. UNCHANGED <<faults, rows, outside, pc, approved, graph>>
    BY <1>17 DEF Reconfigure
  <2> QED
    BY <2>1, <2>2, <2>3, <2>4 DEF rows, outside, graph, TypeInv, TypeOK, PostsWebhook, Working
<1>18. ASSUME Crash PROVE TypeInv'
  BY <1>18 DEF Crash, settings, rows, outside, TypeInv, TypeOK, PostsWebhook, Working
<1> QED
  BY <1>1, <1>2, <1>3, <1>4, <1>5, <1>6, <1>7, <1>8, <1>9, <1>10, <1>11, <1>12, <1>13, <1>14, <1>15, <1>16, <1>17, <1>18, <1>19, <1>20
  DEF Next, Execute, Persist
-----------------------------------------------------------------------------
\* Whatever a request is about to do, does or reports, it was permitted.
OnlyPermitted ==
  \A r \in Requests :
    /\ todo[r] \subseteq Permitted(approved[r])
    /\ pc[r] \in Working => task[r] \in Permitted(approved[r])
    /\ \A t \in Tasks : result[r][t] = "executed" => t \in Permitted(approved[r])

\* What a request approves is settled when it begins, and on record before
\* the second commit.
ApprovalsFixed ==
  \A r \in Requests :
    /\ pc[r] = "idle" => approved[r] = {}
    /\ pc[r] \in {"executed", "skipped", "failed"} => \A t \in approved[r] : approved_at[t]

GateInv ==
  /\ TypeInv
  /\ OnlyPermitted
  /\ ApprovalsFixed
  /\ EffectsApproved
  /\ ApprovalOnRecord

LEMMA InitGateInv == ASSUME Init PROVE GateInv
<1>1. TypeInv
  BY InitTypeInv
<1>2. OnlyPermitted
  BY DEF Init, OnlyPermitted, Working
<1>3. ApprovalsFixed
  BY DEF Init, ApprovalsFixed
<1>4. EffectsApproved /\ ApprovalOnRecord
  BY ConstantsAssumption DEF Init, EffectsApproved, ApprovalOnRecord, Touched, Tasks
<1> QED
  BY <1>1, <1>2, <1>3, <1>4 DEF GateInv

\* The executor leaves the rows and the approvals alone, and stays in its
\* own part of the request.
LEMMA ExecuteStays ==
  ASSUME TypeInv, NEW r \in Requests, Execute(r)
  PROVE  /\ UNCHANGED <<rows, approved>>
         /\ \A q \in Requests \ {r} : /\ pc'[q] = pc[q]
                                      /\ task'[q] = task[q]
                                      /\ result'[q] = result[q]
         /\ pc'[r] = "next" \/ pc'[r] \in Working
         /\ \A q \in Requests : todo'[q] \subseteq todo[q]
<1> DEFINE Goal ==
         /\ UNCHANGED <<rows, approved>>
         /\ \A q \in Requests \ {r} : /\ pc'[q] = pc[q]
                                      /\ task'[q] = task[q]
                                      /\ result'[q] = result[q]
         /\ pc'[r] = "next" \/ pc'[r] \in Working
         /\ \A q \in Requests : todo'[q] \subseteq todo[q]
<1>1. ASSUME NEW t \in Tasks, AlreadyExecuted(r, t) PROVE Goal
  BY <1>1 DEF AlreadyExecuted, Report, TypeInv, TypeOK, Working
<1>2. ASSUME NEW t \in Tasks, BeginWebhook(r, t) PROVE Goal
  BY <1>2 DEF BeginWebhook, Report, TypeInv, TypeOK, Working
<1>3. ASSUME NEW t \in Tasks, BeginEmail(r, t) PROVE Goal
  BY <1>3 DEF BeginEmail, TypeInv, TypeOK, Working
<1>4. ASSUME OpenFile(r) PROVE Goal
  BY <1>4 DEF OpenFile, Goto, graph, TypeInv, TypeOK, Working
<1>5. ASSUME CloseFile(r) PROVE Goal
  BY <1>5 DEF CloseFile, Report, TypeInv, TypeOK, Working
<1>6. ASSUME WriteFails(r) PROVE Goal
  BY <1>6 DEF WriteFails, Report, TypeInv, TypeOK, Working
<1>7. ASSUME PostAgain(r) PROVE Goal
  BY <1>7 DEF PostAgain, Report, TypeInv, TypeOK, Working
<1>8. ASSUME PostRefused(r) PROVE Goal
  BY <1>8 DEF PostRefused, Report, TypeInv, TypeOK, Working
<1>9. ASSUME PostAccepted(r) PROVE Goal
  BY <1>9 DEF PostAccepted, Report, TypeInv, TypeOK, Working
<1>10. ASSUME NoHost(r) PROVE Goal
  BY <1>10 DEF NoHost, Goto, graph, TypeInv, TypeOK, Working
<1>12. ASSUME ReadUrl(r) PROVE Goal
  BY <1>12 DEF ReadUrl, TypeInv, TypeOK, Working
<1>13. ASSUME NoConnector(r) PROVE Goal
  BY <1>13 DEF NoConnector, Report, TypeInv, TypeOK, Working
<1>11. ASSUME Send(r) PROVE Goal
  BY <1>11 DEF Send, Report, TypeInv, TypeOK, Working
<1> HIDE DEF Goal
<1>20. Goal
  BY <1>1, <1>2, <1>3, <1>4, <1>5, <1>6, <1>7, <1>8, <1>9, <1>10, <1>11, <1>12, <1>13
  DEF Execute
<1> QED
  BY <1>20 DEF Goal

\* What the executor reaches outside, it was permitted to.
LEMMA ExecuteTouches ==
  ASSUME TypeInv, OnlyPermitted, NEW r \in Requests, Execute(r),
         NEW u \in Tasks, Touched(u)'
  PROVE  Touched(u) \/ u \in Permitted(approved[r])
<1> USE DEF TypeInv, TypeOK, Touched, Working
<1>1. ASSUME NEW t \in Tasks, AlreadyExecuted(r, t) PROVE Touched(u) \/ u \in Permitted(approved[r])
  BY <1>1 DEF AlreadyExecuted, outside
<1>2. ASSUME NEW t \in Tasks, BeginWebhook(r, t) PROVE Touched(u) \/ u \in Permitted(approved[r])
  BY <1>2 DEF BeginWebhook, outside
<1>3. ASSUME NEW t \in Tasks, BeginEmail(r, t) PROVE Touched(u) \/ u \in Permitted(approved[r])
  BY <1>3 DEF BeginEmail, outside
<1>4. ASSUME OpenFile(r) PROVE Touched(u) \/ u \in Permitted(approved[r])
  BY <1>4 DEF OpenFile, Goto, OnlyPermitted
<1>5. ASSUME CloseFile(r) PROVE Touched(u) \/ u \in Permitted(approved[r])
  BY <1>5 DEF CloseFile, OnlyPermitted
<1>6. ASSUME WriteFails(r) PROVE Touched(u) \/ u \in Permitted(approved[r])
  BY <1>6 DEF WriteFails, outside
<1>7. ASSUME PostAgain(r) PROVE Touched(u) \/ u \in Permitted(approved[r])
  BY <1>7 DEF PostAgain, OnlyPermitted
<1>8. ASSUME PostRefused(r) PROVE Touched(u) \/ u \in Permitted(approved[r])
  BY <1>8 DEF PostRefused, OnlyPermitted
<1>9. ASSUME PostAccepted(r) PROVE Touched(u) \/ u \in Permitted(approved[r])
  BY <1>9 DEF PostAccepted, OnlyPermitted
<1>10. ASSUME NoHost(r) PROVE Touched(u) \/ u \in Permitted(approved[r])
  BY <1>10 DEF NoHost, outside
<1>12. ASSUME ReadUrl(r) PROVE Touched(u) \/ u \in Permitted(approved[r])
  BY <1>12 DEF ReadUrl, outside
<1>13. ASSUME NoConnector(r) PROVE Touched(u) \/ u \in Permitted(approved[r])
  BY <1>13 DEF NoConnector, outside
<1>11. ASSUME Send(r) PROVE Touched(u) \/ u \in Permitted(approved[r])
  BY <1>11 DEF Send, OnlyPermitted
<1> QED
  BY <1>1, <1>2, <1>3, <1>4, <1>5, <1>6, <1>7, <1>8, <1>9, <1>10, <1>11, <1>12, <1>13
  DEF Execute

\* Its part of OnlyPermitted for the request itself: the task at hand and
\* the results.
LEMMA ExecutePermitted ==
  ASSUME TypeInv, OnlyPermitted, NEW r \in Requests, Execute(r)
  PROVE  /\ pc'[r] \in Working => task'[r] \in Permitted(approved[r])
         /\ \A u \in Tasks : result'[r][u] = "executed" => u \in Permitted(approved[r])
<1> DEFINE Goal ==
         /\ pc'[r] \in Working => task'[r] \in Permitted(approved[r])
         /\ \A u \in Tasks : result'[r][u] = "executed" => u \in Permitted(approved[r])
<1> USE DEF TypeInv, TypeOK, OnlyPermitted, Working
<1>1. ASSUME NEW t \in Tasks, AlreadyExecuted(r, t) PROVE Goal
  BY <1>1 DEF AlreadyExecuted, Report
<1>2. ASSUME NEW t \in Tasks, BeginWebhook(r, t) PROVE Goal
  BY <1>2 DEF BeginWebhook, Report
<1>3. ASSUME NEW t \in Tasks, BeginEmail(r, t) PROVE Goal
  BY <1>3 DEF BeginEmail
<1>4. ASSUME OpenFile(r) PROVE Goal
  BY <1>4 DEF OpenFile, Goto, graph
<1>5. ASSUME CloseFile(r) PROVE Goal
  BY <1>5 DEF CloseFile, Report
<1>6. ASSUME WriteFails(r) PROVE Goal
  BY <1>6 DEF WriteFails, Report
<1>7. ASSUME PostAgain(r) PROVE Goal
  BY <1>7 DEF PostAgain, Report
<1>8. ASSUME PostRefused(r) PROVE Goal
  BY <1>8 DEF PostRefused, Report
<1>9. ASSUME PostAccepted(r) PROVE Goal
  BY <1>9 DEF PostAccepted, Report
<1>10. ASSUME NoHost(r) PROVE Goal
  BY <1>10 DEF NoHost, Goto, graph
<1>12. ASSUME ReadUrl(r) PROVE Goal
  BY <1>12 DEF ReadUrl
<1>13. ASSUME NoConnector(r) PROVE Goal
  BY <1>13 DEF NoConnector, Report
<1>11. ASSUME Send(r) PROVE Goal
  BY <1>11 DEF Send, Report
<1> HIDE DEF Goal
<1>20. Goal
  BY <1>1, <1>2, <1>3, <1>4, <1>5, <1>6, <1>7, <1>8, <1>9, <1>10, <1>11, <1>12, <1>13
  DEF Execute
<1> QED
  BY <1>20 DEF Goal

LEMMA ExecuteKeepsGate ==
  ASSUME GateInv, TypeInv', NEW r \in Requests, Execute(r)
  PROVE  GateInv'
<1> USE DEF GateInv
<1>1. OnlyPermitted'
  BY ExecuteStays, ExecutePermitted DEF OnlyPermitted, Permitted
<1>2. ApprovalsFixed'
  BY ExecuteStays DEF ApprovalsFixed, rows, Working
<1>3. EffectsApproved'
  <2> SUFFICES ASSUME NEW t \in NeedsApproval, Touched(t)'
               PROVE  \E q \in Requests : t \in approved'[q]
    BY DEF EffectsApproved
  <2>1. Touched(t) \/ t \in Permitted(approved[r])
    BY ExecuteTouches, ConstantsAssumption
  <2> QED
    BY <2>1, ExecuteStays DEF EffectsApproved, Permitted
<1>4. ApprovalOnRecord'
  BY ExecuteStays DEF ApprovalOnRecord, rows
<1> QED
  BY <1>1, <1>2, <1>3, <1>4

LEMMA GateKeepsGate ==
  ASSUME GateInv, TypeInv', NEW r \in Requests, NEW a \in SUBSET Tasks, Gate(r, a)
  PROVE  GateInv'
<1> USE DEF GateInv, Gate, Goto, TypeInv, TypeOK
<1>1. OnlyPermitted'
  BY DEF OnlyPermitted, Permitted, Working
<1>2. ApprovalsFixed'
  BY DEF ApprovalsFixed, rows
<1>3. EffectsApproved'
  <2>1. \A q \in Requests : approved[q] \subseteq approved'[q]
    BY DEF ApprovalsFixed
  <2>2. \A t \in Tasks : Touched(t)' => Touched(t)
    BY DEF Touched, outside
  <2> QED
    BY <2>1, <2>2, ConstantsAssumption DEF EffectsApproved
<1>4. ApprovalOnRecord'
  BY DEF ApprovalOnRecord, rows
<1> QED
  BY <1>1, <1>2, <1>3, <1>4

\* The four commits.
LEMMA PersistKeepsGate ==
  ASSUME GateInv, TypeInv', NEW r \in Requests, Persist(r)
  PROVE  GateInv'
<1> USE DEF GateInv, Goto, TypeInv, TypeOK
<1>1. /\ UNCHANGED <<outside, approved, graph>>
      /\ \A q \in Requests \ {r} : pc'[q] = pc[q]
      /\ pc[r] # "idle"
      /\ pc'[r] \in {"executed", "skipped", "failed", "answered"}
  BY DEF Persist, MarkApproved, MarkExecuted, MarkSkipped, MarkFailed
<1>2. OnlyPermitted'
  BY <1>1 DEF OnlyPermitted, Permitted, Working, graph
<1>3. EffectsApproved'
  BY <1>1 DEF EffectsApproved, Touched, outside
<1>4. \A t \in Tasks : approved_at[t] => approved_at'[t]
  BY DEF Persist, MarkApproved, MarkExecuted, MarkSkipped, MarkFailed
<1>5. ApprovalsFixed'
  <2>1. \A t \in approved[r] : approved_at'[t]
    <3>1. CASE MarkApproved(r)
      BY <3>1 DEF MarkApproved
    <3>2. CASE pc[r] \in {"executed", "skipped", "failed"}
      BY <3>2, <1>4 DEF ApprovalsFixed
    <3> QED
      BY <3>1, <3>2 DEF Persist, MarkExecuted, MarkSkipped, MarkFailed
  <2> QED
    BY <1>1, <1>4, <2>1 DEF ApprovalsFixed
<1>6. ApprovalOnRecord'
  <2> SUFFICES ASSUME NEW t \in NeedsApproval, status'[t] = "executed"
               PROVE  approved_at'[t]
    BY DEF ApprovalOnRecord
  <2>0. t \in Tasks
    BY ConstantsAssumption
  <2>1. CASE status[t] = "executed"
    BY <2>0, <2>1, <1>4 DEF ApprovalOnRecord
  <2>2. CASE status[t] # "executed"
    <3>1. MarkExecuted(r) /\ t \in Reported(r, "executed")
      BY <2>0, <2>2 DEF Persist, MarkApproved, MarkExecuted, MarkSkipped, MarkFailed, Overwrite
    <3>2. t \in approved[r]
      BY <2>0, <3>1 DEF OnlyPermitted, Permitted, Reported
    <3> QED
      BY <2>0, <3>1, <3>2, <1>4 DEF MarkExecuted, ApprovalsFixed
  <2> QED
    BY <2>1, <2>2
<1> QED
  BY <1>2, <1>3, <1>5, <1>6

LEMMA NextGateInv == ASSUME GateInv, Next PROVE GateInv'
<1>1. TypeInv'
  BY NextTypeInv DEF GateInv
<1>2. ASSUME Reconfigure PROVE GateInv'
  BY <1>1, <1>2 DEF Reconfigure, GateInv, OnlyPermitted, Permitted, ApprovalsFixed,
     EffectsApproved, Touched, ApprovalOnRecord, rows, outside, graph
<1>3. ASSUME Crash PROVE GateInv'
  <2>1. OnlyPermitted' /\ ApprovalsFixed'
    BY <1>3 DEF Crash, GateInv, TypeInv, TypeOK, OnlyPermitted, Permitted, Working, ApprovalsFixed,
       rows
  <2>2. EffectsApproved' /\ ApprovalOnRecord'
    BY <1>3 DEF Crash, GateInv, EffectsApproved, Touched, ApprovalOnRecord, rows, outside
  <2> QED
    BY <1>1, <2>1, <2>2 DEF GateInv
<1> QED
  BY <1>1, <1>2, <1>3, GateKeepsGate, ExecuteKeepsGate, PersistKeepsGate DEF Next

LEMMA StutterGateInv == ASSUME GateInv, UNCHANGED vars PROVE GateInv'
<1> USE DEF vars, settings, rows, outside, graph
<1>1. TypeInv'
  BY DEF GateInv, TypeInv, TypeOK, PostsWebhook, Working
<1>2. OnlyPermitted' /\ ApprovalsFixed'
  BY DEF GateInv, OnlyPermitted, Permitted, ApprovalsFixed
<1>3. EffectsApproved' /\ ApprovalOnRecord'
  BY DEF GateInv, EffectsApproved, Touched, ApprovalOnRecord
<1> QED
  BY <1>1, <1>2, <1>3 DEF GateInv

\* GateInv is inductive: the invariant the theorems below follow from.
THEOREM GateInvariant == Spec => []GateInv
<1>1. Init => GateInv
  BY InitGateInv
<1>2. GateInv /\ [Next]_vars => GateInv'
  BY NextGateInv, StutterGateInv
<1> QED
  BY <1>1, <1>2, PTL DEF Spec

\* Every variable of Cleanup keeps its type.
THEOREM CleanupTypeCorrect == Spec => []TypeOK
<1>1. GateInv => TypeOK
  BY DEF GateInv, TypeInv
<1> QED
  BY <1>1, GateInvariant, PTL

\* approval_gate: nothing leaves the system for a task that needs approval
\* unless some request approved the task.
THEOREM NothingWithoutApproval == Spec => []EffectsApproved
<1>1. GateInv => EffectsApproved
  BY DEF GateInv
<1> QED
  BY <1>1, GateInvariant, PTL

\* _persist_cleanup_result: a task is never on record as executed before its
\* approval is, in whichever commit the process dies.
THEOREM ApprovalIsRecorded == Spec => []ApprovalOnRecord
<1>1. GateInv => ApprovalOnRecord
  BY DEF GateInv
<1> QED
  BY <1>1, GateInvariant, PTL
-----------------------------------------------------------------------------
\* Something of the task has left the request: an answer, or a file.
There(t) == t \in acknowledged \/ files[t] # "absent"

\* A file is truncated only while somebody writes it, or after a fault.
PartialsWritten ==
  \A t \in Tasks : files[t] = "partial" =>
    faults > 0 \/ \E r \in Requests : pc[r] = "writing" /\ task[r] = t

\* A request that has written a draft and not reported it yet.
Drafted(r) == pc[r] = "send" \/ (pc[r] = "live" /\ task[r] \in Emails)

\* What counts as executed, for a request or on record, is there; before its
\* mail is sent a draft is there.
RealInv ==
  /\ PartialsWritten
  /\ \A t \in Tasks : status[t] = "executed" => There(t)
  /\ \A r \in Requests :
       /\ Drafted(r) => There(task[r])
       /\ \A t \in Tasks : result[r][t] = "executed" => There(t)

LEMMA RealFollows == ASSUME TypeInv, RealInv PROVE ExecutedIsBacked
BY DEF TypeInv, TypeOK, RealInv, PartialsWritten, There, ExecutedIsBacked

LEMMA InitReal == ASSUME Init PROVE RealInv
BY DEF Init, RealInv, PartialsWritten, Drafted

\* What is there stays.
LEMMA ThereStays ==
  ASSUME TypeInv, NEW r \in Requests, Execute(r), NEW t \in Tasks, There(t)
  PROVE  There(t)'
<1> USE DEF TypeInv, TypeOK, There
<1>1. ASSUME NEW u \in Tasks, AlreadyExecuted(r, u) \/ BeginWebhook(r, u) \/ BeginEmail(r, u)
      PROVE  There(t)'
  BY <1>1 DEF AlreadyExecuted, BeginWebhook, BeginEmail, outside
<1>2. CASE OpenFile(r)
  BY <1>2 DEF OpenFile
<1>3. CASE CloseFile(r)
  BY <1>3 DEF CloseFile
<1>4. CASE WriteFails(r) \/ PostRefused(r) \/ NoHost(r)
  BY <1>4 DEF WriteFails, PostRefused, NoHost, outside
<1>5. CASE PostAgain(r) \/ PostAccepted(r)
  BY <1>5 DEF PostAgain, PostAccepted
<1>7. CASE ReadUrl(r) \/ NoConnector(r)
  BY <1>7 DEF ReadUrl, NoConnector, outside
<1>6. CASE Send(r)
  BY <1>6 DEF Send
<1> QED
  BY <1>1, <1>2, <1>3, <1>4, <1>5, <1>6, <1>7 DEF Execute

\* A step of the executor either is that of a writer or leaves the files.
LEMMA ExecutePartials ==
  ASSUME TypeInv, PartialsWritten, NEW r \in Requests, Execute(r)
  PROVE  PartialsWritten'
<1> USE DEF TypeInv, TypeOK, PartialsWritten
<1>0. \A q \in Requests \ {r} : pc'[q] = pc[q] /\ task'[q] = task[q]
  BY ExecuteStays
<1>1. ASSUME NEW t \in Tasks, AlreadyExecuted(r, t) \/ BeginWebhook(r, t) \/ BeginEmail(r, t)
      PROVE  PartialsWritten'
  <2>1. pc[r] = "next" /\ UNCHANGED <<files, faults>>
    BY <1>1 DEF AlreadyExecuted, BeginWebhook, BeginEmail, outside
  <2> QED
    BY <1>0, <2>1
<1>2. CASE OpenFile(r)
  <2>1. /\ files' = [files EXCEPT ![task[r]] = "partial"] /\ UNCHANGED <<faults, task>>
        /\ pc'[r] = "writing" /\ pc[r] = "write"
    BY <1>2 DEF OpenFile, Goto, graph
  <2> QED
    BY <1>0, <2>1
<1>3. CASE CloseFile(r)
  <2>1. /\ files' = [files EXCEPT ![task[r]] = "complete"] /\ UNCHANGED faults
    BY <1>3 DEF CloseFile
  <2> QED
    BY <1>0, <2>1
<1>4. CASE WriteFails(r)
  BY <1>4 DEF WriteFails
<1>5. CASE PostAgain(r) \/ PostRefused(r) \/ PostAccepted(r) \/ NoHost(r) \/ Send(r)
          \/ ReadUrl(r) \/ NoConnector(r)
  <2>1. pc[r] \in {"post", "send", "url", "live"} /\ files' = files
    BY <1>5 DEF PostAgain, PostRefused, PostAccepted, NoHost, Send, ReadUrl, NoConnector, Goto,
       outside
  <2>2. faults' \in {faults, faults + 1}
    BY <1>5 DEF PostAgain, PostRefused, PostAccepted, NoHost, Send, ReadUrl, NoConnector
  <2> QED
    <3>1. ASSUME NEW t \in Tasks, NEW q \in Requests, pc[q] = "writing" /\ task[q] = t
          PROVE  pc'[q] = "writing" /\ task'[q] = t
      BY <1>0, <2>1, <3>1
    <3>2. faults > 0 => faults' > 0
      <4>1. faults \in Int
        OBVIOUS
      <4> QED
        BY <2>2, <4>1
    <3> QED
      BY <2>1, <3>1, <3>2
<1> QED
  BY <1>1, <1>2, <1>3, <1>4, <1>5 DEF Execute

\* Each way the executor reports an execution, and the way to the mail.
LEMMA ExecuteReal ==
  ASSUME TypeInv, OnlyPermitted, RealInv, NEW r \in Requests, Execute(r)
  PROVE  /\ Drafted(r)' => There(task[r])' /\ task'[r] \in Tasks
         /\ \A t \in Tasks : result'[r][t] = "executed" => There(t)'
<1> DEFINE Goal ==
         /\ Drafted(r)' => There(task[r])' /\ task'[r] \in Tasks
         /\ \A t \in Tasks : result'[r][t] = "executed" => There(t)'
<1>0. \A t \in Tasks : result[r][t] = "executed" => There(t)'
  BY ThereStays DEF RealInv
<1>w. PICK w : w = task[r]
  OBVIOUS
<1>t. pc[r] \in Working => w \in Tasks
  BY <1>w DEF OnlyPermitted, Permitted
<1>c. ASSUME NEW t \in Tasks, NEW outcome, Report(r, t, outcome),
             outcome = "executed" => There(t)'
      PROVE  Goal
  BY <1>0, <1>c DEF Report, Drafted, TypeInv, TypeOK
<1>k. ASSUME UNCHANGED result, ~Drafted(r)' PROVE Goal
  BY <1>0, <1>k
<1>1. ASSUME NEW t \in Tasks, AlreadyExecuted(r, t) PROVE Goal
  <2>1. There(t)'
    BY <1>1 DEF AlreadyExecuted, There, outside
  <2> QED
    BY <1>c, <1>1, <2>1 DEF AlreadyExecuted
<1>2. ASSUME NEW t \in Tasks, BeginWebhook(r, t) \/ BeginEmail(r, t) PROVE Goal
  BY <1>k, <1>2 DEF BeginWebhook, BeginEmail, Drafted, TypeInv, TypeOK
<1>3. ASSUME ReadUrl(r) PROVE Goal
  <2>1. UNCHANGED <<task, result>> /\ task[r] \notin Emails /\ pc'[r] \in {"post", "live"}
    BY <1>3, ConstantsAssumption DEF ReadUrl, TypeInv, TypeOK, PostsWebhook
  <2> QED
    BY <1>k, <2>1 DEF Drafted
<1>4. ASSUME OpenFile(r) PROVE Goal
  BY <1>k, <1>4 DEF OpenFile, Goto, graph, Drafted, TypeInv, TypeOK
<1>5. ASSUME CloseFile(r) PROVE Goal
  <2>1. There(w)' /\ pc[r] = "writing" /\ w \in Tasks
    BY <1>t, <1>w, <1>5 DEF CloseFile, There, TypeInv, TypeOK, Working
  <2> QED
    <3>1. CASE Report(r, w, "executed")
      BY <1>c, <2>1, <3>1
    <3>2. CASE UNCHANGED <<task, result>>
      BY <1>0, <1>w, <2>1, <3>2
    <3> QED
      BY <1>w, <1>5, <3>1, <3>2 DEF CloseFile
<1>6. ASSUME WriteFails(r) \/ PostRefused(r) PROVE Goal
  BY <1>c, <1>t, <1>w, <1>6 DEF WriteFails, PostRefused, Working
<1>7. ASSUME PostAgain(r) PROVE Goal
  <2>0. pc[r] = "post" /\ w \in Tasks
    BY <1>t, <1>7 DEF PostAgain, Working
  <2>1. CASE Report(r, task[r], "failed")
    BY <1>c, <1>w, <2>0, <2>1
  <2>2. CASE UNCHANGED <<pc, task, result>>
    BY <1>k, <2>0, <2>2 DEF Drafted
  <2> QED
    BY <1>7, <2>1, <2>2 DEF PostAgain
<1>8. ASSUME PostAccepted(r) PROVE Goal
  <2>1. There(w)'
    BY <1>w, <1>8 DEF PostAccepted, There
  <2> QED
    BY <1>c, <1>t, <1>w, <1>8, <2>1 DEF PostAccepted, Working
<1>9. ASSUME NoHost(r) \/ Send(r) \/ NoConnector(r), Drafted(r) PROVE Goal
  <2>1. There(w) /\ w \in Tasks
    BY <1>t, <1>w, <1>9 DEF Drafted, RealInv, Working
  <2>2. There(w)'
    BY <2>1, ThereStays
  <2>3. CASE \E outcome \in {"executed", "failed"} : Report(r, w, outcome)
    BY <1>c, <2>1, <2>2, <2>3
  <2>4. CASE UNCHANGED <<task, result>>
    BY <1>0, <1>w, <2>1, <2>2, <2>4
  <2> QED
    BY <1>w, <1>9, <2>3, <2>4 DEF NoHost, Send, NoConnector, graph
<1>10. ASSUME NoConnector(r), ~Drafted(r) PROVE Goal
  <2>1. pc[r] = "live" /\ w \in Tasks /\ w \notin Emails
    BY <1>t, <1>w, <1>10 DEF NoConnector, Drafted, Working
  <2>2. CASE Report(r, w, "failed")
    BY <1>c, <2>1, <2>2
  <2>3. CASE pc' = [pc EXCEPT ![r] = "write"] /\ UNCHANGED result
    BY <1>k, <2>3 DEF Drafted, TypeInv, TypeOK
  <2> QED
    BY <1>w, <1>10, <2>1, <2>2, <2>3 DEF NoConnector
<1>11. NoHost(r) \/ Send(r) => Drafted(r)
  BY DEF NoHost, Send, Goto, Drafted
<1> HIDE DEF Goal
<1>20. Goal
  BY <1>1, <1>2, <1>3, <1>4, <1>5, <1>6, <1>7, <1>8, <1>9, <1>10, <1>11 DEF Execute
<1> QED
  BY <1>20 DEF Goal

\* What ends a request's own part, for all tasks and requests.
LEMMA NextReal == ASSUME GateInv, RealInv, Next PROVE RealInv'
<1> USE DEF GateInv, TypeInv, TypeOK
<1>1. ASSUME NEW r \in Requests, Execute(r) PROVE RealInv'
  <2>1. PartialsWritten'
    BY <1>1, ExecutePartials DEF RealInv
  <2>2. \A t \in Tasks : status'[t] = "executed" => There(t)'
    BY <1>1, ThereStays, ExecuteStays DEF RealInv, rows
  <2>3. /\ Drafted(r)' => There(task[r])'
        /\ \A t \in Tasks : result'[r][t] = "executed" => There(t)'
    BY <1>1, ExecuteReal DEF RealInv
  <2>4. ASSUME NEW q \in Requests \ {r}
        PROVE  /\ Drafted(q)' => There(task[q])'
               /\ \A t \in Tasks : result'[q][t] = "executed" => There(t)'
    <3>1. pc'[q] = pc[q] /\ task'[q] = task[q] /\ result'[q] = result[q]
      BY <1>1, ExecuteStays
    <3>2. Drafted(q) => task[q] \in Tasks /\ There(task[q])
      BY DEF RealInv, OnlyPermitted, Permitted, Drafted, Working
    <3>3. \A t \in Tasks : There(t) => There(t)'
      BY <1>1, ThereStays
    <3>4. Drafted(q)' => There(task[q])'
      BY <3>1, <3>2, <3>3 DEF There, Drafted
    <3> QED
      BY <3>1, <3>3, <3>4 DEF RealInv
  <2> QED
    BY <2>1, <2>2, <2>3, <2>4 DEF RealInv
<1>2. ASSUME NEW r \in Requests, NEW a \in SUBSET Tasks, Gate(r, a) PROVE RealInv'
  <2>1. /\ UNCHANGED <<files, acknowledged, faults, status, task>>
        /\ pc[r] = "idle" /\ pc' = [pc EXCEPT ![r] = "next"]
        /\ result' = [result EXCEPT ![r] =
             [t \in Tasks |-> IF t \in Permitted(a) THEN "none" ELSE "skipped"]]
    BY <1>2 DEF Gate, Goto, outside, rows
  <2>2. PartialsWritten'
    BY <2>1 DEF RealInv, PartialsWritten
  <2> QED
    BY <2>1, <2>2 DEF RealInv, There, Drafted
<1>3. ASSUME NEW r \in Requests, Persist(r) PROVE RealInv'
  <2>1. /\ UNCHANGED <<files, acknowledged, faults, task, result>>
        /\ pc[r] \in {"next", "executed", "skipped", "failed"}
        /\ pc'[r] \in {"executed", "skipped", "failed", "answered"}
        /\ \A q \in Requests \ {r} : pc'[q] = pc[q]
        /\ \A t \in Tasks : status'[t] = "executed" =>
             status[t] = "executed" \/ result[r][t] = "executed"
    BY <1>3 DEF Persist, MarkApproved, MarkExecuted, MarkSkipped, MarkFailed, Goto,
       Overwrite, Reported, outside, graph
  <2>2. PartialsWritten'
    <3>1. \A q \in Requests : pc[q] = "writing" => pc'[q] = "writing" /\ task'[q] = task[q]
      BY <2>1
    <3>2. PartialsWritten
      BY DEF RealInv
    <3> QED
      BY <2>1, <3>1, <3>2 DEF PartialsWritten
  <2>3. \A t \in Tasks : There(t)' <=> There(t)
    BY <2>1 DEF There
  <2>4. \A q \in Requests : Drafted(q)' => Drafted(q)
    BY <2>1 DEF Drafted
  <2>5. \A q \in Requests : Drafted(q)' => There(task[q])'
    BY <2>1, <2>4 DEF RealInv, There
  <2>6. \A t \in Tasks : status'[t] = "executed" => There(t)'
    BY <2>1, <2>3 DEF RealInv
  <2>7. \A q \in Requests, t \in Tasks : result'[q][t] = "executed" => There(t)'
    BY <2>1, <2>3 DEF RealInv
  <2> QED
    BY <2>2, <2>5, <2>6, <2>7 DEF RealInv
<1>4. CASE Reconfigure
  BY <1>4 DEF Reconfigure, RealInv, PartialsWritten, There, Drafted, rows, outside, graph
<1>5. CASE Crash
  <2>1. UNCHANGED <<files, acknowledged, status, result>> /\ faults' = faults + 1
    BY <1>5 DEF Crash, outside, rows
  <2>2. \A q \in Requests : ~Drafted(q)'
    BY <1>5 DEF Crash, Drafted
  <2>3. PartialsWritten'
    BY <2>1 DEF PartialsWritten
  <2> QED
    BY <2>1, <2>2, <2>3 DEF RealInv, There
<1> QED
  BY <1>1, <1>2, <1>3, <1>4, <1>5 DEF Next

LEMMA StutterReal == ASSUME RealInv, UNCHANGED vars PROVE RealInv'
BY DEF vars, settings, rows, outside, graph, RealInv, PartialsWritten, There, Drafted

\* _handle_* and _persist_cleanup_result: what is on record as executed was
\* answered by its webhook with a status below 400, or is on the disk,
\* truncated only by a fault or for as long as somebody writes it.
THEOREM ExecutedHasBacking == Spec => []ExecutedIsBacked
<1>1. Init => RealInv
  BY InitReal
<1>2. GateInv /\ RealInv /\ [Next]_vars => RealInv'
  BY NextReal, StutterReal
<1>3. GateInv /\ RealInv => ExecutedIsBacked
  BY RealFollows DEF GateInv
<1> QED
  BY <1>1, <1>2, <1>3, GateInvariant, PTL DEF Spec

-----------------------------------------------------------------------------
\* The requests that may still send the mail of a task, and those that were
\* permitted to.
Pending(t) == {r \in Requests : t \in todo[r] \/ task[r] = t}
Askers(t)  == {r \in Requests : pc[r] # "idle" /\ t \in Permitted(approved[r])}

\* Every mail that is out has used up a request of its own, and a task that
\* is being executed is not executed again by the same request.
MailInv ==
  /\ \A t \in Tasks : mailed[t] + Cardinality(Pending(t)) <= Cardinality(Askers(t))
  /\ \A r \in Requests :
       /\ task[r] \notin todo[r]
       /\ pc[r] = "idle" => todo[r] = {} /\ task[r] = NoTask

LEMMA SetsFinite ==
  ASSUME NEW t
  PROVE  /\ IsFiniteSet(Pending(t)) /\ IsFiniteSet(Askers(t))
         /\ Cardinality(Pending(t)) \in Nat /\ Cardinality(Askers(t)) \in Nat
<1>1. Pending(t) \subseteq Requests /\ Askers(t) \subseteq Requests
  BY DEF Pending, Askers
<1>2. IsFiniteSet(Pending(t)) /\ IsFiniteSet(Askers(t))
  BY <1>1, ConstantsAssumption, FS_Subset
<1> QED
  BY <1>2, FS_CardinalityType

LEMMA MailFollows == ASSUME TypeInv, MailInv PROVE OneMailPerRequest
<1> SUFFICES ASSUME NEW t \in Emails PROVE mailed[t] <= Cardinality(Askers(t))
  BY DEF OneMailPerRequest, Askers
<1>1. t \in Tasks /\ mailed[t] \in Nat
  BY DEF Tasks, TypeInv, TypeOK
<1> QED
  BY <1>1, SetsFinite DEF MailInv

LEMMA InitMail == ASSUME Init PROVE MailInv
<1>1. ASSUME NEW t \in Tasks
      PROVE  mailed[t] + Cardinality(Pending(t)) <= Cardinality(Askers(t))
  <2>1. mailed[t] = 0 /\ Pending(t) = {}
    BY <1>1, ConstantsAssumption DEF Init, Pending
  <2> QED
    BY <2>1, FS_EmptySet, SetsFinite
<1> QED
  BY <1>1 DEF Init, MailInv

\* A step in which nothing is sent and nobody begins cannot raise the count.
LEMMA NothingSent ==
  ASSUME MailInv, NEW t \in Tasks, mailed[t] \in Nat, mailed'[t] = mailed[t],
         Pending(t)' \subseteq Pending(t), Askers(t)' = Askers(t)
  PROVE  (mailed[t] + Cardinality(Pending(t)) <= Cardinality(Askers(t)))'
<1>1. Cardinality(Pending(t)') <= Cardinality(Pending(t)) /\ Cardinality(Pending(t)') \in Nat
  BY SetsFinite, FS_Subset, FS_CardinalityType
<1> QED
  BY <1>1, SetsFinite DEF MailInv

\* Of the executor's steps only Send touches the mails; a request takes a
\* task off its list before it works on it.
LEMMA ExecuteLists ==
  ASSUME TypeInv, MailInv, NEW r \in Requests, Execute(r)
  PROVE  /\ pc[r] # "idle"
         /\ task'[r] \notin todo'[r]
         /\ \A t \in Tasks : t \in todo'[r] \/ task'[r] = t => t \in todo[r] \/ task[r] = t
         /\ ~Send(r) => mailed' = mailed
<1> DEFINE Goal ==
         /\ pc[r] # "idle"
         /\ task'[r] \notin todo'[r]
         /\ \A t \in Tasks : t \in todo'[r] \/ task'[r] = t => t \in todo[r] \/ task[r] = t
         /\ ~Send(r) => mailed' = mailed
<1> USE ConstantsAssumption DEF TypeInv, TypeOK, MailInv
<1>1. ASSUME NEW t \in Tasks, AlreadyExecuted(r, t) PROVE Goal
  BY <1>1 DEF AlreadyExecuted, Report, outside
<1>2. ASSUME NEW t \in Tasks, BeginWebhook(r, t) PROVE Goal
  <2>1. /\ pc[r] = "next" /\ t \in todo[r] /\ todo' = [todo EXCEPT ![r] = @ \ {t}]
        /\ mailed' = mailed /\ task'[r] \in {t, NoTask}
    BY <1>2 DEF BeginWebhook, Report, outside
  <2> QED
    BY <2>1
<1>3. ASSUME NEW t \in Tasks, BeginEmail(r, t) PROVE Goal
  BY <1>3 DEF BeginEmail, outside
<1>4. ASSUME OpenFile(r) PROVE Goal
  BY <1>4 DEF OpenFile, Goto, graph
<1>5. ASSUME CloseFile(r) PROVE Goal
  BY <1>5 DEF CloseFile, Report
<1>6. ASSUME WriteFails(r) PROVE Goal
  BY <1>6 DEF WriteFails, Report, outside
<1>7. ASSUME PostAgain(r) PROVE Goal
  BY <1>7 DEF PostAgain, Report
<1>8. ASSUME PostRefused(r) PROVE Goal
  BY <1>8 DEF PostRefused, Report
<1>9. ASSUME PostAccepted(r) PROVE Goal
  BY <1>9 DEF PostAccepted, Report
<1>10. ASSUME NoHost(r) PROVE Goal
  BY <1>10 DEF NoHost, Goto, outside, graph
<1>12. ASSUME ReadUrl(r) PROVE Goal
  BY <1>12 DEF ReadUrl, outside
<1>13. ASSUME NoConnector(r) PROVE Goal
  BY <1>13 DEF NoConnector, Report, outside
<1>11. ASSUME Send(r) PROVE Goal
  BY <1>11 DEF Send, Report
<1> HIDE DEF Goal
<1>20. Goal
  BY <1>1, <1>2, <1>3, <1>4, <1>5, <1>6, <1>7, <1>8, <1>9, <1>10, <1>11, <1>12, <1>13
  DEF Execute
<1> QED
  BY <1>20 DEF Goal

\* The executor stays with its own lists.
LEMMA ExecuteOthers ==
  ASSUME TypeInv, NEW r \in Requests, Execute(r)
  PROVE  \A q \in Requests \ {r} : todo'[q] = todo[q]
BY DEF TypeInv, TypeOK, Execute, AlreadyExecuted, BeginWebhook, BeginEmail, OpenFile,
   CloseFile, WriteFails, PostAgain, PostRefused, PostAccepted, NoHost, ReadUrl, NoConnector, Send,
   graph

\* The mail of a task goes out, or fails to: its request has no other try.
LEMMA SendCounts ==
  ASSUME TypeInv, MailInv, NEW r \in Requests, Send(r), NEW t \in Tasks,
         Askers(t)' = Askers(t), Pending(t)' \subseteq Pending(t)
  PROVE  (mailed[t] + Cardinality(Pending(t)) <= Cardinality(Askers(t)))'
<1> USE DEF TypeInv, TypeOK
<1>1. CASE mailed'[t] = mailed[t]
  BY <1>1, NothingSent
<1>2. CASE mailed'[t] # mailed[t]
  <2>1. task[r] = t /\ mailed'[t] = mailed[t] + 1
    BY <1>2 DEF Send
  <2>2. r \in Pending(t) /\ r \notin Pending(t)'
    BY <2>1, ConstantsAssumption DEF Send, Report, Pending, MailInv
  <2>3. Pending(t)' \subseteq Pending(t) \ {r}
    BY <2>2
  <2>4. Cardinality(Pending(t) \ {r}) = Cardinality(Pending(t)) - 1
    BY <2>2, SetsFinite, FS_RemoveElement
  <2>5. IsFiniteSet(Pending(t) \ {r})
    BY SetsFinite, FS_Subset
  <2>6. /\ Cardinality(Pending(t)') <= Cardinality(Pending(t) \ {r})
        /\ Cardinality(Pending(t)') \in Nat
    BY <2>3, <2>5, FS_Subset, FS_CardinalityType
  <2>7. mailed[t] \in Nat
    OBVIOUS
  <2> QED
    BY <2>1, <2>4, <2>6, <2>7, SetsFinite DEF MailInv
<1> QED
  BY <1>1, <1>2

LEMMA ExecuteMail ==
  ASSUME TypeInv, MailInv, NEW r \in Requests, Execute(r)
  PROVE  MailInv'
<1>1. ASSUME NEW t \in Tasks
      PROVE  Askers(t)' = Askers(t) /\ Pending(t)' \subseteq Pending(t)
  <2>1. approved' = approved /\ \A q \in Requests : pc'[q] = "idle" <=> pc[q] = "idle"
    BY ExecuteStays, ExecuteLists DEF Working
  <2>2. \A q \in Requests : t \in todo'[q] \/ task'[q] = t => t \in todo[q] \/ task[q] = t
    BY ExecuteStays, ExecuteOthers, ExecuteLists
  <2> QED
    BY <2>1, <2>2 DEF Askers, Pending, Permitted
<1>2. ASSUME NEW t \in Tasks
      PROVE  (mailed[t] + Cardinality(Pending(t)) <= Cardinality(Askers(t)))'
  <2>1. CASE Send(r)
    BY <1>1, <2>1, SendCounts
  <2>2. CASE ~Send(r)
    <3>1. mailed'[t] = mailed[t] /\ mailed[t] \in Nat
      BY <2>2, ExecuteLists DEF TypeInv, TypeOK
    <3> QED
      BY <1>1, <3>1, NothingSent
  <2> QED
    BY <2>1, <2>2
<1>3. ASSUME NEW q \in Requests
      PROVE  task'[q] \notin todo'[q] /\ (pc'[q] = "idle" => todo'[q] = {} /\ task'[q] = NoTask)
  <2>1. CASE q = r
    BY <2>1, ExecuteStays, ExecuteLists DEF Working
  <2>2. CASE q # r
    BY <2>2, ExecuteStays, ExecuteOthers DEF MailInv
  <2> QED
    BY <2>1, <2>2
<1> QED
  BY <1>2, <1>3 DEF MailInv

\* A request that begins is one more that may send, for what it was permitted.
LEMMA GateMail ==
  ASSUME TypeInv, MailInv, NEW r \in Requests, NEW a \in SUBSET Tasks, Gate(r, a)
  PROVE  MailInv'
<1> USE DEF TypeInv, TypeOK
<1>1. /\ pc[r] = "idle" /\ pc' = [pc EXCEPT ![r] = "next"]
      /\ approved' = [approved EXCEPT ![r] = a]
      /\ todo' = [todo EXCEPT ![r] = Permitted(a)]
      /\ UNCHANGED <<mailed, task>>
  BY DEF Gate, Goto, outside
<1>2. todo[r] = {} /\ task[r] = NoTask
  BY <1>1 DEF MailInv
<1>3. ASSUME NEW t \in Tasks
      PROVE  (mailed[t] + Cardinality(Pending(t)) <= Cardinality(Askers(t)))'
  <2>1. r \notin Pending(t) /\ r \notin Askers(t)
    BY <1>1, <1>2, ConstantsAssumption DEF Pending, Askers
  <2>2. CASE t \in Permitted(a)
    <3>1. Pending(t)' = Pending(t) \cup {r}
      BY <1>1, <2>2 DEF Pending
    <3>2. Askers(t)' = Askers(t) \cup {r}
      BY <1>1, <2>2 DEF Askers, Permitted
    <3>3. /\ Cardinality(Pending(t) \cup {r}) = Cardinality(Pending(t)) + 1
          /\ Cardinality(Askers(t) \cup {r}) = Cardinality(Askers(t)) + 1
      BY <2>1, SetsFinite, FS_AddElement
    <3>4. mailed'[t] = mailed[t] /\ mailed[t] \in Nat
      BY <1>1
    <3> QED
      BY <3>1, <3>2, <3>3, <3>4, SetsFinite DEF MailInv
  <2>3. CASE t \notin Permitted(a)
    <3>1. Pending(t)' = Pending(t)
      BY <1>1, <1>2, <2>3 DEF Pending
    <3>2. Askers(t)' = Askers(t)
      BY <1>1, <2>3 DEF Askers, Permitted
    <3>3. mailed'[t] = mailed[t] /\ mailed[t] \in Nat
      BY <1>1
    <3> QED
      BY <3>1, <3>2, <3>3, NothingSent
  <2> QED
    BY <2>2, <2>3
<1>4. ASSUME NEW q \in Requests
      PROVE  task'[q] \notin todo'[q] /\ (pc'[q] = "idle" => todo'[q] = {} /\ task'[q] = NoTask)
  <2>1. CASE q = r
    BY <1>1, <1>2, <2>1, ConstantsAssumption DEF Permitted
  <2>2. CASE q # r
    BY <1>1, <2>2 DEF MailInv
  <2> QED
    BY <2>1, <2>2
<1> QED
  BY <1>3, <1>4 DEF MailInv

LEMMA NextMail == ASSUME TypeInv, MailInv, Next PROVE MailInv'
<1> USE DEF TypeInv, TypeOK
\* What the remaining steps have in common.
<1>1. ASSUME mailed' = mailed, approved' = approved,
             \A q \in Requests : /\ pc'[q] = "idle" <=> pc[q] = "idle"
                                 /\ \/ todo'[q] = todo[q] /\ task'[q] = task[q]
                                    \/ todo'[q] = {} /\ task'[q] = NoTask
      PROVE  MailInv'
  <2>1. ASSUME NEW t \in Tasks
        PROVE  (mailed[t] + Cardinality(Pending(t)) <= Cardinality(Askers(t)))'
    <3>1. Askers(t)' = Askers(t)
      BY <1>1 DEF Askers, Permitted
    <3>2. \A q \in Requests : t \in todo'[q] \/ task'[q] = t => t \in todo[q] \/ task[q] = t
      BY <1>1, ConstantsAssumption
    <3>3. Pending(t)' \subseteq Pending(t)
      BY <3>2 DEF Pending
    <3>4. mailed'[t] = mailed[t] /\ mailed[t] \in Nat
      BY <1>1
    <3> QED
      BY <3>1, <3>3, <3>4, NothingSent
  <2>2. ASSUME NEW q \in Requests
        PROVE  task'[q] \notin todo'[q] /\ (pc'[q] = "idle" => todo'[q] = {} /\ task'[q] = NoTask)
    BY <1>1 DEF MailInv
  <2> QED
    BY <2>1, <2>2 DEF MailInv
<1>2. ASSUME NEW r \in Requests, Persist(r) PROVE MailInv'
  <2>1. /\ UNCHANGED <<mailed, approved, todo, task>>
        /\ pc[r] # "idle" /\ pc'[r] # "idle"
        /\ \A q \in Requests \ {r} : pc'[q] = pc[q]
    BY <1>2 DEF Persist, MarkApproved, MarkExecuted, MarkSkipped, MarkFailed, Goto, outside, graph
  <2> QED
    BY <1>1, <2>1
<1>3. CASE Reconfigure
  BY <1>1, <1>3 DEF Reconfigure, outside, graph
<1>4. CASE Crash
  <2>1. /\ UNCHANGED <<mailed, approved>>
        /\ \A q \in Requests : todo'[q] = {} /\ task'[q] = NoTask
        /\ \A q \in Requests : pc'[q] = "idle" <=> pc[q] = "idle"
    BY <1>4 DEF Crash, outside
  <2> QED
    BY <1>1, <2>1
<1> QED
  BY <1>2, <1>3, <1>4, ExecuteMail, GateMail DEF Next

LEMMA StutterMail == ASSUME MailInv, UNCHANGED vars PROVE MailInv'
<1>1. UNCHANGED <<mailed, approved, todo, task, pc>>
  BY DEF vars, settings, rows, outside, graph
<1>2. \A t : Pending(t)' = Pending(t) /\ Askers(t)' = Askers(t)
  BY <1>1 DEF Pending, Askers, Permitted
<1> QED
  BY <1>1, <1>2 DEF MailInv

\* _send_email_if_configured sends outside of any retry: no more mails of a
\* task than requests that were permitted to send it.
THEOREM NoMailTwice == Spec => []OneMailPerRequest
<1>1. Init => MailInv
  BY InitMail
<1>2. TypeInv /\ MailInv /\ [Next]_vars => MailInv'
  BY NextMail, StutterMail
<1>3. TypeInv /\ MailInv => OneMailPerRequest
  BY MailFollows
<1>4. GateInv => TypeInv
  BY DEF GateInv
<1> QED
  BY <1>1, <1>2, <1>3, <1>4, GateInvariant, PTL DEF Spec
=============================================================================
