-------------------------- MODULE AuditJobsProofs --------------------------
(***************************************************************************)
(* Proofs about AuditJobs, for every set of keys, calls and threads and    *)
(* every bound on the stops: the type invariant, that no open job is left  *)
(* without someone to finish it, that a succeeded job has its audit, that  *)
(* calls with one key store one audit, and that the table implements the   *)
(* ledger its callers count on.                                            *)
(***************************************************************************)
EXTENDS AuditJobs, SequenceTheorems, FiniteSetTheorems, TLAPS

USE ConstantsAssumption DEF Submits, Calls, Actors

Typing == TypeOK /\ KeyInv

-----------------------------------------------------------------------------
(* Facts about the operators of the model.                                 *)

LEMMA AbsentRowType == AbsentRow \in Row
BY DEF AbsentRow, Row, Statuses, Errors

LEMMA FreshRowType ==
  ASSUME NEW s \in Statuses
  PROVE  FreshRow(s) \in Row
BY DEF FreshRow, Row, Errors

LEMMA FlushType ==
  ASSUME NEW now \in Row, NEW loaded \in Row, NEW assigned \in Row
  PROVE  Flush(now, loaded, assigned) \in Row
BY DEF Flush, Column, Row

\* The assignments of mark_running, mark_success, mark_failed, requeue_jobs.
LEMMA AssignType ==
  ASSUME NEW row \in Row, NEW s \in Statuses, NEW e \in Errors, NEW n \in Nat
  PROVE  /\ [row EXCEPT !.status = s] \in Row
         /\ [row EXCEPT !.status = s, !.result = n] \in Row
         /\ [row EXCEPT !.status = s, !.error = e] \in Row
BY DEF Row

\* Replacing an element of a sequence keeps it a sequence of the same length.
LEMMA ReplaceType ==
  ASSUME NEW S, NEW s \in Seq(S), NEW i, NEW e \in S
  PROVE  /\ [s EXCEPT ![i] = e] \in Seq(S)
         /\ Len([s EXCEPT ![i] = e]) = Len(s)
         /\ DOMAIN [s EXCEPT ![i] = e] = DOMAIN s
<1>1. CASE i \in 1 .. Len(s)
  BY <1>1, ExceptSeq
<1>2. CASE i \notin 1 .. Len(s)
  <2>1. DOMAIN s = 1 .. Len(s)
    OBVIOUS
  <2>2. [s EXCEPT ![i] = e] = s
    BY <1>2, <2>1
  <2>. QED
    BY <2>2
<1>. QED
  BY <1>1, <1>2

\* What is in a queue after an append and after its head was taken.
LEMMA AppendHas ==
  ASSUME NEW S, NEW q \in Seq(S), NEW k \in S, NEW j
  PROVE  Has(Append(q, k), j) <=> (j = k \/ Has(q, j))
<1>1. Append(q, k)[Len(q) + 1] = k /\ Len(q) + 1 \in DOMAIN Append(q, k)
  OBVIOUS
<1>2. \A i \in DOMAIN q : i \in DOMAIN Append(q, k) /\ Append(q, k)[i] = q[i]
  OBVIOUS
<1>3. \A i \in DOMAIN Append(q, k) : i = Len(q) + 1 \/ i \in DOMAIN q
  OBVIOUS
<1>. QED
  BY <1>1, <1>2, <1>3 DEF Has

LEMMA TailHas ==
  ASSUME NEW S, NEW q \in Seq(S), q # << >>, NEW j, Has(q, j)
  PROVE  j = Head(q) \/ Has(Tail(q), j)
<1>1. PICK i \in DOMAIN q : q[i] = j
  BY DEF Has
<1>2. CASE i = 1
  BY <1>1, <1>2
<1>3. CASE i # 1
  <2>1. i - 1 \in DOMAIN Tail(q) /\ Tail(q)[i - 1] = q[i]
    BY <1>3
  <2>. QED
    BY <1>1, <2>1 DEF Has
<1>. QED
  BY <1>2, <1>3

-----------------------------------------------------------------------------
(* Type correctness.                                                       *)

LEMMA TypingInit == Init => Typing
<1>. SUFFICES ASSUME Init PROVE Typing
  OBVIOUS
<1>1. jobs \in [Keys -> Row] /\ snap \in [Calls -> Row]
  BY AbsentRowType DEF Init
<1>2. rec \in [pc: {"off", "read", "write", "enqueue"},
               todo: SUBSET Keys, snap: [Keys -> Row]]
  BY AbsentRowType DEF Init, Idle
<1>3. audits \in Seq([key: Keys, details: BOOLEAN]) /\ queue \in Seq(Keys)
  BY DEF Init
<1>. QED
  BY <1>1, <1>2, <1>3 DEF Init, Typing, TypeOK, KeyInv

LEMMA TypingNext == Typing /\ [Next]_vars => Typing'
<1>. SUFFICES ASSUME Typing, [Next]_vars PROVE Typing'
  OBVIOUS
<1>. USE DEF Typing, TypeOK, KeyInv, process, Goto, Release, Store
<1>1. ASSUME NEW c \in Calls, NEW k \in Keys, Lookup(c, k) PROVE Typing'
  BY <1>1 DEF Lookup
<1>2. ASSUME NEW c \in Calls, InsertRefused(c) PROVE Typing'
  BY <1>2, AbsentRowType DEF InsertRefused
<1>3. ASSUME NEW c \in Submits, SubmitCreate(c) PROVE Typing'
  BY <1>3, AbsentRowType, FreshRowType DEF SubmitCreate, Statuses
<1>4. ASSUME NEW c \in Submits, SubmitRetry(c) PROVE Typing'
  <2>1. FreshRow("queued") \in Row
    BY FreshRowType DEF Statuses
  <2>2. Flush(jobs[key[c]], snap[c], FreshRow("queued")) \in Row
    BY <1>4, <2>1, FlushType DEF SubmitRetry
  <2>. QED
    BY <1>4, <2>2, AbsentRowType DEF SubmitRetry
<1>5. ASSUME NEW c \in Submits, SubmitExisting(c) PROVE Typing'
  BY <1>5, AbsentRowType DEF SubmitExisting
<1>6. ASSUME NEW c \in Submits, Enqueue(c) PROVE Typing'
  <2>1. c \in Actors /\ key[c] \in Keys
    BY <1>6 DEF Enqueue
  <2>2. queue' \in Seq(Keys)
    BY <1>6, <2>1 DEF Enqueue
  <2>. QED
    BY <1>6, <2>1, <2>2 DEF Enqueue
<1>7. ASSUME NEW c \in Submits, EnqueueRefused(c) PROVE Typing'
  BY <1>7 DEF EnqueueRefused
<1>8. ASSUME NEW c \in SyncCalls, SyncCached(c) PROVE Typing'
  BY <1>8, AbsentRowType DEF SyncCached, Row
<1>9. ASSUME NEW c \in SyncCalls, SyncConflict(c) PROVE Typing'
  BY <1>9, AbsentRowType DEF SyncConflict
<1>10. ASSUME NEW c \in SyncCalls, SyncMarkRunning(c) PROVE Typing'
  BY <1>10, AbsentRowType, FreshRowType DEF SyncMarkRunning, Statuses
<1>11. ASSUME NEW c \in SyncCalls, SyncSucceed(c) PROVE Typing'
  <2>1. c \in Actors /\ key[c] \in Keys /\ audit[c] \in Nat
    BY <1>11 DEF SyncSucceed
  <2>2. [jobs[key[c]] EXCEPT !.status = "succeeded", !.result = audit[c]] \in Row
    BY <2>1, AssignType DEF Statuses, Errors
  <2>. QED
    BY <1>11, <2>1, <2>2 DEF SyncSucceed
<1>12. ASSUME NEW c \in SyncCalls, SyncFail(c) PROVE Typing'
  <2>1. c \in Actors /\ key[c] \in Keys /\ audit[c] \in Nat
    BY <1>12 DEF SyncFail
  <2>2. [jobs[key[c]] EXCEPT !.status = "failed", !.error = "raised"] \in Row
    BY <2>1, AssignType DEF Statuses, Errors
  <2>. QED
    BY <1>12, <2>1, <2>2 DEF SyncFail
<1>13. ASSUME NEW a \in Actors, SaveAudit(a) PROVE Typing'
  BY <1>13 DEF SaveAudit
<1>14. ASSUME NEW a \in Actors, SaveTransactions(a) PROVE Typing'
  <2> DEFINE S == [key: Keys, details: BOOLEAN]
             e == [audits[audit[a]] EXCEPT !.details = TRUE]
  <2>1. CASE audit[a] \in DOMAIN audits
    <3>1. e \in S
      <4>1. audits \in Seq(S)
        OBVIOUS
      <4>2. audits[audit[a]] \in S
        <5>. HIDE DEF S
        <5>. QED
          BY <2>1, <4>1
      <4>. QED
        BY <4>2
    <3>2. audits' \in Seq(S)
      BY <1>14, <3>1, ReplaceType DEF SaveTransactions
    <3>. QED
      BY <1>14, <3>2 DEF SaveTransactions
  <2>2. CASE audit[a] \notin DOMAIN audits
    <3>1. audits' = audits
      BY <1>14, <2>2 DEF SaveTransactions
    <3>. QED
      BY <1>14, <3>1 DEF SaveTransactions
  <2>. QED
    BY <2>1, <2>2
<1>15. ASSUME NEW w \in Workers, StartJob(w) PROVE Typing'
  <2>1. Head(queue) \in Keys /\ Tail(queue) \in Seq(Keys)
    BY <1>15 DEF StartJob
  <2>2. [jobs[Head(queue)] EXCEPT !.status = "running"] \in Row
    BY <2>1, AssignType DEF Statuses, Errors
  <2>. QED
    BY <1>15, <2>1, <2>2 DEF StartJob
<1>16. ASSUME NEW w \in Workers, MarkSuccess(w) PROVE Typing'
  <2>1. w \in Actors /\ key[w] \in Keys /\ audit[w] \in Nat
    BY <1>16 DEF MarkSuccess
  <2>2. [jobs[key[w]] EXCEPT !.status = "succeeded", !.result = audit[w]] \in Row
    BY <2>1, AssignType DEF Statuses, Errors
  <2>. QED
    BY <1>16, <2>1, <2>2 DEF MarkSuccess
<1>17. ASSUME NEW w \in Workers, Notified(w) PROVE Typing'
  BY <1>17 DEF Notified
<1>18. ASSUME NEW w \in Workers, MarkFailed(w) PROVE Typing'
  <2>1. w \in Actors /\ key[w] \in Keys /\ audit[w] \in Nat
    BY <1>18 DEF MarkFailed
  <2>2. [jobs[key[w]] EXCEPT !.status = "failed", !.error = "raised"] \in Row
    BY <2>1, AssignType DEF Statuses, Errors
  <2>. QED
    BY <1>18, <2>1, <2>2 DEF MarkFailed
<1>19. CASE RecoverRead
  BY <1>19, AbsentRowType DEF RecoverRead, Idle
<1>20. CASE RecoverWrite
  <2>1. ASSUME NEW k \in Keys
        PROVE  Flush(jobs[k], rec.snap[k],
                     [rec.snap[k] EXCEPT !.status = "queued",
                                         !.error = "recovered"]) \in Row
    <3>1. [rec.snap[k] EXCEPT !.status = "queued", !.error = "recovered"] \in Row
      BY AssignType DEF Statuses, Errors
    <3>. QED
      BY <3>1, FlushType
  <2>2. jobs' \in [Keys -> Row]
    BY <1>20, <2>1 DEF RecoverWrite
  <2>. QED
    BY <1>20, <2>2, AbsentRowType DEF RecoverWrite
<1>21. ASSUME NEW k \in Keys, RecoverEnqueue(k) PROVE Typing'
  BY <1>21, AbsentRowType DEF RecoverEnqueue, Idle
<1>22. CASE Shutdown
  BY <1>22 DEF Shutdown
<1>23. CASE Vanish
  BY <1>23, AbsentRowType DEF Vanish, Idle
<1>24. CASE Boot
  BY <1>24, AbsentRowType DEF Boot, Idle
<1>25. CASE UNCHANGED vars
  BY <1>25 DEF vars
<1>. HIDE DEF Typing, TypeOK, KeyInv, process, Goto, Release, Store
<1>. QED
  BY <1>1, <1>2, <1>3, <1>4, <1>5, <1>6, <1>7, <1>8, <1>9, <1>10, <1>11,
     <1>12, <1>13, <1>14, <1>15, <1>16, <1>17, <1>18, <1>19, <1>20, <1>21,
     <1>22, <1>23, <1>24, <1>25
  DEF Next, Submit, Sync, Execute, RunJob, Recover, Exit, Crash

\* Every row keeps one of the five statuses of the code, and no actor ever
\* works on a key it does not have.
THEOREM TypeCorrect == Spec => []TypeOK
<1>1. Spec => []Typing
  BY TypingInit, TypingNext, PTL DEF Spec
<1>2. Typing => TypeOK
  BY DEF Typing
<1>. QED
  BY <1>1, <1>2, PTL
-----------------------------------------------------------------------------
(* No orphan jobs.                                                         *)

LEMMA PhaseInit == Init => PhaseInv
BY DEF Init, Idle, PhaseInv

LEMMA PhaseNext == Typing /\ PhaseInv /\ [Next]_vars => PhaseInv'
<1>. SUFFICES ASSUME Typing, PhaseInv, [Next]_vars PROVE PhaseInv'
  OBVIOUS
<1>. USE DEF PhaseInv
<1>1. CASE UNCHANGED process
  BY <1>1 DEF process
<1>2. CASE RecoverRead
  BY <1>2 DEF RecoverRead, Idle
<1>3. CASE RecoverWrite
  BY <1>3 DEF RecoverWrite
<1>4. ASSUME NEW k \in Keys, RecoverEnqueue(k) PROVE PhaseInv'
  BY <1>4 DEF RecoverEnqueue, Idle, Typing, TypeOK
<1>5. CASE Shutdown
  BY <1>5 DEF Shutdown
<1>6. CASE Vanish
  BY <1>6 DEF Vanish, Idle
<1>7. CASE Boot
  BY <1>7 DEF Boot, Idle
<1>8. CASE UNCHANGED vars
  BY <1>8 DEF vars
<1>. HIDE DEF PhaseInv
<1>. QED
  BY <1>1, <1>2, <1>3, <1>4, <1>5, <1>6, <1>7, <1>8
  DEF Next, Lookup, Submit, InsertRefused, SubmitCreate, SubmitRetry,
      SubmitExisting, Enqueue, EnqueueRefused, Sync, SyncCached, SyncConflict,
      SyncMarkRunning, SyncSucceed, SyncFail, Execute, SaveAudit,
      SaveTransactions, StartJob, RunJob, MarkSuccess, Notified, MarkFailed,
      Recover, Exit, Crash, process

Owned(k) == Waiting(k) \/ InFlight(k) \/ Recovered(k)

Owing == {"enqueue", "exec", "saved", "persisted"}

\* An actor's step leaves the claims of the others, the queue's and the
\* recovery's alone; only its own can go.
LEMMA ClaimsKept ==
  ASSUME NEW a \in Actors, NEW k \in Keys, Typing, Owned(k),
         \A b \in Actors \ {a} : pc'[b] = pc[b] /\ key'[b] = key[b],
         rec' = rec, Waiting(k) => Waiting(k)'
  PROVE  Owned(k)' \/ (key[a] = k /\ pc[a] \in Owing)
BY DEF Owned, InFlight, Recovered, Owing

LEMMA OwnedInit == Init => OwnedInv
BY DEF Init, OwnedInv

LEMMA OwnedNext == Typing /\ PhaseInv /\ OwnedInv /\ [Next]_vars => OwnedInv'
<1>. SUFFICES ASSUME Typing, PhaseInv, OwnedInv, [Next]_vars,
                     (phase = "up" \/ rec.pc \in {"write", "enqueue"})',
                     NEW k \in Keys, Open(jobs[k])'
              PROVE  Owned(k)'
  BY DEF OwnedInv, Owned
<1>. DEFINE Was == Open(jobs[k]) => Owned(k)
<1>0. phase = "up" \/ rec.pc \in {"write", "enqueue"} => Was
  BY DEF OwnedInv, Owned
\* A call that only reads, or answers, or is refused while the row stays.
<1>1. ASSUME NEW a \in Actors, UNCHANGED <<process, jobs, queue>>,
             pc[a] \notin Owing,
             \A b \in Actors \ {a} : pc'[b] = pc[b] /\ key'[b] = key[b]
      PROVE  Owned(k)'
  <2>1. Owned(k)
    BY <1>0, <1>1 DEF process
  <2>2. Waiting(k) => Waiting(k)'
    BY <1>1 DEF Waiting
  <2>3. rec' = rec
    BY <1>1 DEF process
  <2>. QED
    BY <2>1, <2>2, <2>3, <1>1, ClaimsKept
\* A step that takes on its key, or keeps it.
<1>2. ASSUME NEW a \in Actors, UNCHANGED <<process, queue>>,
             \A j \in Keys \ {key[a]} : jobs'[j] = jobs[j],
             key' = key, pc'[a] \in Owing,
             \A b \in Actors \ {a} : pc'[b] = pc[b]
      PROVE  Owned(k)'
  <2>1. CASE key[a] = k
    BY <1>2, <2>1 DEF Owned, InFlight, Owing
  <2>2. CASE key[a] # k
    <3>1. Owned(k)
      BY <1>0, <1>2, <2>2 DEF process
    <3>2. Waiting(k) => Waiting(k)'
      BY <1>2 DEF Waiting
    <3>3. rec' = rec
      BY <1>2 DEF process
    <3>. QED
      BY <1>2, <2>2, <3>1, <3>2, <3>3, ClaimsKept
  <2>. QED
    BY <2>1, <2>2
\* A step that ends its job.
<1>3. ASSUME NEW a \in Actors, UNCHANGED <<process, queue>>,
             \A j \in Keys \ {key[a]} : jobs'[j] = jobs[j],
             key[a] \in Keys => ~ Open(jobs'[key[a]]),
             \A b \in Actors \ {a} : pc'[b] = pc[b] /\ key'[b] = key[b]
      PROVE  Owned(k)'
  <2>1. key[a] # k
    BY <1>3 DEF Open
  <2>2. Owned(k)
    BY <1>0, <1>3, <2>1 DEF process
  <2>3. Waiting(k) => Waiting(k)'
    BY <1>3 DEF Waiting
  <2>4. rec' = rec
    BY <1>3 DEF process
  <2>. QED
    BY <1>3, <2>1, <2>2, <2>3, <2>4, ClaimsKept
<1>. USE DEF Typing, TypeOK, process, Goto, Release, Store, Owing
<1>4. ASSUME NEW c \in Calls, NEW j \in Keys, Lookup(c, j) PROVE Owned(k)'
  BY <1>4, <1>1 DEF Lookup
<1>5. ASSUME NEW c \in Calls, InsertRefused(c) PROVE Owned(k)'
  BY <1>5, <1>1 DEF InsertRefused
<1>6. ASSUME NEW c \in Submits, SubmitExisting(c) PROVE Owned(k)'
  BY <1>6, <1>1 DEF SubmitExisting
<1>7. ASSUME NEW c \in SyncCalls, SyncCached(c) PROVE Owned(k)'
  BY <1>7, <1>1 DEF SyncCached
<1>8. ASSUME NEW c \in SyncCalls, SyncConflict(c) PROVE Owned(k)'
  BY <1>8, <1>1 DEF SyncConflict
<1>9. ASSUME NEW w \in Workers, Notified(w) PROVE Owned(k)'
  BY <1>9, <1>1 DEF Notified
<1>10. ASSUME NEW c \in Submits, SubmitCreate(c) PROVE Owned(k)'
  BY <1>10, <1>2 DEF SubmitCreate
<1>11. ASSUME NEW c \in Submits, SubmitRetry(c) PROVE Owned(k)'
  BY <1>11, <1>2 DEF SubmitRetry
<1>12. ASSUME NEW c \in SyncCalls, SyncMarkRunning(c) PROVE Owned(k)'
  BY <1>12, <1>2 DEF SyncMarkRunning
<1>13. ASSUME NEW a \in Actors, SaveAudit(a) PROVE Owned(k)'
  BY <1>13, <1>2 DEF SaveAudit
<1>14. ASSUME NEW a \in Actors, SaveTransactions(a) PROVE Owned(k)'
  BY <1>14, <1>2 DEF SaveTransactions
<1>15. ASSUME NEW c \in SyncCalls, SyncSucceed(c) PROVE Owned(k)'
  BY <1>15, <1>3 DEF SyncSucceed, Open
<1>16. ASSUME NEW c \in SyncCalls, SyncFail(c) PROVE Owned(k)'
  BY <1>16, <1>3 DEF SyncFail, Open
<1>17. ASSUME NEW w \in Workers, MarkSuccess(w) PROVE Owned(k)'
  BY <1>17, <1>3 DEF MarkSuccess, Open
<1>18. ASSUME NEW w \in Workers, MarkFailed(w) PROVE Owned(k)'
  BY <1>18, <1>3 DEF MarkFailed, Open
<1>19. ASSUME NEW c \in Submits, Enqueue(c) PROVE Owned(k)'
  <2>1. key[c] \in Keys
    BY <1>19 DEF Enqueue, KeyInv
  <2>2. Waiting(k)' <=> k = key[c] \/ Waiting(k)
    <3>1. queue \in Seq(Keys) /\ queue' = Append(queue, key[c])
      BY <1>19 DEF Enqueue
    <3>2. Has(Append(queue, key[c]), k) <=> k = key[c] \/ Has(queue, k)
      BY <3>1, <2>1, AppendHas
    <3>. QED
      BY <3>1, <3>2 DEF Waiting
  <2>3. Owned(k) /\ rec' = rec
    BY <1>0, <1>19 DEF Enqueue
  <2>4. \A b \in Actors \ {c} : pc'[b] = pc[b] /\ key'[b] = key[b]
    BY <1>19 DEF Enqueue
  <2>5. Owned(k)' \/ key[c] = k
    BY <2>2, <2>3, <2>4, ClaimsKept
  <2>. QED
    BY <2>2, <2>5 DEF Owned
<1>20. ASSUME NEW w \in Workers, StartJob(w) PROVE Owned(k)'
  <2>1. CASE k = Head(queue)
    BY <1>20, <2>1 DEF StartJob, Owned, InFlight
  <2>2. CASE k # Head(queue)
    <3>1. Owned(k) /\ rec' = rec
      BY <1>0, <1>20, <2>2 DEF StartJob
    <3>2. ASSUME Waiting(k) PROVE Waiting(k)'
      <4>1. queue # << >> /\ queue' = Tail(queue)
        BY <1>20 DEF StartJob
      <4>2. k = Head(queue) \/ Has(Tail(queue), k)
        BY <3>2, <4>1, TailHas DEF Waiting
      <4>. QED
        BY <2>2, <4>1, <4>2 DEF Waiting
    <3>3. \A b \in Actors \ {w} : pc'[b] = pc[b] /\ key'[b] = key[b]
      BY <1>20 DEF StartJob
    <3>4. pc[w] \notin Owing
      BY <1>20 DEF StartJob
    <3>. QED
      BY <3>1, <3>2, <3>3, <3>4, ClaimsKept
  <2>. QED
    BY <2>1, <2>2
<1>21. CASE RecoverRead
  BY <1>21 DEF RecoverRead, Idle, Owned, Recovered, Open, Incomplete
<1>22. CASE RecoverWrite
  <2>1. k \notin rec.todo => Open(jobs[k])
    BY <1>22 DEF RecoverWrite
  <2>2. rec'.pc # "read" /\ rec'.todo = rec.todo
    BY <1>22 DEF RecoverWrite
  <2>3. CASE k \in rec.todo
    BY <2>2, <2>3 DEF Owned, Recovered
  <2>4. CASE k \notin rec.todo
    <3>1. Owned(k)
      BY <1>0, <1>22, <2>1, <2>4 DEF RecoverWrite
    <3>. QED
      BY <1>22, <2>4, <3>1 DEF RecoverWrite, Owned, Recovered, Waiting, InFlight
  <2>. QED
    BY <2>3, <2>4
<1>23. ASSUME NEW j \in Keys, RecoverEnqueue(j) PROVE Owned(k)'
  <2>1. Waiting(k)' <=> k = j \/ Waiting(k)
    <3>1. queue \in Seq(Keys) /\ queue' = Append(queue, j)
      BY <1>23 DEF RecoverEnqueue
    <3>2. Has(Append(queue, j), k) <=> k = j \/ Has(queue, k)
      BY <3>1, AppendHas
    <3>. QED
      BY <3>1, <3>2 DEF Waiting
  <2>2. Owned(k)
    BY <1>0, <1>23 DEF RecoverEnqueue
  <2>3. Recovered(k) => k = j \/ Recovered(k)'
    <3>1. CASE rec.todo = {j}
      BY <3>1 DEF Recovered
    <3>2. CASE rec.todo # {j}
      <4>1. rec'.pc = rec.pc /\ rec'.todo = rec.todo \ {j}
        BY <1>23, <3>2 DEF RecoverEnqueue
      <4>. QED
        BY <4>1 DEF Recovered
    <3>. QED
      BY <3>1, <3>2
  <2>4. InFlight(k) => InFlight(k)'
    BY <1>23 DEF RecoverEnqueue, InFlight
  <2>. QED
    BY <2>1, <2>2, <2>3, <2>4 DEF Owned
\* Otherwise the server is not up after the step, and not recovering.
<1>24. ASSUME NEW c \in Submits, EnqueueRefused(c) PROVE Owned(k)'
  BY <1>24 DEF EnqueueRefused, PhaseInv
<1>25. CASE Shutdown
  BY <1>25 DEF Shutdown, PhaseInv
<1>26. CASE Vanish
  BY <1>26 DEF Vanish, Idle
<1>27. CASE Boot
  BY <1>27 DEF Boot, Idle
<1>28. CASE UNCHANGED vars
  BY <1>0, <1>28 DEF vars, Owned, Waiting, InFlight, Recovered
<1>. HIDE DEF Typing, TypeOK, process, Goto, Release, Store, Owing
<1>. QED
  BY <1>4, <1>5, <1>6, <1>7, <1>8, <1>9, <1>10, <1>11, <1>12, <1>13,
     <1>14, <1>15, <1>16, <1>17, <1>18, <1>19, <1>20, <1>21, <1>22,
     <1>23, <1>24, <1>25, <1>26, <1>27, <1>28
  DEF Next, Submit, Sync, Execute, RunJob, Recover, Exit, Crash

\* While the server is up, no row says queued or running that nobody works
\* on: for any number of requests, threads, crashes and shutdowns.
THEOREM NoJobIsOrphaned == Spec => []NoOrphanJob
<1>1. Init => Typing /\ PhaseInv /\ OwnedInv
  BY TypingInit, PhaseInit, OwnedInit
<1>2. Typing /\ PhaseInv /\ OwnedInv /\ [Next]_vars
        => (Typing /\ PhaseInv /\ OwnedInv)'
  BY TypingNext, PhaseNext, OwnedNext
<1>3. OwnedInv => NoOrphanJob
  BY DEF OwnedInv, NoOrphanJob
<1>. QED
  BY <1>1, <1>2, <1>3, PTL DEF Spec
-----------------------------------------------------------------------------
(* Succeeded jobs have their audit.                                        *)

LEMMA AuditInit == Init => AuditInv
BY DEF Init, AuditInv, AbsentRow

\* Audits are never deleted, never change hands and stay complete.
LEMMA AuditsKept ==
  ASSUME Typing, [Next]_vars, NEW k, NEW id
  PROVE  /\ SavedFor(k, id) => SavedFor(k, id)'
         /\ StoredFor(k, id) => StoredFor(k, id)'
<1>. USE DEF SavedFor, StoredFor
<1> DEFINE S == [key: Keys, details: BOOLEAN]
           Kept == /\ SavedFor(k, id) => SavedFor(k, id)'
                   /\ StoredFor(k, id) => StoredFor(k, id)'
<1>1. audits \in Seq(S)
  BY DEF Typing, TypeOK
<1>2. CASE UNCHANGED audits
  BY <1>2
<1>3. ASSUME NEW a \in Actors, SaveAudit(a) PROVE Kept
  <2>1. audits' = Append(audits, [key |-> key[a], details |-> FALSE])
    BY <1>3 DEF SaveAudit
  <2>2. id \in DOMAIN audits => id \in DOMAIN audits' /\ audits'[id] = audits[id]
    BY <1>1, <2>1
  <2>. QED
    BY <2>2
<1>4. ASSUME NEW a \in Actors, SaveTransactions(a) PROVE Kept
  <2>1. audits' = [audits EXCEPT ![audit[a]].details = TRUE]
    BY <1>4 DEF SaveTransactions
  <2>2. CASE id \in DOMAIN audits
    <3>1. audits[id] \in S
      <4>. HIDE DEF S
      <4>. QED
        BY <1>1, <2>2
    <3>2. id \in DOMAIN audits' /\ audits'[id].key = audits[id].key
            /\ (audits[id].details => audits'[id].details)
      BY <2>1, <2>2, <3>1
    <3>. QED
      BY <3>2
  <2>. QED
    BY <2>2
<1>. QED
  BY <1>2, <1>3, <1>4
  DEF Next, Lookup, Submit, InsertRefused, SubmitCreate, SubmitRetry,
      SubmitExisting, Enqueue, EnqueueRefused, Sync, SyncCached, SyncConflict,
      SyncMarkRunning, SyncSucceed, SyncFail, Execute, StartJob, RunJob,
      MarkSuccess, Notified, MarkFailed, Recover, RecoverRead, RecoverWrite,
      RecoverEnqueue, Shutdown, Exit, Crash, Vanish, Boot, vars

LEMMA AuditNext == Typing /\ AuditInv /\ [Next]_vars => AuditInv'
<1>. SUFFICES ASSUME Typing, AuditInv, [Next]_vars PROVE AuditInv'
  OBVIOUS
<1>0. \A k, id : /\ SavedFor(k, id) => SavedFor(k, id)'
                 /\ StoredFor(k, id) => StoredFor(k, id)'
  BY AuditsKept
<1>. USE DEF AuditInv, Typing, TypeOK, KeyInv, process, Goto, Release, Store
<1>1. ASSUME NEW c \in Calls, NEW k \in Keys, Lookup(c, k) PROVE AuditInv'
  BY <1>0, <1>1 DEF Lookup
<1>2. ASSUME NEW c \in Calls, InsertRefused(c) PROVE AuditInv'
  BY <1>0, <1>2 DEF InsertRefused, AbsentRow
<1>3. ASSUME NEW c \in Submits, SubmitCreate(c) PROVE AuditInv'
  BY <1>0, <1>3 DEF SubmitCreate, AbsentRow, FreshRow
<1>4. ASSUME NEW c \in Submits, SubmitRetry(c) PROVE AuditInv'
  BY <1>0, <1>4 DEF SubmitRetry, AbsentRow, FreshRow, Flush, Column
<1>5. ASSUME NEW c \in Submits, SubmitExisting(c) PROVE AuditInv'
  BY <1>0, <1>5 DEF SubmitExisting, AbsentRow
<1>6. ASSUME NEW c \in Submits, Enqueue(c) PROVE AuditInv'
  BY <1>0, <1>6 DEF Enqueue
<1>7. ASSUME NEW c \in Submits, EnqueueRefused(c) PROVE AuditInv'
  BY <1>0, <1>7 DEF EnqueueRefused
<1>8. ASSUME NEW c \in SyncCalls, SyncCached(c) PROVE AuditInv'
  BY <1>0, <1>8 DEF SyncCached, AbsentRow
<1>9. ASSUME NEW c \in SyncCalls, SyncConflict(c) PROVE AuditInv'
  BY <1>0, <1>9 DEF SyncConflict, AbsentRow
<1>10. ASSUME NEW c \in SyncCalls, SyncMarkRunning(c) PROVE AuditInv'
  BY <1>0, <1>10 DEF SyncMarkRunning, AbsentRow, FreshRow
<1>11. ASSUME NEW c \in SyncCalls, SyncSucceed(c) PROVE AuditInv'
  <2>1. c \in Actors /\ key[c] \in Keys /\ StoredFor(key[c], audit[c])
    BY <1>11 DEF SyncSucceed
  <2>2. audit[c] # 0
    BY <2>1 DEF StoredFor, SavedFor
  <2>. QED
    BY <1>0, <1>11, <2>1, <2>2 DEF SyncSucceed, Row
<1>12. ASSUME NEW c \in SyncCalls, SyncFail(c) PROVE AuditInv'
  BY <1>0, <1>12 DEF SyncFail, Row
<1>13. ASSUME NEW w \in Workers, StartJob(w) PROVE AuditInv'
  BY <1>0, <1>13 DEF StartJob, Row
<1>14. ASSUME NEW w \in Workers, MarkSuccess(w) PROVE AuditInv'
  <2>1. w \in Actors /\ key[w] \in Keys /\ StoredFor(key[w], audit[w])
    BY <1>14 DEF MarkSuccess
  <2>2. audit[w] # 0
    BY <2>1 DEF StoredFor, SavedFor
  <2>. QED
    BY <1>0, <1>14, <2>1, <2>2 DEF MarkSuccess, Row
<1>15. ASSUME NEW w \in Workers, Notified(w) PROVE AuditInv'
  BY <1>0, <1>15 DEF Notified
<1>16. ASSUME NEW w \in Workers, MarkFailed(w) PROVE AuditInv'
  BY <1>0, <1>16 DEF MarkFailed, Row
<1>17. ASSUME NEW a \in Actors, SaveAudit(a) PROVE AuditInv'
  <2>1. key[a] \in Keys
    BY <1>17 DEF SaveAudit
  <2>2. audits' = Append(audits, [key |-> key[a], details |-> FALSE])
    BY <1>17 DEF SaveAudit
  <2>3. Len(audits') \in DOMAIN audits' /\ audits'[Len(audits')].key = key[a]
    BY <2>2
  <2>4. SavedFor(key[a], audit[a])'
    BY <1>17, <2>3 DEF SaveAudit, SavedFor
  <2>. QED
    BY <1>0, <1>17, <2>4 DEF SaveAudit
<1>18. ASSUME NEW a \in Actors, SaveTransactions(a) PROVE AuditInv'
  <2>1. SavedFor(key[a], audit[a]) /\ SavedFor(key[a], audit[a])'
    BY <1>0, <1>18 DEF SaveTransactions
  <2>2. audits' = [audits EXCEPT ![audit[a]].details = TRUE]
    BY <1>18 DEF SaveTransactions
  <2>3. audits[audit[a]] \in [key: Keys, details: BOOLEAN]
    <3> DEFINE S == [key: Keys, details: BOOLEAN]
    <3>1. audits \in Seq(S)
      OBVIOUS
    <3>. HIDE DEF S
    <3>2. audits[audit[a]] \in S
      BY <2>1, <3>1 DEF SavedFor
    <3>. QED
      BY <3>2 DEF S
  <2>4. audits'[audit[a]].details
    BY <2>1, <2>2, <2>3 DEF SavedFor
  <2>5. StoredFor(key[a], audit[a])'
    BY <1>18, <2>1, <2>4 DEF SaveTransactions, StoredFor
  <2>. QED
    BY <1>0, <1>18, <2>5 DEF SaveTransactions
<1>19. CASE RecoverRead
  BY <1>0, <1>19 DEF RecoverRead
<1>20. CASE RecoverWrite
  BY <1>0, <1>20 DEF RecoverWrite, Flush, Column, Row
<1>21. ASSUME NEW k \in Keys, RecoverEnqueue(k) PROVE AuditInv'
  BY <1>0, <1>21 DEF RecoverEnqueue
<1>22. CASE Shutdown
  BY <1>0, <1>22 DEF Shutdown
<1>23. CASE Vanish
  BY <1>0, <1>23 DEF Vanish, AbsentRow
<1>24. CASE Boot
  BY <1>0, <1>24 DEF Boot
<1>25. CASE UNCHANGED vars
  BY <1>0, <1>25 DEF vars
<1>. HIDE DEF AuditInv, Typing, TypeOK, KeyInv, process, Goto, Release, Store
<1>. QED
  BY <1>1, <1>2, <1>3, <1>4, <1>5, <1>6, <1>7, <1>8, <1>9, <1>10,
     <1>11, <1>12, <1>13, <1>14, <1>15, <1>16, <1>17, <1>18, <1>19,
     <1>20, <1>21, <1>22, <1>23, <1>24, <1>25
  DEF Next, Submit, Sync, Execute, RunJob, Recover, Exit, Crash

\* A job that says succeeded, and a 200 answer, point to an audit of their
\* own key that is stored with its transactions.
THEOREM SucceededJobsHaveAudits == Spec => []SucceededHasAudit
<1>1. Init => Typing /\ AuditInv
  BY TypingInit, AuditInit
<1>2. Typing /\ AuditInv /\ [Next]_vars => (Typing /\ AuditInv)'
  BY TypingNext, AuditNext
<1>3. AuditInv => SucceededHasAudit
  BY DEF AuditInv, SucceededHasAudit
<1>. QED
  BY <1>1, <1>2, <1>3, PTL DEF Spec
-----------------------------------------------------------------------------
(* Deduplication.                                                          *)

\* What the row of a key that does not fail, and the copies of it that calls
\* and the recovery hold, look like: nobody has a reason to run it again, and
\* what the recovery touches is marked by it.
Steady(k) ==
  /\ jobs[k].status # "failed"
  /\ jobs[k].error = "recovered" => jobs[k].status # "absent"
  /\ \A c \in Calls : pc[c] = "decide" /\ key[c] = k =>
       /\ snap[c].status # "failed"
       /\ snap[c].status = "succeeded" => snap[c].result # 0
  /\ rec.pc = "write" /\ k \in rec.todo =>
       /\ jobs[k].status # "absent"
       /\ rec.snap[k].error = "recovered" => jobs[k].error = "recovered"
  /\ rec.pc = "enqueue" /\ k \in rec.todo => jobs[k].error = "recovered"

\* A row that is there stays, and so does the mark of the recovery.
RowKept(k) ==
  /\ jobs[k].status # "absent" => jobs'[k].status # "absent"
  /\ jobs[k].error = "recovered" => jobs'[k].error = "recovered"

LEMMA SteadyInit == ASSUME Init, NEW k \in Keys PROVE Steady(k)
BY DEF Init, Steady, AbsentRow, Idle

LEMMA SteadyNext ==
  ASSUME Typing, PhaseInv, AuditInv, NEW k \in Keys \ FailingKeys, Steady(k), [Next]_vars
  PROVE  Steady(k)' /\ RowKept(k)
<1> DEFINE Goal == Steady(k)' /\ RowKept(k)
<1> USE DEF Steady, RowKept, Typing, TypeOK, KeyInv, process, Goto, Release, Store
<1>1. ASSUME NEW c \in Calls, NEW j \in Keys, Lookup(c, j) PROVE Goal
  BY <1>1 DEF Lookup, AuditInv
<1>2. ASSUME NEW c \in Calls, InsertRefused(c) \/ SyncConflict(c) PROVE Goal
  BY <1>2 DEF InsertRefused, SyncConflict
<1>3. ASSUME NEW c \in Submits, SubmitCreate(c) PROVE Goal
  BY <1>3 DEF SubmitCreate, FreshRow
<1>4. ASSUME NEW c \in Submits, SubmitRetry(c) PROVE Goal
  BY <1>4 DEF SubmitRetry
<1>5. ASSUME NEW c \in Submits, SubmitExisting(c) \/ Enqueue(c) \/ EnqueueRefused(c) PROVE Goal
  <2>1. CASE SubmitExisting(c)
    BY <2>1 DEF SubmitExisting
  <2>2. CASE Enqueue(c)
    BY <2>2 DEF Enqueue
  <2>3. CASE EnqueueRefused(c)
    BY <2>3 DEF EnqueueRefused
  <2> QED
    BY <1>5, <2>1, <2>2, <2>3
<1>6. ASSUME NEW c \in SyncCalls, SyncCached(c) PROVE Goal
  BY <1>6 DEF SyncCached
<1>7. ASSUME NEW c \in SyncCalls, SyncMarkRunning(c) PROVE Goal
  BY <1>7 DEF SyncMarkRunning, FreshRow
<1>8. ASSUME NEW c \in SyncCalls, SyncSucceed(c) PROVE Goal
  BY <1>8 DEF SyncSucceed, Row
<1>9. ASSUME NEW c \in SyncCalls, SyncFail(c) PROVE Goal
  BY <1>9 DEF SyncFail
<1>10. ASSUME NEW a \in Actors, SaveAudit(a) \/ SaveTransactions(a) PROVE Goal
  BY <1>10 DEF SaveAudit, SaveTransactions
<1>11. ASSUME NEW w \in Workers, StartJob(w) PROVE Goal
  <2>1. Head(queue) \in Keys
    BY <1>11 DEF StartJob
  <2>2. jobs[Head(queue)] \in Row
    BY <2>1
  <2> QED
    BY <1>11, <2>1, <2>2 DEF StartJob, Row
<1>12. ASSUME NEW w \in Workers, MarkSuccess(w) PROVE Goal
  BY <1>12 DEF MarkSuccess, Row
<1>13. ASSUME NEW w \in Workers, Notified(w) PROVE Goal
  BY <1>13 DEF Notified
<1>14. ASSUME NEW w \in Workers, MarkFailed(w) PROVE Goal
  BY <1>14 DEF MarkFailed
<1>15. ASSUME RecoverRead PROVE Goal
  <2>1. CASE rec' = Idle
    BY <1>15, <2>1 DEF RecoverRead, Idle
  <2>2. CASE rec' # Idle
    <3>1. /\ rec'.pc = "write" /\ rec'.todo = {j \in Keys : Incomplete(jobs[j])}
          /\ \A j \in rec'.todo : rec'.snap[j] = jobs[j]
          /\ UNCHANGED <<jobs, pc, key, snap>>
      BY <1>15, <2>2 DEF RecoverRead
    <3> QED
      BY <3>1 DEF Incomplete
  <2> QED
    BY <2>1, <2>2
<1>16. ASSUME RecoverWrite PROVE Goal
  BY <1>16 DEF RecoverWrite, Flush, Column, Row
<1>17. ASSUME NEW j \in Keys, RecoverEnqueue(j) PROVE Goal
  BY <1>17 DEF RecoverEnqueue, Idle
<1>18. ASSUME Shutdown PROVE Goal
  BY <1>18 DEF Shutdown
<1>19. ASSUME Vanish PROVE Goal
  BY <1>19 DEF Vanish, Idle
<1>20. ASSUME Boot PROVE Goal
  BY <1>20 DEF Boot, Idle
<1>21. ASSUME UNCHANGED vars PROVE Goal
  BY <1>21 DEF vars
<1> HIDE DEF Steady, RowKept, Typing, TypeOK, KeyInv, process, Goto, Release, Store, Goal
<1>30. Goal
  BY <1>1, <1>2, <1>3, <1>4, <1>5, <1>6, <1>7, <1>8, <1>9, <1>10, <1>11, <1>12, <1>13,
     <1>14, <1>15, <1>16, <1>17, <1>18, <1>19, <1>20, <1>21
  DEF Next, Submit, Sync, Execute, RunJob, Recover, Exit, Crash
<1> QED
  BY <1>30 DEF Goal

\* Everything that is or may yet become an audit of k.
Queued(k)  == {i \in DOMAIN queue : queue[i] = k}
Holders(k) == {a \in Actors : key[a] = k /\ pc[a] \in {"enqueue", "exec"}}

Lone(S) == \A x, y \in S : x = y

\* There is at most one of them.
OneChance(k) ==
  /\ Lone(Queued(k)) /\ Lone(Holders(k)) /\ Lone(AuditsOf(k))
  /\ Queued(k) = {} \/ Holders(k) = {}
  /\ Queued(k) = {} \/ AuditsOf(k) = {}
  /\ Holders(k) = {} \/ AuditsOf(k) = {}

NoChance(k) == Queued(k) = {} /\ Holders(k) = {} /\ AuditsOf(k) = {}

ChanceInv(k) ==
  jobs[k].error # "recovered" =>
    OneChance(k) /\ (jobs[k].status = "absent" => NoChance(k))

LEMMA ChanceInit == ASSUME Init, NEW k \in Keys PROVE ChanceInv(k)
BY DEF Init, ChanceInv, OneChance, NoChance, Lone, Queued, Holders, AuditsOf

\* Fewer chances are not more than one.
LEMMA FewerChances ==
  ASSUME NEW k, RowKept(k), ChanceInv(k), Queued(k)' \subseteq Queued(k),
         Holders(k)' \subseteq Holders(k), AuditsOf(k)' \subseteq AuditsOf(k)
  PROVE  ChanceInv(k)'
BY DEF RowKept, ChanceInv, OneChance, NoChance, Lone

\* An append leaves the elements where they are.
LEMMA AppendAt ==
  ASSUME NEW S, NEW q \in Seq(S), NEW e \in S, NEW r, r = Append(q, e)
  PROVE  \A i \in DOMAIN r : \/ i = Len(q) + 1 /\ r[i] = e
                             \/ i \in DOMAIN q /\ r[i] = q[i]
<1>. SUFFICES ASSUME NEW i \in DOMAIN Append(q, e)
              PROVE  \/ i = Len(q) + 1 /\ Append(q, e)[i] = e
                     \/ i \in DOMAIN q /\ Append(q, e)[i] = q[i]
  OBVIOUS
<1>1. DOMAIN Append(q, e) = 1 .. Len(q) + 1 /\ DOMAIN q = 1 .. Len(q)
  OBVIOUS
<1>2. CASE i = Len(q) + 1
  BY <1>2
<1>3. CASE i # Len(q) + 1
  <2>1. i \in 1 .. Len(q)
    BY <1>1, <1>3
  <2>. QED
    BY <1>1, <2>1
<1>. QED
  BY <1>2, <1>3

LEMMA ChanceNext ==
  ASSUME Typing, PhaseInv, AuditInv, NEW k \in Keys \ FailingKeys, Steady(k), ChanceInv(k),
         [Next]_vars
  PROVE  ChanceInv(k)'
<1>0. RowKept(k)
  BY SteadyNext
<1> USE DEF Typing, TypeOK, KeyInv, process, Goto, Release, Store
\* A step that neither queues, nor runs, nor stores anything new.
<1>1. ASSUME Queued(k)' \subseteq Queued(k), UNCHANGED audits,
             \A a \in Actors : key'[a] = k /\ pc'[a] \in {"enqueue", "exec"} =>
                                 key[a] = k /\ pc[a] \in {"enqueue", "exec"}
      PROVE  ChanceInv(k)'
  <2>1. Holders(k)' \subseteq Holders(k) /\ AuditsOf(k)' \subseteq AuditsOf(k)
    BY <1>1 DEF Holders, AuditsOf
  <2> QED
    BY <1>0, <1>1, <2>1, FewerChances
<1>2. queue' = queue => Queued(k)' \subseteq Queued(k)
  BY DEF Queued
<1>3. queue' = << >> => Queued(k)' \subseteq Queued(k)
  BY DEF Queued
\* A call that found no row and inserts one: it has the only chance.
<1>4. ASSUME NEW c \in Calls, snap[c].status = "absent", pc[c] = "decide",
             jobs[key[c]].status = "absent", jobs'[key[c]].status # "absent",
             UNCHANGED <<queue, audits, key>>,
             \E to \in {"enqueue", "exec"} : pc' = [pc EXCEPT ![c] = to]
      PROVE  ChanceInv(k)'
  <2>1. CASE key[c] = k
    <3>1. jobs[k].error # "recovered" /\ NoChance(k)
      BY <1>4, <2>1 DEF Steady, ChanceInv
    <3>2. Holders(k)' \subseteq {c}
      BY <1>4, <3>1 DEF NoChance, Holders
    <3>3. Queued(k)' = {} /\ AuditsOf(k)' = {}
      BY <1>4, <3>1 DEF NoChance, Queued, AuditsOf
    <3>4. c \in Holders(k)'
      BY <1>4, <2>1 DEF Holders
    <3>5. OneChance(k)'
      BY <3>2, <3>3 DEF OneChance, Lone
    <3> QED
      BY <1>4, <2>1, <3>5 DEF ChanceInv
  <2>2. CASE key[c] # k
    BY <1>1, <1>2, <1>4, <2>2
  <2> QED
    BY <2>1, <2>2
<1>5. ASSUME jobs[k].error = "recovered" PROVE ChanceInv(k)'
  BY <1>0, <1>5 DEF RowKept, ChanceInv
\* The one chance goes on to its next place.
<1>6. ASSUME jobs[k].error # "recovered", jobs[k].status # "absent",
             Lone(Queued(k)'), Lone(Holders(k)'), Lone(AuditsOf(k)'),
             Queued(k)' = {} \/ Holders(k)' = {},
             Queued(k)' = {} \/ AuditsOf(k)' = {},
             Holders(k)' = {} \/ AuditsOf(k)' = {}
      PROVE  ChanceInv(k)'
  BY <1>0, <1>6 DEF RowKept, ChanceInv, OneChance, Lone
<1>7. ASSUME NEW c \in Submits, SubmitCreate(c) PROVE ChanceInv(k)'
  BY <1>4, <1>7 DEF SubmitCreate, FreshRow
<1>8. ASSUME NEW c \in SyncCalls, SyncMarkRunning(c) PROVE ChanceInv(k)'
  <2>1. CASE key[c] = k
    <3>1. snap[c].status = "absent" /\ jobs[k].status = "absent"
      BY <1>8, <2>1 DEF SyncMarkRunning, Steady
    <3> QED
      BY <1>4, <1>8, <2>1, <3>1 DEF SyncMarkRunning, FreshRow
  <2>2. CASE key[c] # k
    BY <1>1, <1>2, <1>8, <2>2 DEF SyncMarkRunning
  <2> QED
    BY <2>1, <2>2
<1>9. ASSUME NEW c \in Submits, Enqueue(c) PROVE ChanceInv(k)'
  <2>1. queue' = Append(queue, key[c]) /\ queue \in Seq(Keys) /\ key[c] \in Keys
    BY <1>9 DEF Enqueue
  <2>2. \A i \in DOMAIN queue' : \/ i = Len(queue) + 1 /\ queue'[i] = key[c]
                                 \/ i \in DOMAIN queue /\ queue'[i] = queue[i]
    <3> HIDE DEF Typing, TypeOK, KeyInv, process, Goto, Release, Store
    <3> QED
      BY <2>1, AppendAt
  <2>3. CASE key[c] = k /\ jobs[k].error # "recovered"
    <3>1. c \in Holders(k)
      BY <1>9, <2>3 DEF Enqueue, Holders
    <3>2. Holders(k) = {c} /\ Queued(k) = {} /\ AuditsOf(k) = {} /\ jobs[k].status # "absent"
      BY <2>3, <3>1 DEF ChanceInv, OneChance, NoChance, Lone
    <3>3. Holders(k)' = {}
      BY <1>9, <3>2 DEF Enqueue, Holders
    <3>4. Queued(k)' \subseteq {Len(queue) + 1}
      BY <2>2, <3>2 DEF Queued
    <3>5. AuditsOf(k)' = {}
      BY <1>9, <3>2 DEF Enqueue, AuditsOf
    <3> QED
      BY <1>6, <2>3, <3>2, <3>3, <3>4, <3>5 DEF Lone
  <2>4. CASE key[c] # k
    <3>1. Queued(k)' \subseteq Queued(k)
      BY <2>2, <2>4 DEF Queued
    <3> QED
      BY <1>1, <1>9, <3>1 DEF Enqueue
  <2> QED
    BY <1>5, <2>3, <2>4
<1>10. ASSUME NEW w \in Workers, StartJob(w), jobs[k].error # "recovered" PROVE ChanceInv(k)'
  <2>1. /\ queue \in Seq(Keys) /\ queue # << >> /\ queue' = Tail(queue)
        /\ key' = [key EXCEPT ![w] = Head(queue)] /\ pc' = [pc EXCEPT ![w] = "exec"]
        /\ pc[w] = "idle" /\ UNCHANGED audits
    BY <1>10 DEF StartJob
  <2>2. \A i \in Queued(k)' : i \in Nat \ {0} /\ i + 1 \in Queued(k)
    BY <2>1 DEF Queued
  <2>3. AuditsOf(k)' = AuditsOf(k)
    BY <2>1 DEF AuditsOf
  <2>4. CASE Head(queue) = k
    <3>1. 1 \in Queued(k)
      BY <2>1, <2>4 DEF Queued
    <3>2. Queued(k) = {1} /\ Holders(k) = {} /\ AuditsOf(k) = {} /\ jobs[k].status # "absent"
      BY <1>10, <3>1 DEF ChanceInv, OneChance, NoChance, Lone
    <3>3. Queued(k)' = {}
      BY <2>2, <3>2
    <3>4. Holders(k)' \subseteq {w}
      BY <2>1, <3>2 DEF Holders
    <3> QED
      BY <1>6, <1>10, <2>3, <3>2, <3>3, <3>4 DEF Lone
  <2>5. CASE Head(queue) # k
    <3>1. Holders(k)' \subseteq Holders(k)
      BY <2>1, <2>5 DEF Holders
    <3>2. OneChance(k) /\ (jobs[k].status = "absent" => NoChance(k))
      BY <1>10 DEF ChanceInv
    <3>3. Lone(Queued(k)')
      <4>1. ASSUME NEW i \in Queued(k)', NEW j \in Queued(k)' PROVE i = j
        BY <2>2, <3>2 DEF OneChance, Lone
      <4> QED
        BY <4>1 DEF Lone
    <3>4. Queued(k) = {} => Queued(k)' = {}
      BY <2>2
    <3>5. CASE jobs[k].status = "absent"
      <4>1. Queued(k)' = {} /\ Holders(k)' = {} /\ AuditsOf(k)' = {}
        BY <2>3, <3>1, <3>2, <3>4, <3>5 DEF NoChance
      <4> QED
        BY <4>1 DEF ChanceInv, OneChance, NoChance, Lone
    <3>6. CASE jobs[k].status # "absent"
      BY <1>6, <1>10, <2>3, <3>1, <3>2, <3>3, <3>4, <3>6 DEF OneChance, Lone
    <3> QED
      BY <3>5, <3>6
  <2> QED
    BY <2>4, <2>5
<1>11. ASSUME NEW a \in Actors, SaveAudit(a), jobs[k].error # "recovered" PROVE ChanceInv(k)'
  <2>1. /\ pc[a] = "exec" /\ pc' = [pc EXCEPT ![a] = "saved"] /\ UNCHANGED <<key, queue>>
        /\ audits' = Append(audits, [key |-> key[a], details |-> FALSE])
    BY <1>11 DEF SaveAudit
  <2> DEFINE S == [key: Keys, details: BOOLEAN]
             e == [key |-> key[a], details |-> FALSE]
  <2>2. audits \in Seq(S) /\ e \in S /\ audits' = Append(audits, e) /\ e.key = key[a]
    BY <2>1
  <2>3. \A i \in DOMAIN audits' : \/ i = Len(audits) + 1 /\ audits'[i].key = key[a]
                                  \/ i \in DOMAIN audits /\ audits'[i] = audits[i]
    <3> HIDE DEF S, e
    <3> HIDE DEF Typing, TypeOK, KeyInv, process, Goto, Release, Store
    <3>1. \A i \in DOMAIN audits' : \/ i = Len(audits) + 1 /\ audits'[i] = e
                                    \/ i \in DOMAIN audits /\ audits'[i] = audits[i]
      BY <2>2, AppendAt
    <3> QED
      BY <2>2, <3>1
  <2>4. Queued(k)' = Queued(k)
    BY <2>1 DEF Queued
  <2>5. CASE key[a] = k
    <3>1. a \in Holders(k)
      BY <2>1, <2>5 DEF Holders
    <3>2. Holders(k) = {a} /\ Queued(k) = {} /\ AuditsOf(k) = {} /\ jobs[k].status # "absent"
      BY <1>11, <3>1 DEF ChanceInv, OneChance, NoChance, Lone
    <3>3. Holders(k)' = {}
      BY <2>1, <3>2 DEF Holders
    <3>4. AuditsOf(k)' \subseteq {Len(audits) + 1}
      BY <2>3, <3>2 DEF AuditsOf
    <3> QED
      BY <1>6, <1>11, <2>4, <3>2, <3>3, <3>4 DEF Lone
  <2>6. CASE key[a] # k
    <3>1. AuditsOf(k)' \subseteq AuditsOf(k)
      BY <2>3, <2>6 DEF AuditsOf
    <3>2. Holders(k)' \subseteq Holders(k)
      BY <2>1 DEF Holders
    <3> QED
      BY <1>0, <2>4, <3>1, <3>2, FewerChances
  <2> QED
    BY <2>5, <2>6
<1>12. ASSUME NEW a \in Actors, SaveTransactions(a) PROVE ChanceInv(k)'
  <2>1. /\ pc' = [pc EXCEPT ![a] = "persisted"] /\ UNCHANGED <<key, queue>>
        /\ audits' = [audits EXCEPT ![audit[a]].details = TRUE]
    BY <1>12 DEF SaveTransactions
  <2> DEFINE S == [key: Keys, details: BOOLEAN]
  <2>2. audits \in Seq(S)
    OBVIOUS
  <2>3. ASSUME NEW i \in DOMAIN audits'
        PROVE  i \in DOMAIN audits /\ audits'[i].key = audits[i].key
    <3>1. i \in DOMAIN audits
      BY <2>1
    <3>2. audits[i] \in S
      <4> HIDE DEF S
      <4> QED
        BY <2>2, <3>1
    <3> QED
      BY <2>1, <3>1, <3>2
  <2>4. AuditsOf(k)' \subseteq AuditsOf(k)
    BY <2>3 DEF AuditsOf
  <2>5. Queued(k)' = Queued(k) /\ Holders(k)' \subseteq Holders(k)
    BY <2>1 DEF Queued, Holders
  <2> QED
    BY <1>0, <2>4, <2>5, FewerChances
<1>13. ASSUME NEW j \in Keys, RecoverEnqueue(j) PROVE ChanceInv(k)'
  <2>1. CASE j = k
    BY <1>5, <1>13, <2>1 DEF RecoverEnqueue, Steady
  <2>2. CASE j # k
    <3>1. queue' = Append(queue, j) /\ queue \in Seq(Keys)
      BY <1>13 DEF RecoverEnqueue
    <3>2. \A i \in DOMAIN queue' : \/ queue'[i] = j
                                   \/ i \in DOMAIN queue /\ queue'[i] = queue[i]
      <4> HIDE DEF Typing, TypeOK, KeyInv, process, Goto, Release, Store
      <4> QED
        BY <3>1, AppendAt
    <3>3. Queued(k)' \subseteq Queued(k)
      BY <2>2, <3>2 DEF Queued
    <3> QED
      BY <1>1, <1>13, <3>3 DEF RecoverEnqueue
  <2> QED
    BY <2>1, <2>2
<1>14. ASSUME NEW c \in Calls, NEW j \in Keys, Lookup(c, j) PROVE ChanceInv(k)'
  BY <1>1, <1>2, <1>14 DEF Lookup
<1>15. ASSUME NEW c \in Calls, InsertRefused(c) \/ SyncConflict(c) PROVE ChanceInv(k)'
  BY <1>1, <1>2, <1>15 DEF InsertRefused, SyncConflict
<1>16. ASSUME NEW c \in Submits, SubmitRetry(c) PROVE ChanceInv(k)'
  <2>1. key[c] # k
    BY <1>16 DEF SubmitRetry, Steady
  <2> QED
    BY <1>1, <1>2, <1>16, <2>1 DEF SubmitRetry
<1>17. ASSUME NEW c \in Submits, SubmitExisting(c) \/ EnqueueRefused(c) PROVE ChanceInv(k)'
  BY <1>1, <1>2, <1>17 DEF SubmitExisting, EnqueueRefused
<1>18. ASSUME NEW c \in SyncCalls, SyncCached(c) \/ SyncSucceed(c) \/ SyncFail(c) PROVE ChanceInv(k)'
  BY <1>1, <1>2, <1>18 DEF SyncCached, SyncSucceed, SyncFail
<1>19. ASSUME NEW w \in Workers, MarkSuccess(w) \/ Notified(w) \/ MarkFailed(w) PROVE ChanceInv(k)'
  BY <1>1, <1>2, <1>19 DEF MarkSuccess, Notified, MarkFailed
<1>20. CASE RecoverRead \/ RecoverWrite \/ Boot
  BY <1>1, <1>2, <1>20 DEF RecoverRead, RecoverWrite, Boot
<1>21. CASE Shutdown \/ Vanish
  BY <1>1, <1>3, <1>21 DEF Shutdown, Vanish
<1>22. CASE UNCHANGED vars
  BY <1>1, <1>2, <1>22 DEF vars
<1> HIDE DEF Typing, TypeOK, KeyInv, process, Goto, Release, Store
<1> QED
  BY <1>5, <1>7, <1>8, <1>9, <1>10, <1>11, <1>12, <1>13, <1>14, <1>15, <1>16, <1>17,
     <1>18, <1>19, <1>20, <1>21, <1>22
  DEF Next, Submit, Sync, Execute, RunJob, Recover, Exit, Crash

DedupInv == \A k \in Keys \ FailingKeys : Steady(k) /\ ChanceInv(k)

LEMMA DedupFollows == ASSUME DedupInv PROVE DeduplicatedUnlessRetried
<1> SUFFICES ASSUME NEW k \in Keys \ FailingKeys, jobs[k].error # "recovered"
             PROVE  Cardinality(AuditsOf(k)) <= 1
  BY DEF DeduplicatedUnlessRetried
<1>1. Lone(AuditsOf(k))
  BY DEF DedupInv, ChanceInv, OneChance
<1>2. CASE AuditsOf(k) = {}
  BY <1>2, FS_EmptySet
<1>3. ASSUME NEW i \in AuditsOf(k) PROVE Cardinality(AuditsOf(k)) <= 1
  <2>1. AuditsOf(k) = {i}
    BY <1>1, <1>3 DEF Lone
  <2>2. Cardinality({i}) = 1
    BY FS_Singleton
  <2> QED
    BY <2>1, <2>2
<1> QED
  BY <1>2, <1>3

\* Calls with one key store one audit, however they race, unless the execution
\* fails or a restart recovers the row: AuditJobService.submit and
\* run_audit_sync look the row up and the unique index refuses the second
\* insert, for any number of calls and threads.
THEOREM OneAuditPerKey == Spec => []DeduplicatedUnlessRetried
<1> DEFINE Inv == Typing /\ PhaseInv /\ AuditInv /\ DedupInv
<1>1. Init => Inv
  BY TypingInit, PhaseInit, AuditInit, SteadyInit, ChanceInit DEF DedupInv
<1>2. Inv /\ [Next]_vars => Inv'
  <2> SUFFICES ASSUME Inv, [Next]_vars PROVE Inv'
    OBVIOUS
  <2>1. DedupInv'
    BY SteadyNext, ChanceNext DEF DedupInv
  <2> QED
    BY <2>1, TypingNext, PhaseNext, AuditNext
<1>3. Inv => DeduplicatedUnlessRetried
  BY DedupFollows
<1> QED
  BY <1>1, <1>2, <1>3, PTL DEF Spec
-----------------------------------------------------------------------------
(* The table implements JobLedger.                                         *)

There(k) == jobs[k].status # "absent"

\* Who has something to do with a key has it from a row.
ThereInv ==
  /\ \A a \in Actors : pc[a] \in {"enqueue", "exec", "saved", "persisted", "notify"} => There(key[a])
  /\ \A k \in Keys : Has(queue, k) => There(k)
  /\ rec.pc \in {"write", "enqueue"} => \A k \in rec.todo : There(k)

LEMMA ThereInit == Init => ThereInv
BY DEF Init, ThereInv, Has, Idle

\* No row ever goes away.
LEMMA ThereStays ==
  ASSUME Typing, [Next]_vars, NEW k \in Keys, There(k)
  PROVE  There(k)'
<1> USE DEF There, Typing, TypeOK, KeyInv, Store, Goto, Release
<1>1. ASSUME UNCHANGED jobs PROVE There(k)'
  BY <1>1
\* What is written into a row.
<1>2. ASSUME NEW q, NEW r, jobs' = [jobs EXCEPT ![q] = r], r.status # "absent" PROVE There(k)'
  BY <1>2
<1>3. ASSUME NEW c \in Calls, SubmitCreate(c) PROVE There(k)'
  <2>1. jobs' = [jobs EXCEPT ![key[c]] = FreshRow("queued")]
    BY <1>3, Zenon DEF SubmitCreate
  <2>2. FreshRow("queued").status # "absent"
    BY DEF FreshRow
  <2> QED
    BY <1>2, <2>1, <2>2, Zenon
<1>4. ASSUME NEW c \in Calls, SubmitRetry(c) PROVE There(k)'
  <2>1. PICK r : /\ jobs' = [jobs EXCEPT ![key[c]] = r]
                 /\ r = Flush(jobs[key[c]], snap[c], FreshRow("queued"))
    BY <1>4, Zenon DEF SubmitRetry
  <2>2. snap[c].status = "failed"
    BY <1>4, Zenon DEF SubmitRetry
  <2>3. r.status # "absent"
    BY <2>1, <2>2 DEF Flush, Column, FreshRow
  <2> QED
    BY <1>2, <2>1, <2>3, Zenon
<1>5. ASSUME NEW c \in Calls, SyncMarkRunning(c) PROVE There(k)'
  <2>1. jobs' = [jobs EXCEPT ![key[c]] = FreshRow("running")]
    BY <1>5, Zenon DEF SyncMarkRunning
  <2>2. FreshRow("running").status # "absent"
    BY DEF FreshRow
  <2> QED
    BY <1>2, <2>1, <2>2, Zenon
\* Those that write into the row of k what it said before, but for its status.
<1>6. ASSUME NEW q, NEW status, status # "absent", jobs'[k].status = IF q = k THEN status ELSE jobs[k].status
      PROVE  There(k)'
  BY <1>6
<1>8. ASSUME NEW c \in Calls, SyncSucceed(c) PROVE There(k)'
  BY <1>6, <1>8 DEF SyncSucceed, Row
<1>9. ASSUME NEW c \in Calls, SyncFail(c) PROVE There(k)'
  BY <1>6, <1>9 DEF SyncFail, Row
<1>10. ASSUME NEW w \in Workers, MarkSuccess(w) PROVE There(k)'
  BY <1>6, <1>10 DEF MarkSuccess, Row
<1>11. ASSUME NEW w \in Workers, MarkFailed(w) PROVE There(k)'
  BY <1>6, <1>11 DEF MarkFailed, Row
<1>12. ASSUME NEW w \in Workers, StartJob(w) PROVE There(k)'
  BY <1>6, <1>12 DEF StartJob, Row
<1>7. CASE RecoverWrite
  BY <1>7 DEF RecoverWrite, Flush, Column, Row
<1> HIDE DEF There, Typing, TypeOK, KeyInv, Store, Goto, Release
<1> QED
  BY <1>1, <1>3, <1>4, <1>5, <1>7, <1>8, <1>9, <1>10, <1>11, <1>12
  DEF Next, Lookup, Submit, InsertRefused, SubmitExisting, Enqueue, EnqueueRefused,
      Sync, SyncCached, SyncConflict, Execute, SaveAudit, SaveTransactions, RunJob, Notified,
      Recover, RecoverRead, RecoverEnqueue, Shutdown, Exit, Crash, Vanish, Boot, vars

LEMMA ThereNext ==
  ASSUME Typing, PhaseInv, ThereInv, [Next]_vars
  PROVE  ThereInv'
<1> DEFINE Busy == {"enqueue", "exec", "saved", "persisted", "notify"}
<1>1. \A k \in Keys : There(k) => There(k)'
  BY ThereStays
<1>2. /\ \A a \in Actors : pc[a] \in Busy => key[a] \in Keys /\ There(key[a])
      /\ \A k \in Keys : Has(queue, k) => There(k)
      /\ rec.pc \in {"write", "enqueue"} => \A k \in rec.todo : There(k)
      /\ rec.todo \subseteq Keys
  BY DEF ThereInv, Typing, KeyInv, TypeOK
<1>3. ASSUME \A a \in Actors : pc'[a] \in Busy =>
               \E k \in Keys : key'[a] = k /\ (There(k) \/ There(k)'),
             \A k \in Keys : Has(queue', k) => There(k),
             rec'.pc \in {"write", "enqueue"} => \A k \in rec'.todo : k \in Keys /\ There(k)
      PROVE  ThereInv'
  <2>1. ASSUME NEW a \in Actors, pc'[a] \in Busy PROVE jobs'[key'[a]].status # "absent"
    BY <1>1, <1>3, <2>1 DEF There
  <2>2. \A k \in Keys : Has(queue', k) => There(k)'
    BY <1>1, <1>3
  <2>3. rec'.pc \in {"write", "enqueue"} => \A k \in rec'.todo : There(k)'
    BY <1>1, <1>3
  <2> QED
    BY <2>1, <2>2, <2>3 DEF ThereInv, There, Has
\* A step of one actor.
<1>4. ASSUME NEW a \in Actors, \A b \in Actors \ {a} : pc'[b] = pc[b] /\ key'[b] = key[b],
             pc'[a] \in Busy => \E k \in Keys : key'[a] = k /\ (There(k) \/ There(k)'),
             \A k \in Keys : Has(queue', k) => There(k),
             rec' = rec
      PROVE  ThereInv'
  <2>1. ASSUME NEW b \in Actors, pc'[b] \in Busy
        PROVE  \E k \in Keys : key'[b] = k /\ (There(k) \/ There(k)')
    BY <1>2, <1>4, <2>1
  <2> QED
    BY <1>2, <1>3, <1>4, <2>1
<1> USE DEF Typing, TypeOK, KeyInv, process, Goto, Release, Store
<1>5. ASSUME NEW c \in Calls, NEW k \in Keys, Lookup(c, k) PROVE ThereInv'
  BY <1>2, <1>4, <1>5 DEF Lookup
<1>6. ASSUME NEW c \in Calls,
             InsertRefused(c) \/ SubmitExisting(c) \/ EnqueueRefused(c) \/ SyncCached(c)
               \/ SyncConflict(c) \/ SyncSucceed(c) \/ SyncFail(c)
      PROVE  ThereInv'
  <2>1. /\ pc'[c] \notin Busy /\ queue' = queue /\ rec' = rec
        /\ \A b \in Actors \ {c} : pc'[b] = pc[b] /\ key'[b] = key[b]
    BY <1>6 DEF InsertRefused, SubmitExisting, EnqueueRefused, SyncCached,
       SyncConflict, SyncSucceed, SyncFail
  <2> QED
    BY <1>2, <1>4, <2>1
<1>7. ASSUME NEW c \in Calls, SubmitCreate(c) \/ SubmitRetry(c) \/ SyncMarkRunning(c) PROVE ThereInv'
  <2>1. /\ key[c] \in Keys /\ queue' = queue /\ rec' = rec /\ key' = key
        /\ \A b \in Actors \ {c} : pc'[b] = pc[b]
    BY <1>7 DEF SubmitCreate, SubmitRetry, SyncMarkRunning
  <2>2. PICK k \in Keys : k = key[c]
    BY <2>1
  <2>3. There(k)'
    BY <1>7, <2>2 DEF SubmitCreate, SubmitRetry, SyncMarkRunning, FreshRow, Flush, Column, There
  <2> QED
    BY <1>2, <1>4, <2>1, <2>2, <2>3
<1>8. ASSUME NEW c \in Calls, Enqueue(c) PROVE ThereInv'
  <2>1. queue' = Append(queue, key[c]) /\ key[c] \in Keys /\ queue \in Seq(Keys) /\ There(key[c])
    BY <1>2, <1>8 DEF Enqueue
  <2>2. \A k \in Keys : Has(queue', k) => There(k)
    BY <1>2, <2>1, AppendHas
  <2>3. /\ pc'[c] \notin Busy /\ rec' = rec /\ c \in Actors
        /\ \A b \in Actors \ {c} : pc'[b] = pc[b] /\ key'[b] = key[b]
    BY <1>8 DEF Enqueue
  <2> HIDE DEF Busy, Typing, TypeOK, KeyInv, process, Goto, Release, Store
  <2> QED
    BY <1>4, <2>2, <2>3
<1>9. ASSUME NEW a \in Actors, SaveAudit(a) \/ SaveTransactions(a) PROVE ThereInv'
  <2>1. /\ pc[a] \in Busy /\ key' = key /\ queue' = queue /\ rec' = rec
        /\ \A b \in Actors \ {a} : pc'[b] = pc[b]
    BY <1>9 DEF SaveAudit, SaveTransactions
  <2>2. key[a] \in Keys /\ There(key[a])
    BY <1>2, <2>1
  <2> QED
    BY <1>2, <1>4, <2>1, <2>2
<1>10. ASSUME NEW w \in Workers, StartJob(w) PROVE ThereInv'
  <2>1. queue \in Seq(Keys) /\ queue # << >> /\ queue' = Tail(queue)
    BY <1>10 DEF StartJob
  <2>2. Has(queue, Head(queue)) /\ Head(queue) \in Keys
    <3>1. 1 \in DOMAIN queue /\ queue[1] = Head(queue) /\ Head(queue) \in Keys
      BY <2>1
    <3> QED
      BY <3>1 DEF Has
  <2>3. There(Head(queue))
    BY <1>2, <2>2
  <2>5. ASSUME NEW k \in Keys, Has(queue', k) PROVE There(k)
    <3>1. Has(queue, k)
      BY <2>1, <2>5 DEF Has
    <3> QED
      BY <1>2, <3>1
  <2>4. /\ key'[w] = Head(queue) /\ rec' = rec
        /\ \A b \in Actors \ {w} : pc'[b] = pc[b] /\ key'[b] = key[b]
    BY <1>10 DEF StartJob
  <2> QED
    BY <1>4, <2>2, <2>3, <2>4, <2>5
<1>11. ASSUME NEW w \in Workers, MarkSuccess(w) \/ Notified(w) \/ MarkFailed(w) PROVE ThereInv'
  <2>1. /\ pc'[w] \in Busy => pc[w] \in Busy /\ key'[w] = key[w]
        /\ queue' = queue /\ rec' = rec
        /\ \A b \in Actors \ {w} : pc'[b] = pc[b] /\ key'[b] = key[b]
    BY <1>11 DEF MarkSuccess, Notified, MarkFailed
  <2> QED
    BY <1>2, <1>4, <2>1
<1>12. CASE RecoverRead
  <2>1. rec'.pc \in {"write", "enqueue"} => \A k \in rec'.todo : k \in Keys /\ There(k)
    <3>1. CASE rec' = Idle
      BY <3>1 DEF Idle
    <3>2. CASE rec' # Idle
      <4>1. rec'.todo = {k \in Keys : Incomplete(jobs[k])}
        BY <1>12, <3>2 DEF RecoverRead
      <4> QED
        BY <4>1 DEF Incomplete, There
    <3> QED
      BY <3>1, <3>2
  <2>2. queue' = queue /\ pc' = pc /\ key' = key
    BY <1>12 DEF RecoverRead
  <2> QED
    BY <1>2, <1>3, <2>1, <2>2
<1>13. CASE RecoverWrite
  <2>1. rec'.todo = rec.todo /\ rec.pc = "write" /\ queue' = queue /\ pc' = pc /\ key' = key
    BY <1>13 DEF RecoverWrite
  <2> QED
    BY <1>2, <1>3, <2>1
<1>14. ASSUME NEW j \in Keys, RecoverEnqueue(j) PROVE ThereInv'
  <2>1. queue' = Append(queue, j) /\ queue \in Seq(Keys) /\ There(j)
    BY <1>2, <1>14 DEF RecoverEnqueue
  <2>2. \A k \in Keys : Has(queue', k) => There(k)
    BY <1>2, <2>1, AppendHas
  <2>3. rec'.pc \in {"write", "enqueue"} => \A k \in rec'.todo : k \in Keys /\ There(k)
    BY <1>2, <1>14 DEF RecoverEnqueue, Idle
  <2> QED
    BY <1>2, <1>3, <1>14, <2>2, <2>3 DEF RecoverEnqueue
<1>15. CASE Shutdown \/ Vanish \/ Boot
  <2>1. \A k \in Keys : Has(queue', k) => There(k)
    BY <1>2, <1>15 DEF Shutdown, Vanish, Boot, Has
  <2>2. rec'.pc \in {"write", "enqueue"} => \A k \in rec'.todo : k \in Keys /\ There(k)
    BY <1>2, <1>15 DEF Shutdown, Vanish, Boot, Idle
  <2>3. \A a \in Actors : pc'[a] \in Busy => pc[a] = pc'[a] /\ key'[a] = key[a]
    BY <1>15 DEF Shutdown, Vanish, Boot
  <2> QED
    BY <1>2, <1>3, <2>1, <2>2, <2>3
<1>16. CASE UNCHANGED vars
  BY <1>2, <1>3, <1>16 DEF vars
<1> HIDE DEF Busy, Typing, TypeOK, KeyInv, process, Goto, Release, Store
<1> QED
  BY <1>5, <1>6, <1>7, <1>8, <1>9, <1>10, <1>11, <1>12, <1>13, <1>14, <1>15, <1>16
  DEF Next, Submit, Sync, Execute, RunJob, Recover, Exit, Crash

\* Who is to bring a key to its end, in the order of their turns.
Doers(k) == {a \in Actors : key[a] = k /\ pc[a] \in Owing}

\* Of a key that neither fails nor was taken up again, there is one of them,
\* and as long as there is, the row says so.
FlightInv(k) ==
  jobs[k].error # "recovered" =>
    /\ Lone(Doers(k))
    /\ Queued(k) = {} \/ Doers(k) = {}
    /\ Queued(k) # {} \/ Doers(k) # {} => Open(jobs[k])

LEMMA FlightInit == ASSUME Init, NEW k \in Keys PROVE FlightInv(k)
BY DEF Init, FlightInv, Lone, Queued, Doers, Owing

\* Whoever is done leaves fewer of them.
LEMMA FewerDoers ==
  ASSUME NEW k, RowKept(k), FlightInv(k), Queued(k)' \subseteq Queued(k),
         Doers(k)' \subseteq Doers(k),
         \/ Open(jobs[k]) => Open(jobs[k])'
         \/ Queued(k)' = {} /\ Doers(k)' = {}
  PROVE  FlightInv(k)'
BY DEF RowKept, FlightInv, Lone

LEMMA FlightNext ==
  ASSUME Typing, PhaseInv, AuditInv, NEW k \in Keys \ FailingKeys, Steady(k), ChanceInv(k),
         FlightInv(k), [Next]_vars
  PROVE  FlightInv(k)'
<1>0. RowKept(k)
  BY SteadyNext
<1> USE DEF Typing, TypeOK, KeyInv, process, Goto, Release, Store
\* A step that neither queues the key, nor starts it, nor ends it.
<1>1. ASSUME Queued(k)' \subseteq Queued(k), jobs'[k] = jobs[k],
             \A a \in Actors : key'[a] = k /\ pc'[a] \in Owing =>
                                 key[a] = k /\ pc[a] \in Owing
      PROVE  FlightInv(k)'
  <2>1. Doers(k)' \subseteq Doers(k)
    BY <1>1 DEF Doers
  <2> QED
    BY <1>0, <1>1, <2>1, FewerDoers
<1>2. queue' = queue \/ queue' = << >> => Queued(k)' \subseteq Queued(k)
  BY DEF Queued
\* A call that found no row and inserts one: nobody else works on it.
<1>3. ASSUME NEW c \in Calls, pc[c] = "decide", jobs[key[c]].status = "absent",
             Open(jobs'[key[c]]), UNCHANGED <<queue, key>>,
             \A j \in Keys \ {key[c]} : jobs'[j] = jobs[j],
             \E to \in {"enqueue", "exec"} : pc' = [pc EXCEPT ![c] = to]
      PROVE  FlightInv(k)'
  <2>1. CASE key[c] = k
    <3>1. jobs[k].error # "recovered" /\ ~ Open(jobs[k])
      BY <1>3, <2>1 DEF Steady, Open
    <3>2. Doers(k) = {} /\ Queued(k) = {}
      BY <3>1 DEF FlightInv
    <3>3. Doers(k)' \subseteq {c}
      BY <1>3, <3>2 DEF Doers
    <3>4. Queued(k)' = {}
      BY <1>3, <3>2 DEF Queued
    <3> QED
      BY <1>3, <2>1, <3>3, <3>4 DEF FlightInv, Lone
  <2>2. CASE key[c] # k
    BY <1>1, <1>2, <1>3, <2>2 DEF Owing
  <2> QED
    BY <2>1, <2>2
<1>4. ASSUME jobs[k].error = "recovered" PROVE FlightInv(k)'
  BY <1>0, <1>4 DEF RowKept, FlightInv
<1>5. ASSUME NEW c \in Calls, NEW j \in Keys, Lookup(c, j) PROVE FlightInv(k)'
  BY <1>1, <1>2, <1>5 DEF Lookup, Owing
<1>6. ASSUME NEW c \in Calls,
             InsertRefused(c) \/ SubmitExisting(c) \/ EnqueueRefused(c) \/ SyncCached(c)
               \/ SyncConflict(c)
      PROVE  FlightInv(k)'
  BY <1>1, <1>2, <1>6 DEF InsertRefused, SubmitExisting, EnqueueRefused, SyncCached, SyncConflict, Owing
<1>7. ASSUME NEW c \in Submits, SubmitCreate(c) PROVE FlightInv(k)'
  BY <1>3, <1>7 DEF SubmitCreate, FreshRow, Open
<1>8. ASSUME NEW c \in Submits, SubmitRetry(c) PROVE FlightInv(k)'
  <2>1. key[c] # k
    BY <1>8 DEF SubmitRetry, Steady
  <2> QED
    BY <1>1, <1>2, <1>8, <2>1 DEF SubmitRetry, Owing
<1>9. ASSUME NEW c \in SyncCalls, SyncMarkRunning(c) PROVE FlightInv(k)'
  <2>1. CASE key[c] = k
    <3>1. jobs[k].status = "absent"
      BY <1>9, <2>1 DEF SyncMarkRunning, Steady
    <3> QED
      BY <1>3, <1>9, <2>1, <3>1 DEF SyncMarkRunning, FreshRow, Open
  <2>2. CASE key[c] # k
    BY <1>1, <1>2, <1>9, <2>2 DEF SyncMarkRunning, Owing
  <2> QED
    BY <2>1, <2>2
<1>10. ASSUME NEW a \in Actors, pc[a] = "persisted", pc'[a] \notin Owing,
              UNCHANGED <<queue, key>>, \A b \in Actors \ {a} : pc'[b] = pc[b],
              \A j \in Keys \ {key[a]} : jobs'[j] = jobs[j]
       PROVE  FlightInv(k)'
  <2>1. CASE key[a] = k /\ jobs[k].error # "recovered"
    <3>1. a \in Doers(k)
      BY <1>10, <2>1 DEF Doers, Owing
    <3>2. Doers(k) = {a} /\ Queued(k) = {}
      BY <2>1, <3>1 DEF FlightInv, Lone
    <3>3. Doers(k)' = {} /\ Queued(k)' = {}
      BY <1>10, <3>2 DEF Doers, Queued
    <3> QED
      BY <1>0, <3>3, FewerDoers
  <2>2. CASE key[a] # k
    BY <1>1, <1>2, <1>10, <2>2
  <2> QED
    BY <1>4, <2>1, <2>2
<1>11. ASSUME NEW c \in SyncCalls, SyncSucceed(c) PROVE FlightInv(k)'
  BY <1>10, <1>11 DEF SyncSucceed, Owing
<1>12. ASSUME NEW c \in SyncCalls, SyncFail(c) PROVE FlightInv(k)'
  BY <1>1, <1>2, <1>12 DEF SyncFail, Owing
<1>13. ASSUME NEW w \in Workers, MarkSuccess(w) PROVE FlightInv(k)'
  BY <1>10, <1>13 DEF MarkSuccess, Owing
<1>14. ASSUME NEW w \in Workers, MarkFailed(w) \/ Notified(w) PROVE FlightInv(k)'
  BY <1>1, <1>2, <1>14 DEF MarkFailed, Notified, Owing
<1>15. ASSUME NEW a \in Actors, SaveAudit(a) \/ SaveTransactions(a) PROVE FlightInv(k)'
  BY <1>1, <1>2, <1>15 DEF SaveAudit, SaveTransactions, Owing
<1>16. ASSUME NEW c \in Submits, Enqueue(c) PROVE FlightInv(k)'
  <2>1. queue' = Append(queue, key[c]) /\ queue \in Seq(Keys) /\ key[c] \in Keys
    BY <1>16 DEF Enqueue
  <2>2. \A i \in DOMAIN queue' : \/ i = Len(queue) + 1 /\ queue'[i] = key[c]
                                 \/ i \in DOMAIN queue /\ queue'[i] = queue[i]
    <3> HIDE DEF Typing, TypeOK, KeyInv, process, Goto, Release, Store
    <3> QED
      BY <2>1, AppendAt
  <2>3. CASE key[c] = k /\ jobs[k].error # "recovered"
    <3>1. c \in Doers(k)
      BY <1>16, <2>3 DEF Enqueue, Doers, Owing
    <3>2. Doers(k) = {c} /\ Open(jobs[k])
      BY <2>3, <3>1 DEF FlightInv, Lone
    <3>3. Doers(k)' = {}
      BY <1>16, <3>2 DEF Enqueue, Doers, Owing
    <3>4. jobs' = jobs
      BY <1>16 DEF Enqueue
    <3> QED
      BY <3>2, <3>3, <3>4 DEF FlightInv, Lone
  <2>4. CASE key[c] # k
    <3>1. Queued(k)' \subseteq Queued(k)
      BY <2>2, <2>4 DEF Queued
    <3> QED
      BY <1>1, <1>16, <3>1 DEF Enqueue, Owing
  <2> QED
    BY <1>4, <2>3, <2>4
<1>17. ASSUME NEW w \in Workers, StartJob(w), jobs[k].error # "recovered" PROVE FlightInv(k)'
  <2>1. /\ queue \in Seq(Keys) /\ queue # << >> /\ queue' = Tail(queue)
        /\ key' = [key EXCEPT ![w] = Head(queue)] /\ pc' = [pc EXCEPT ![w] = "exec"]
    BY <1>17 DEF StartJob
  <2>2. \A i \in Queued(k)' : i \in Nat \ {0} /\ i + 1 \in Queued(k)
    BY <2>1 DEF Queued
  <2>3. CASE Head(queue) = k
    <3>1. 1 \in Queued(k)
      BY <2>1, <2>3 DEF Queued
    <3>2. Lone(Queued(k)) /\ Doers(k) = {} /\ Open(jobs[k])
      BY <1>17, <3>1 DEF ChanceInv, OneChance, FlightInv
    <3>3. Queued(k)' = {}
      BY <2>2, <3>1, <3>2 DEF Lone
    <3>4. Doers(k)' \subseteq {w}
      BY <2>1, <3>2 DEF Doers
    <3>5. Open(jobs[k])'
      BY <1>17, <2>3 DEF StartJob, Open, Row
    <3> QED
      BY <3>3, <3>4, <3>5 DEF FlightInv, Lone
  <2>4. CASE Head(queue) # k
    <3>1. Head(queue) \in Keys /\ jobs'[k] = jobs[k] /\ w \in Actors
      BY <1>17, <2>1, <2>4 DEF StartJob
    <3>2. Doers(k)' \subseteq Doers(k)
      BY <2>1, <2>4, <3>1 DEF Doers
    <3>3. Lone(Queued(k)')
      BY <1>17, <2>2 DEF ChanceInv, OneChance, Lone
    <3>4. Queued(k)' # {} => Queued(k) # {}
      BY <2>2
    <3> QED
      BY <1>17, <3>1, <3>2, <3>3, <3>4 DEF FlightInv, Lone
  <2> QED
    BY <2>3, <2>4
<1>18. CASE RecoverRead
  BY <1>1, <1>2, <1>18 DEF RecoverRead
<1>19. ASSUME RecoverWrite, jobs[k].error # "recovered" PROVE FlightInv(k)'
  <2>1. CASE k \in rec.todo
    <3>1. jobs'[k].error = "recovered"
      BY <1>19, <2>1 DEF RecoverWrite, Flush, Column, Row, Steady
    <3> QED
      BY <3>1 DEF FlightInv
  <2>2. CASE k \notin rec.todo
    <3> HIDE DEF Typing, TypeOK, KeyInv, process, Goto, Release, Store
    <3>1. jobs'[k] = jobs[k]
      BY <1>19, <2>2, Zenon DEF RecoverWrite
    <3>2. queue' = queue /\ key' = key /\ pc' = pc
      BY <1>19, Zenon DEF RecoverWrite
    <3> QED
      BY <1>1, <1>2, <3>1, <3>2
  <2> QED
    BY <2>1, <2>2
<1>20. ASSUME NEW j \in Keys, RecoverEnqueue(j), jobs[k].error # "recovered" PROVE FlightInv(k)'
  <2>1. queue' = Append(queue, j) /\ queue \in Seq(Keys) /\ j # k
    BY <1>20 DEF RecoverEnqueue, Steady
  <2>2. \A i \in DOMAIN queue' : \/ i = Len(queue) + 1 /\ queue'[i] = j
                                 \/ i \in DOMAIN queue /\ queue'[i] = queue[i]
    <3> HIDE DEF Typing, TypeOK, KeyInv, process, Goto, Release, Store
    <3> QED
      BY <2>1, AppendAt
  <2>3. Queued(k)' \subseteq Queued(k)
    BY <2>1, <2>2 DEF Queued
  <2> QED
    BY <1>1, <1>20, <2>3 DEF RecoverEnqueue
<1>21. CASE Shutdown
  BY <1>1, <1>2, <1>21 DEF Shutdown
<1>22. CASE Vanish
  BY <1>1, <1>2, <1>22 DEF Vanish, Owing
<1>23. CASE Boot
  BY <1>1, <1>2, <1>23 DEF Boot
<1>24. CASE UNCHANGED vars
  BY <1>1, <1>2, <1>24 DEF vars
<1> HIDE DEF Typing, TypeOK, KeyInv, process, Goto, Release, Store
<1> QED
  BY <1>4, <1>5, <1>6, <1>7, <1>8, <1>9, <1>11, <1>12, <1>13, <1>14, <1>15, <1>16, <1>17,
     <1>18, <1>19, <1>20, <1>21, <1>22, <1>23, <1>24
  DEF Next, Submit, Sync, Execute, RunJob, Recover, Exit, Crash

LEMMA SeenIs ==
  ASSUME NEW row \in Row
  PROVE  /\ Open(row) => Seen(row) = Ledger!Job("open", 0)
         /\ row.status = "succeeded" => Seen(row) = Ledger!Job("succeeded", row.result)
         /\ row.status = "failed" => Seen(row) = Ledger!Job("failed", 0)
         /\ row.status = "absent" => Seen(row) = Ledger!Job("absent", 0)
         /\ Seen(row).status = "absent" <=> row.status = "absent"
         /\ Seen(row).status = "open" <=> Open(row)
BY DEF Seen, Open, Ledger!Job, Row, Statuses

\* A step that shows nothing to the callers.
LEMMA NothingSeen ==
  ASSUME \A k \in Keys : /\ Seen(jobs'[k]) = Seen(jobs[k])
                         /\ AuditsOf(k)' = AuditsOf(k)
                         /\ k \in FailingKeys \/ (jobs'[k].error = "recovered" <=> jobs[k].error = "recovered")
  PROVE  UNCHANGED Ledger!vars
<1>1. [k \in Keys |-> Seen(jobs[k])]' = [k \in Keys |-> Seen(jobs[k])]
  BY Zenon
<1>2. [k \in Keys |-> AuditsOf(k)]' = [k \in Keys |-> AuditsOf(k)]
  BY Zenon
<1>3. Undisturbed' = Undisturbed
  BY DEF Undisturbed
<1> QED
  BY <1>1, <1>2, <1>3, Zenon DEF Ledger!vars

\* One row is written.
LEMMA RowPut ==
  ASSUME Typing, NEW q \in Keys, NEW r \in Row, jobs' = [jobs EXCEPT ![q] = r],
         UNCHANGED audits, q \in FailingKeys \/ (r.error = "recovered" <=> jobs[q].error = "recovered")
  PROVE  Ledger!Put(q, Seen(r))
<1>1. jobs'[q] = r /\ \A k \in Keys \ {q} : jobs'[k] = jobs[k]
  BY DEF Typing, TypeOK
<1>2. [k \in Keys |-> Seen(jobs[k])]' = [[k \in Keys |-> Seen(jobs[k])] EXCEPT ![q] = Seen(r)]
  <2>1. Seen(jobs'[q]) = Seen(r)
    BY <1>1, Zenon
  <2>2. \A k \in Keys \ {q} : Seen(jobs'[k]) = Seen(jobs[k])
    BY <1>1, Zenon
  <2> QED
    BY <2>1, <2>2, Zenon
<1>3. [k \in Keys |-> AuditsOf(k)]' = [k \in Keys |-> AuditsOf(k)]
  BY Zenon DEF AuditsOf
<1>4. Undisturbed' = Undisturbed
  BY <1>1 DEF Undisturbed
<1> QED
  BY <1>2, <1>3, <1>4, Zenon DEF Ledger!Put

LEMMA RowStep ==
  ASSUME Typing, NEW q \in Keys, NEW r \in Row, jobs' = [jobs EXCEPT ![q] = r],
         UNCHANGED audits, q \in FailingKeys \/ (r.error = "recovered" <=> jobs[q].error = "recovered"),
         \/ ~ There(q) /\ Open(r)
         \/ There(q) /\ Open(r) /\ (q \in Undisturbed => Open(jobs[q]))
         \/ /\ There(q) /\ r.status = "succeeded" /\ r.result \in AuditsOf(q)
            /\ q \in Undisturbed => Open(jobs[q])
         \/ There(q) /\ r.status = "failed" /\ q \in FailingKeys
  PROVE  [Ledger!Next]_(Ledger!vars)
<1>0. Ledger!Put(q, Seen(r))
  BY RowPut
<1>1. jobs[q] \in Row
  BY DEF Typing, TypeOK
<1>2. Ledger!Accepted(q) <=> There(q)
  BY <1>1, SeenIs DEF Ledger!Accepted, There
<1>3. [k \in Keys |-> Seen(jobs[k])][q].status = "open" <=> Open(jobs[q])
  BY <1>1, SeenIs
<1>4. CASE ~ There(q) /\ Open(r)
  <2>1. Ledger!Accept(q)
    BY <1>0, <1>2, <1>4, SeenIs, Zenon DEF Ledger!Accept
  <2> QED
    BY <2>1, Zenon DEF Ledger!Next
<1>5. CASE There(q) /\ Open(r) /\ q \notin Undisturbed
  <2>1. Ledger!Reopen(q)
    BY <1>0, <1>2, <1>5, SeenIs, Zenon DEF Ledger!Reopen
  <2> QED
    BY <2>1, Zenon DEF Ledger!Next
<1>6. CASE There(q) /\ Open(r) /\ q \in Undisturbed /\ Open(jobs[q])
  <2>1. Seen(r) = Seen(jobs[q])
    BY <1>1, <1>6, SeenIs, Zenon
  <2>2. jobs'[q] = r /\ \A k \in Keys \ {q} : jobs'[k] = jobs[k]
    BY DEF Typing, TypeOK
  <2>3. \A k \in Keys : AuditsOf(k)' = AuditsOf(k)
    BY Zenon DEF AuditsOf
  <2>4. UNCHANGED Ledger!vars
    BY <2>1, <2>2, <2>3, NothingSeen
  <2> QED
    BY <2>4, Zenon
<1>7. CASE /\ There(q) /\ r.status = "succeeded" /\ r.result \in AuditsOf(q)
           /\ q \in Undisturbed => Open(jobs[q])
  <2>1. Seen(r) = Ledger!Job("succeeded", r.result)
    BY <1>7, SeenIs, Zenon
  <2>2. r.result \in [k \in Keys |-> AuditsOf(k)][q]
    BY <1>7, Zenon
  <2>3. Ledger!Succeed(q)
    BY <1>0, <1>2, <1>3, <1>7, <2>1, <2>2, Zenon DEF Ledger!Succeed
  <2> QED
    BY <2>3, Zenon DEF Ledger!Next
<1>8. CASE There(q) /\ r.status = "failed" /\ q \in FailingKeys
  <2>1. Ledger!Fail(q)
    BY <1>0, <1>2, <1>8, SeenIs, Zenon DEF Ledger!Fail
  <2> QED
    BY <2>1, Zenon DEF Ledger!Next
<1> QED
  BY <1>4, <1>5, <1>6, <1>7, <1>8

\* One audit is stored.
LEMMA StoreStep ==
  ASSUME Typing, NEW q \in Keys, There(q), q \in Undisturbed => Open(jobs[q]) /\ AuditsOf(q) = {},
         UNCHANGED jobs, audits' = Append(audits, [key |-> q, details |-> FALSE])
  PROVE  [Ledger!Next]_(Ledger!vars)
<1>1. PICK S : S = [key: Keys, details: BOOLEAN] /\ audits \in Seq(S)
  BY DEF Typing, TypeOK
<1>2. PICK e \in S : e = [key |-> q, details |-> FALSE]
  BY <1>1
<1>3. PICK id \in Nat : id = Len(audits) + 1
  BY <1>1
<1>4. /\ DOMAIN audits' = DOMAIN audits \cup {id} /\ id \notin DOMAIN audits
      /\ audits'[id] = e /\ \A i \in DOMAIN audits : audits'[i] = audits[i]
  BY <1>1, <1>2, <1>3
<1>5. e.key = q
  BY <1>2
<1>6. id \notin AuditsOf(q) /\ AuditsOf(q)' = AuditsOf(q) \cup {id}
  BY <1>4, <1>5 DEF AuditsOf
<1>7. \A k \in Keys \ {q} : AuditsOf(k)' = AuditsOf(k)
  BY <1>4, <1>5 DEF AuditsOf
<1>8. [k \in Keys |-> AuditsOf(k)]'
        = [[k \in Keys |-> AuditsOf(k)] EXCEPT ![q] = AuditsOf(q) \cup {id}]
  BY <1>6, <1>7, Zenon
<1>9. /\ [k \in Keys |-> AuditsOf(k)][q] = AuditsOf(q)
      /\ id \in [k \in Keys |-> AuditsOf(k)]'[q] \ [k \in Keys |-> AuditsOf(k)][q]
  BY <1>6, Zenon
<1>10. jobs[q] \in Row
  BY DEF Typing, TypeOK
<1>11. Ledger!Accepted(q) /\ (q \in Undisturbed => [k \in Keys |-> Seen(jobs[k])][q].status = "open")
  BY <1>10, SeenIs DEF Ledger!Accepted, There
<1>12. /\ [k \in Keys |-> Seen(jobs[k])]' = [k \in Keys |-> Seen(jobs[k])]
       /\ Undisturbed' = Undisturbed
  BY DEF Undisturbed
<1>13. Ledger!Store(q)
  BY <1>8, <1>9, <1>11, <1>12, Zenon DEF Ledger!Store
<1> QED
  BY <1>13, Zenon DEF Ledger!Next

LedgerInv ==
  /\ Typing /\ PhaseInv /\ AuditInv /\ DedupInv /\ ThereInv
  /\ \A k \in Keys \ FailingKeys : FlightInv(k)

LEMMA LedgerInvInit == Init => LedgerInv
BY TypingInit, PhaseInit, AuditInit, SteadyInit, ChanceInit, ThereInit, FlightInit
DEF LedgerInv, DedupInv

LEMMA LedgerInvNext == LedgerInv /\ [Next]_vars => LedgerInv'
<1> SUFFICES ASSUME LedgerInv, [Next]_vars PROVE LedgerInv'
  OBVIOUS
<1>1. Typing' /\ PhaseInv' /\ AuditInv' /\ ThereInv'
  BY TypingNext, PhaseNext, AuditNext, ThereNext DEF LedgerInv
<1>2. \A k \in Keys \ FailingKeys : (Steady(k) /\ ChanceInv(k))'
  BY SteadyNext, ChanceNext DEF LedgerInv, DedupInv
<1>3. \A k \in Keys \ FailingKeys : FlightInv(k)'
  BY FlightNext DEF LedgerInv, DedupInv
<1> QED
  BY <1>1, <1>2, <1>3 DEF LedgerInv, DedupInv

LEMMA LedgerInitial == Init => Ledger!Init
<1> SUFFICES ASSUME Init PROVE Ledger!Init
  OBVIOUS
<1>1. \A k \in Keys : Seen(jobs[k]) = Ledger!Job("absent", 0)
  BY DEF Init, AbsentRow, Seen, Open, Ledger!Job
<1>2. [k \in Keys |-> Seen(jobs[k])] = [k \in Keys |-> Ledger!Job("absent", 0)]
  BY <1>1, Zenon
<1>3. \A k \in Keys : AuditsOf(k) = {}
  BY DEF Init, AuditsOf
<1>4. [k \in Keys |-> AuditsOf(k)] = [k \in Keys |-> {}]
  BY <1>3, Zenon
<1>5. Undisturbed = Keys \ FailingKeys
  BY DEF Init, Undisturbed, AbsentRow
<1> QED
  BY <1>2, <1>4, <1>5, Zenon DEF Ledger!Init

LEMMA LedgerNext == LedgerInv /\ [Next]_vars => [Ledger!Next]_(Ledger!vars)
<1> DEFINE Goal == [Ledger!Next]_(Ledger!vars)
<1> SUFFICES ASSUME LedgerInv, [Next]_vars PROVE Goal
  OBVIOUS
<1>1. /\ Typing /\ PhaseInv /\ AuditInv /\ ThereInv
      /\ \A k \in Keys \ FailingKeys : Steady(k) /\ ChanceInv(k) /\ FlightInv(k)
  BY DEF LedgerInv, DedupInv
\* What the one at work on a key that neither fails nor was taken up again knows.
<1>2. ASSUME NEW a \in Actors, NEW q \in Keys, key[a] = q, q \in Undisturbed,
             pc[a] \in {"exec", "saved", "persisted"}
      PROVE  Open(jobs[q]) /\ (pc[a] = "exec" => AuditsOf(q) = {})
  <2>1. a \in Doers(q) /\ (pc[a] = "exec" => a \in Holders(q))
    BY <1>2 DEF Doers, Owing, Holders
  <2> QED
    BY <1>1, <1>2, <2>1 DEF Undisturbed, FlightInv, ChanceInv, OneChance
<1>3. ASSUME UNCHANGED jobs, \A k \in Keys : AuditsOf(k)' = AuditsOf(k) PROVE Goal
  BY <1>3, NothingSeen, Zenon
<1>4. UNCHANGED <<jobs, audits>> => Goal
  BY <1>3 DEF AuditsOf
<1> HIDE DEF Goal
<1>5. ASSUME NEW c \in Calls, pc[c] # "idle", pc[c] # "answered", pc[c] # "refused"
      PROVE  key[c] \in Keys /\ jobs[key[c]] \in Row
  BY <1>1, <1>5 DEF Typing, TypeOK, KeyInv, Calls, Actors
<1>6. ASSUME NEW c \in Calls, NEW status \in {"queued", "running"}, snap[c].status = "absent",
             pc[c] = "decide", jobs[key[c]].status = "absent", UNCHANGED audits,
             jobs' = [jobs EXCEPT ![key[c]] = FreshRow(status)]
      PROVE  Goal
  <2>1. PICK q \in Keys : q = key[c]
    BY <1>5, <1>6
  <2>2. PICK r \in Row : r = FreshRow(status)
    BY <1>6, FreshRowType DEF Statuses
  <2>3. ~ There(q) /\ Open(r) /\ r.error = "none"
    BY <1>6, <2>1, <2>2 DEF There, FreshRow, Open
  <2>4. jobs' = [jobs EXCEPT ![q] = r]
    BY <1>6, <2>1, <2>2
  <2>5. q \in FailingKeys \/ jobs[q].error # "recovered"
    BY <1>1, <2>3 DEF Steady, There
  <2> QED
    BY <1>1, <1>6, <2>3, <2>4, <2>5, RowStep DEF Goal
\* A key that has failed, and is tried again.
<1>7. ASSUME NEW c \in Calls, NEW r \in Row, pc[c] = "decide",
             snap[c].status = "failed" \/ (snap[c].status = "succeeded" /\ snap[c].result = 0),
             UNCHANGED audits, jobs' = [jobs EXCEPT ![key[c]] = r], Open(r)
      PROVE  Goal
  <2>1. PICK q \in Keys : q = key[c]
    BY <1>5, <1>7
  <2>2. q \in FailingKeys
    BY <1>1, <1>7, <2>1 DEF Steady
  <2>3. q \notin Undisturbed
    BY <2>2 DEF Undisturbed
  <2>4. jobs' = [jobs EXCEPT ![q] = r]
    BY <1>7, <2>1
  <2> QED
    BY <1>1, <1>7, <2>2, <2>3, <2>4, RowStep DEF Goal
\* A key that is executed, and its row says how it ended.
<1>8. ASSUME NEW a \in Actors, pc[a] = "persisted", UNCHANGED audits,
             jobs' = [jobs EXCEPT ![key[a]] =
                        [jobs[key[a]] EXCEPT !.status = "succeeded", !.result = audit[a]]]
      PROVE  Goal
  <2>1. PICK q \in Keys : q = key[a]
    BY <1>1, <1>8 DEF Typing, KeyInv
  <2>7. jobs[q] \in Row /\ audit[a] \in Nat
    BY <1>1 DEF Typing, TypeOK
  <2>2. PICK r \in Row : r = [jobs[q] EXCEPT !.status = "succeeded", !.result = audit[a]]
    <3>1. [jobs[q] EXCEPT !.status = "succeeded", !.result = audit[a]] \in Row
      BY <2>7 DEF Row, Statuses, Errors
    <3> QED
      BY <3>1, Zenon
  <2>3. r.status = "succeeded" /\ r.error = jobs[q].error /\ r.result = audit[a]
    BY <1>1, <2>2 DEF Typing, TypeOK, Row
  <2>4. audit[a] \in AuditsOf(q) /\ There(q)
    BY <1>1, <1>8, <2>1 DEF AuditInv, StoredFor, SavedFor, AuditsOf, ThereInv
  <2>5. q \in Undisturbed => Open(jobs[q])
    BY <1>2, <1>8, <2>1
  <2>6. jobs' = [jobs EXCEPT ![q] = r]
    BY <1>8, <2>1, <2>2
  <2> QED
    BY <1>1, <1>8, <2>3, <2>4, <2>5, <2>6, RowStep DEF Goal
<1>9. ASSUME NEW a \in Actors, pc[a] \in {"exec", "saved", "persisted", "notify"},
             key[a] \in FailingKeys, UNCHANGED audits,
             jobs' = [jobs EXCEPT ![key[a]] =
                        [jobs[key[a]] EXCEPT !.status = "failed", !.error = "raised"]]
      PROVE  Goal
  <2>1. PICK q \in Keys : q = key[a] /\ q \in FailingKeys
    BY <1>1, <1>9 DEF Typing, KeyInv
  <2>6. jobs[q] \in Row
    BY <1>1 DEF Typing, TypeOK
  <2>2. PICK r \in Row : r = [jobs[q] EXCEPT !.status = "failed", !.error = "raised"]
    <3>1. [jobs[q] EXCEPT !.status = "failed", !.error = "raised"] \in Row
      BY <2>6 DEF Row, Statuses, Errors
    <3> QED
      BY <3>1, Zenon
  <2>3. r.status = "failed"
    BY <1>1, <2>2 DEF Typing, TypeOK, Row
  <2>4. There(q)
    BY <1>1, <1>9, <2>1 DEF ThereInv
  <2>5. jobs' = [jobs EXCEPT ![q] = r]
    BY <1>9, <2>1, <2>2
  <2> QED
    BY <1>1, <1>9, <2>1, <2>3, <2>4, <2>5, RowStep DEF Goal
<1>10. ASSUME NEW c \in Submits, SubmitCreate(c) PROVE Goal
  BY <1>6, <1>10 DEF SubmitCreate, Goto, Store, Calls
<1>11. ASSUME NEW c \in Submits, SubmitRetry(c) PROVE Goal
  <2>1. PICK q \in Keys : q = key[c] /\ jobs[q] \in Row
    BY <1>5, <1>11 DEF SubmitRetry, Goto, Calls
  <2>2. snap[c] \in Row /\ FreshRow("queued") \in Row
    BY <1>1, FreshRowType DEF Typing, TypeOK, Calls, Statuses
  <2>3. PICK r \in Row : r = Flush(jobs[q], snap[c], FreshRow("queued"))
    BY <2>1, <2>2, FlushType
  <2>4. Open(r)
    BY <1>11, <2>3 DEF SubmitRetry, Flush, Column, FreshRow, Open
  <2>5. jobs' = [jobs EXCEPT ![key[c]] = r] /\ UNCHANGED audits
    BY <1>11, <2>1, <2>3 DEF SubmitRetry, Store
  <2>6. pc[c] = "decide" /\ snap[c].status = "failed" /\ c \in Calls
    BY <1>11 DEF SubmitRetry, Goto, Calls
  <2>7. q \in FailingKeys
    BY <1>1, <2>1, <2>6 DEF Steady
  <2>8. q \notin Undisturbed
    BY <2>7 DEF Undisturbed
  <2>9. jobs' = [jobs EXCEPT ![q] = r]
    BY <2>1, <2>5
  <2> QED
    BY <1>1, <2>4, <2>5, <2>7, <2>8, <2>9, RowStep DEF Goal
<1>12. ASSUME NEW c \in SyncCalls, SyncMarkRunning(c) PROVE Goal
  <2>1. /\ pc[c] = "decide" /\ c \in Calls /\ UNCHANGED audits
        /\ jobs' = [jobs EXCEPT ![key[c]] = FreshRow("running")]
    BY <1>12 DEF SyncMarkRunning, Goto, Store, Calls
  <2>2. FreshRow("running") \in Row /\ Open(FreshRow("running"))
    BY FreshRowType DEF Statuses, Open, FreshRow
  <2>3. CASE snap[c].status = "absent" /\ jobs[key[c]].status = "absent"
    BY <1>6, <2>1, <2>3
  <2>4. CASE snap[c].status = "failed" \/ (snap[c].status = "succeeded" /\ snap[c].result = 0)
    BY <1>7, <2>1, <2>2, <2>4
  <2>5. \/ snap[c].status = "absent" /\ jobs[key[c]].status = "absent"
        \/ snap[c].status = "failed" \/ (snap[c].status = "succeeded" /\ snap[c].result = 0)
    BY <1>12, SMT DEF SyncMarkRunning
  <2> QED
    BY <2>3, <2>4, <2>5, Zenon
<1>13. ASSUME NEW c \in SyncCalls, SyncSucceed(c) PROVE Goal
  <2>1. c \in Actors
    BY DEF Calls, Actors
  <2>2. /\ pc[c] = "persisted" /\ UNCHANGED audits
        /\ jobs' = [jobs EXCEPT ![key[c]] =
                      [jobs[key[c]] EXCEPT !.status = "succeeded", !.result = audit[c]]]
    BY <1>13, Zenon DEF SyncSucceed, Goto, Store
  <2> QED
    BY <1>8, <2>1, <2>2, Zenon
<1>14. ASSUME NEW c \in SyncCalls, SyncFail(c) PROVE Goal
  <2>1. c \in Actors /\ pc[c] \in {"exec", "saved", "persisted", "notify"}
    BY <1>14 DEF SyncFail, Calls, Actors
  <2>2. /\ key[c] \in FailingKeys /\ UNCHANGED audits
        /\ jobs' = [jobs EXCEPT ![key[c]] =
                      [jobs[key[c]] EXCEPT !.status = "failed", !.error = "raised"]]
    BY <1>14, Zenon DEF SyncFail, Store
  <2> QED
    BY <1>9, <2>1, <2>2, Zenon
<1>15. ASSUME NEW w \in Workers, MarkSuccess(w) PROVE Goal
  <2>1. w \in Actors
    BY DEF Actors
  <2>2. /\ pc[w] = "persisted" /\ UNCHANGED audits
        /\ jobs' = [jobs EXCEPT ![key[w]] =
                      [jobs[key[w]] EXCEPT !.status = "succeeded", !.result = audit[w]]]
    BY <1>15, Zenon DEF MarkSuccess, Goto, Store
  <2> QED
    BY <1>8, <2>1, <2>2, Zenon
<1>16. ASSUME NEW w \in Workers, MarkFailed(w) PROVE Goal
  <2>1. w \in Actors
    BY DEF Actors
  <2>2. /\ pc[w] \in {"exec", "saved", "persisted", "notify"}
        /\ key[w] \in FailingKeys /\ UNCHANGED audits
        /\ jobs' = [jobs EXCEPT ![key[w]] =
                      [jobs[key[w]] EXCEPT !.status = "failed", !.error = "raised"]]
    BY <1>16, Zenon DEF MarkFailed, Store
  <2> QED
    BY <1>9, <2>1, <2>2, Zenon
<1>17. ASSUME NEW a \in Actors, SaveAudit(a) PROVE Goal
  <2>1. PICK q \in Keys : q = key[a]
    BY <1>1, <1>17 DEF SaveAudit, Goto, Typing, KeyInv
  <2>2. pc[a] = "exec" /\ UNCHANGED jobs /\ audits' = Append(audits, [key |-> q, details |-> FALSE])
    BY <1>17, <2>1 DEF SaveAudit, Goto
  <2>3. There(q)
    BY <1>1, <2>1, <2>2 DEF ThereInv
  <2>4. q \in Undisturbed => Open(jobs[q]) /\ AuditsOf(q) = {}
    BY <1>2, <2>1, <2>2
  <2> QED
    BY <1>1, <2>2, <2>3, <2>4, StoreStep DEF Goal
<1>18. ASSUME NEW a \in Actors, SaveTransactions(a) PROVE Goal
  <2>1. SavedFor(key[a], audit[a]) /\ UNCHANGED jobs
    BY <1>1, <1>18 DEF SaveTransactions, Goto, AuditInv
  <2>2. audits' = [audits EXCEPT ![audit[a]].details = TRUE]
    BY <1>18 DEF SaveTransactions
  <2>3. PICK S : S = [key: Keys, details: BOOLEAN] /\ audits \in Seq(S)
    BY <1>1 DEF Typing, TypeOK
  <2>4. DOMAIN audits' = DOMAIN audits
    BY <2>2, <2>3
  <2>5. ASSUME NEW i \in DOMAIN audits PROVE audits'[i].key = audits[i].key
    <3>1. audits \in Seq(S)
      BY <2>3
    <3>2. audits[i] \in S
      BY <3>1
    <3>3. audits[i] \in [key: Keys, details: BOOLEAN]
      BY <2>3, <3>2
    <3> QED
      BY <2>2, <2>3, <3>3
  <2>6. \A k \in Keys : AuditsOf(k)' = AuditsOf(k)
    BY <2>4, <2>5 DEF AuditsOf
  <2> QED
    BY <1>3, <2>1, <2>6
<1>19. ASSUME NEW w \in Workers, StartJob(w) PROVE Goal
  <2>1. queue # << >> /\ queue \in Seq(Keys)
    BY <1>1, <1>19 DEF StartJob, Typing, TypeOK
  <2>2. PICK q \in Keys : q = Head(queue)
    BY <2>1
  <2>3. 1 \in Queued(q)
    BY <2>1, <2>2 DEF Queued
  <2>4. There(q)
    BY <1>1, <2>3 DEF ThereInv, Queued, Has
  <2>5. q \in Undisturbed => Open(jobs[q])
    BY <1>1, <2>3 DEF Undisturbed, FlightInv
  <2>9. jobs[q] \in Row
    BY <1>1 DEF Typing, TypeOK
  <2>6. PICK r \in Row : r = [jobs[q] EXCEPT !.status = "running"]
    <3>1. [jobs[q] EXCEPT !.status = "running"] \in Row
      BY <2>9 DEF Row, Statuses, Errors
    <3> QED
      BY <3>1, Zenon
  <2>7. r.status = "running" /\ r.error = jobs[q].error
    BY <1>1, <2>6 DEF Typing, TypeOK, Row
  <2>8. jobs' = [jobs EXCEPT ![q] = r] /\ UNCHANGED audits
    BY <1>19, <2>2, <2>6 DEF StartJob, Store
  <2> QED
    BY <1>1, <2>4, <2>5, <2>7, <2>8, RowStep DEF Open, Goal
\* A restart takes jobs up again.
<1>20. ASSUME RecoverWrite PROVE Goal
  <2>1. PICK S \in SUBSET Keys : S = rec.todo
    BY <1>1 DEF Typing, TypeOK
  <2>12. rec.pc = "write"
    BY <1>20, Zenon DEF RecoverWrite
  <2>2. PICK T \in SUBSET S : T = {k \in S : rec.snap[k].status # "queued"}
    OBVIOUS
  <2>3. ASSUME NEW k \in S
        PROVE  /\ jobs'[k].status = IF k \in T THEN "queued" ELSE jobs[k].status
               /\ k \notin T => jobs'[k].result = jobs[k].result
               /\ k \notin FailingKeys => jobs'[k].error = "recovered"
    <3>1. PICK now \in Row, old \in Row : now = jobs[k] /\ old = rec.snap[k]
      BY <1>1 DEF Typing, TypeOK
    <3>2. jobs'[k] = Flush(now, old, [old EXCEPT !.status = "queued", !.error = "recovered"])
      BY <1>20, <2>1, <3>1, Zenon DEF RecoverWrite
    <3>3. /\ jobs'[k].status = IF old.status # "queued" THEN "queued" ELSE now.status
          /\ jobs'[k].result = now.result
          /\ jobs'[k].error = IF old.error # "recovered" THEN "recovered" ELSE now.error
      BY <3>2 DEF Flush, Column, Row
    <3>4. k \notin FailingKeys => (old.error = "recovered" => now.error = "recovered")
      BY <1>1, <2>1, <2>12, <3>1 DEF Steady
    <3>5. k \in T <=> old.status # "queued"
      BY <2>2, <3>1
    <3> QED
      BY <3>1, <3>3, <3>4, <3>5
  <2>4. ASSUME NEW k \in Keys \ S PROVE jobs'[k] = jobs[k]
    BY <1>20, <2>1, <2>4, Zenon DEF RecoverWrite
  <2>5. \A k \in S : Ledger!Accepted(k)
    <3>1. \A k \in S : There(k)
      BY <1>1, <2>1, <2>12 DEF ThereInv
    <3>2. \A k \in S : jobs[k] \in Row
      BY <1>1 DEF Typing, TypeOK
    <3> QED
      BY <3>1, <3>2, SeenIs DEF Ledger!Accepted, There
  <2>6. \A k \in T : Seen(jobs'[k]) = Ledger!Job("open", 0)
    BY <2>3 DEF Seen, Open, Ledger!Job
  <2>7. \A k \in Keys \ T : Seen(jobs'[k]) = Seen(jobs[k])
    BY <2>3, <2>4 DEF Seen, Open
  <2>8. [k \in Keys |-> Seen(jobs[k])]'
          = [k \in Keys |-> IF k \in T THEN Ledger!Job("open", 0)
                            ELSE [j \in Keys |-> Seen(jobs[j])][k]]
    BY <2>6, <2>7, Zenon
  <2>9. Undisturbed' = Undisturbed \ S
    BY <2>3, <2>4 DEF Undisturbed
  <2>10. [k \in Keys |-> AuditsOf(k)]' = [k \in Keys |-> AuditsOf(k)]
    BY <1>20, Zenon DEF RecoverWrite, AuditsOf
  <2>11. Ledger!Requeue(S, T)
    BY <2>5, <2>8, <2>9, <2>10, Zenon DEF Ledger!Requeue
  <2> QED
    BY <2>11, Zenon DEF Ledger!Next, Goal
<1>21. Goal
  BY <1>4, <1>10, <1>11, <1>12, <1>13, <1>14, <1>15, <1>16, <1>17, <1>18, <1>19, <1>20
  DEF Next, Lookup, Submit, InsertRefused, SubmitExisting, Enqueue, EnqueueRefused,
      Sync, SyncCached, SyncConflict, Execute, RunJob, Notified, Calls, Actors, Submits,
      Recover, RecoverRead, RecoverEnqueue, Shutdown, Exit, Crash, Vanish, Boot, vars
<1> QED
  BY <1>21 DEF Goal

\* The table implements the ledger: whatever the clients, the scheduler, the
\* threads and the restarts do, a key is accepted once, its audit is stored
\* while its job is open, a succeeded job keeps that audit, and only a key that
\* may fail or that a restart requeues is taken up again.
THEOREM ImplementsLedger == Spec => KeepsLedger
<1>1. Init => LedgerInv
  BY LedgerInvInit
<1>2. LedgerInv /\ [Next]_vars => LedgerInv'
  BY LedgerInvNext
<1> QED
  BY <1>1, <1>2, LedgerInitial, LedgerNext, PTL DEF Spec, KeepsLedger, Ledger!Spec
=============================================================================
