------------------------- MODULE ActiveLearningProofs -------------------------
(***************************************************************************)
(* What ActiveLearning promises holds for any number of calls, corrections *)
(* and trainings, any threshold and any number of crashes and shutdowns.   *)
(***************************************************************************)
EXTENDS ActiveLearning, FiniteSetTheorems, SequenceTheorems, TLAPS

Statuses == {"absent", "queued", "running", "success", "skipped", "failed"}
Places   == {"idle", "count", "check", "flag", "commit", "enqueue", "done", "lost"}
Early    == {"idle", "count", "check", "flag", "commit"}
Working  == {"started", "read", "dumping", "dumped"}
Jobs     == [at: {"idle", "callback"} \cup Working,
             run: Calls \cup {NoRun}, read: SUBSET Submits, fresh: SUBSET Submits]

Queued(r) == \E i \in 1 .. Len(queue) : queue[i] = r

\* A call has no run before its commit; what is enqueued, or recovered, or
\* at work has one, and a thread at work says so in the run's row.
RunsMade ==
  /\ \A c \in Calls : pc[c] \in Early => runs[c] = "absent"
  /\ \A r \in Calls : Queued(r) \/ r \in todo => runs[r] # "absent"
  /\ job.at # "idle" => job.run \in Calls /\ runs[job.run] # "absent"
  /\ job.at \in Working => runs[job.run] = "running"
  /\ job.at = "callback" => runs[job.run] = "success"
  /\ \A c \in Calls : pc[c] = "enqueue" => runs[c] # "absent"

\* A server that is down, or has not recovered yet, does nothing; one that is
\* not up has no request under way.
Quiet ==
  /\ phase = "down" \/ (phase = "starting" /\ todo = {}) => queue = << >> /\ job = Resting
  /\ phase # "up" => \A c \in Calls : pc[c] \in {"idle", "done", "lost"}
  /\ phase # "starting" => todo = {}

\* NoOrphanRun, from the recovery's commit on.
NoOrphan ==
  phase = "up" \/ (phase = "starting" /\ todo # {}) => \A r \in Calls :
    /\ runs[r] = "queued" => pc[r] = "enqueue" \/ r \in todo \/ Queued(r)
    /\ runs[r] = "running" => job.run = r /\ job.at \in Working

Applied == {f \in Submits : applied[f] # NoRun}

\* The thread has read everything applied, and means to apply what is not.
\* Once something is applied, there is enough to train on for ever.
ReadInv ==
  /\ Applied \subseteq table
  /\ job.at \in Working \ {"started"} =>
       /\ Applied \subseteq job.read /\ job.fresh \subseteq job.read \ Applied
       /\ job.read \subseteq table
       /\ Applied # {} => Cardinality(job.read) >= MinRows
  /\ job.at \in {"dumping", "dumped"} => Cardinality(job.read) >= MinRows
  /\ Applied # {} => Cardinality(table) >= MinRows

Unfinished == \E r \in Calls : runs[r] \in {"queued", "running", "failed"}

\* AppliedIsInModel, and the file at each step of the dump.
ModelInv ==
  /\ Applied \subseteq model \/ (torn /\ Unfinished)
  /\ job.at = "dumped" => model = job.read

IInv == TypeOK /\ RunsMade /\ Quiet /\ NoOrphan /\ ReadInv /\ ModelInv

-----------------------------------------------------------------------------
(* Lemmas on data.                                                         *)

LEMMA TypedParts ==
  ASSUME TypeOK
  PROVE  /\ job \in Jobs /\ runs \in [Calls -> Statuses] /\ queue \in Seq(Calls)
         /\ Len(queue) \in Nat /\ DOMAIN queue = 1 .. Len(queue)
BY LenProperties DEF TypeOK, Jobs, Working, Statuses

LEMMA QueueAppend ==
  ASSUME queue \in Seq(Calls), NEW c \in Calls, queue' = Append(queue, c)
  PROVE  /\ queue' \in Seq(Calls)
         /\ \A r : Queued(r)' <=> Queued(r) \/ r = c
<1>1. Len(queue) \in Nat
  BY LenProperties
<1>2. /\ queue' \in Seq(Calls) /\ Len(queue') = Len(queue) + 1
      /\ \A i \in 1 .. Len(queue) : queue'[i] = queue[i]
      /\ queue'[Len(queue) + 1] = c
  BY AppendProperties
<1>3. ASSUME NEW r, Queued(r) PROVE Queued(r)'
  <2>1. PICK i \in 1 .. Len(queue) : queue[i] = r
    BY <1>3 DEF Queued
  <2> QED
    BY <1>1, <1>2, <2>1 DEF Queued
<1>4. Queued(c)'
  BY <1>1, <1>2 DEF Queued
<1>5. ASSUME NEW r, Queued(r)' PROVE Queued(r) \/ r = c
  <2>1. PICK i \in 1 .. Len(queue') : queue'[i] = r
    BY <1>5 DEF Queued
  <2>2. CASE i = Len(queue) + 1
    BY <1>2, <2>1, <2>2
  <2>3. CASE i \in 1 .. Len(queue)
    BY <1>2, <2>1, <2>3 DEF Queued
  <2> QED
    BY <1>1, <1>2, <2>2, <2>3
<1> QED
  BY <1>2, <1>3, <1>4, <1>5

LEMMA QueueHead ==
  ASSUME queue \in Seq(Calls), queue # << >>, queue' = Tail(queue)
  PROVE  /\ Head(queue) \in Calls /\ queue' \in Seq(Calls)
         /\ Queued(Head(queue))
         /\ \A r : Queued(r)' => Queued(r)
         /\ \A r : Queued(r) => Queued(r)' \/ r = Head(queue)
<1>1. Len(queue) \in Nat \ {0}
  BY EmptySeq
<1>2. /\ Head(queue) \in Calls /\ queue' \in Seq(Calls) /\ Len(queue') = Len(queue) - 1
      /\ \A i \in 1 .. Len(queue') : queue'[i] = queue[i + 1]
  BY HeadTailProperties
<1>3. Head(queue) = queue[1]
  OBVIOUS
<1>4. ASSUME NEW r, Queued(r)' PROVE Queued(r)
  <2>1. PICK i \in 1 .. Len(queue') : queue'[i] = r
    BY <1>4 DEF Queued
  <2>2. i + 1 \in 1 .. Len(queue) /\ queue[i + 1] = r
    BY <1>1, <1>2, <2>1
  <2> QED
    BY <2>2 DEF Queued
<1>5. ASSUME NEW r, Queued(r), r # Head(queue) PROVE Queued(r)'
  <2>1. PICK i \in 1 .. Len(queue) : queue[i] = r
    BY <1>5 DEF Queued
  <2>2. i - 1 \in 1 .. Len(queue')
    BY <1>1, <1>2, <1>3, <1>5, <2>1
  <2>3. queue'[i - 1] = queue[(i - 1) + 1] /\ (i - 1) + 1 = i
    BY <1>2, <2>2
  <2> QED
    BY <2>1, <2>2, <2>3 DEF Queued
<1> QED
  BY <1>1, <1>2, <1>3, <1>4, <1>5 DEF Queued

\* The feedback is finite and there is more of it in a larger set.
LEMMA MoreRows ==
  ASSUME NEW S, NEW T, S \subseteq T, T \subseteq Submits
  PROVE  /\ Cardinality(S) \in Nat /\ Cardinality(T) \in Nat
         /\ Cardinality(S) <= Cardinality(T)
<1>1. IsFiniteSet(T)
  BY ConstantsAssumption, FS_Subset
<1> QED
  BY <1>1, FS_Subset, FS_CardinalityType

\* NoRun is no call.
LEMMA NoRunIsNone == NoRun \notin Calls /\ MinRows \in Nat
BY ConstantsAssumption

LEMMA InitIInv == Init => IInv
<1> SUFFICES ASSUME Init PROVE IInv
  OBVIOUS
<1>1. queue \in Seq(Calls) /\ Len(queue) = 0
  BY EmptySeq DEF Init
<1>2. TypeOK
  BY <1>1 DEF Init, TypeOK, Resting
<1>3. Applied = {}
  BY DEF Init, Applied
<1>4. RunsMade /\ Quiet /\ NoOrphan
  <2>1. \A r : ~Queued(r)
    BY <1>1 DEF Queued
  <2> QED
    BY <2>1 DEF Init, RunsMade, Quiet, NoOrphan, Resting, Working
<1>5. ReadInv /\ ModelInv
  BY <1>3 DEF Init, ReadInv, ModelInv, Resting, Working
<1> QED
  BY <1>2, <1>4, <1>5 DEF IInv

-----------------------------------------------------------------------------
(* The requests.                                                           *)

\* What a request decides before its commit shows in nothing but its place.
LEMMA EarlyIInv ==
  ASSUME IInv, NEW c \in Calls,
         \/ c \in Submits /\ (AddFeedback(c) \/ CountPending(c) \/ CheckRuns(c) \/ CheckFlag(c))
         \/ Retrain(c)
  PROVE  IInv'
<1>1. UNCHANGED <<server, table, applied, model, torn, runs, queue, job>>
  BY DEF AddFeedback, CountPending, CheckRuns, CheckFlag, Retrain, data
<1>2. /\ pc[c] \in Early /\ \E to \in (Early \ {"idle"}) \cup {"done"} : pc' = [pc EXCEPT ![c] = to]
      /\ phase = "up"
  BY DEF AddFeedback, CountPending, CheckRuns, CheckFlag, Retrain, Goto, Early, IInv, Quiet
<1>3. pc \in [Calls -> Places]
  BY DEF IInv, TypeOK, Places
<1>4. /\ pc' \in [Calls -> Places] /\ runs[c] = "absent"
      /\ pc'[c] # "enqueue" /\ \A d \in Calls \ {c} : pc'[d] = pc[d]
  BY <1>2, <1>3 DEF IInv, RunsMade, Early, Places
<1>5. accepted' \subseteq Submits
  BY DEF AddFeedback, CountPending, CheckRuns, CheckFlag, Retrain, data, IInv, TypeOK
<1>6. wants' \in [Calls -> BOOLEAN]
  <2>1. wants \in [Calls -> BOOLEAN]
    BY DEF IInv, TypeOK
  <2>2. wants' = wants \/ \E b \in BOOLEAN : wants' = [wants EXCEPT ![c] = b]
    <3>1. CASE AddFeedback(c)
      BY <3>1 DEF AddFeedback
    <3>2. CASE CountPending(c)
      <4>1. PICK auto \in AutoRetrain :
              wants' = [wants EXCEPT ![c] =
                auto /\ Cardinality(Pending \cup (accepted \cap {c})) >= Threshold]
        BY <3>2, Zenon DEF CountPending
      <4>2. (auto /\ Cardinality(Pending \cup (accepted \cap {c})) >= Threshold) \in BOOLEAN
        OBVIOUS
      <4> QED
        BY <4>1, <4>2, Zenon
    <3>3. CASE CheckRuns(c)
      <4>1. PICK elapsed \in Elapsed :
              wants' = [wants EXCEPT ![c] = wants[c] /\ elapsed /\ Incomplete = {}]
        BY <3>3, Zenon DEF CheckRuns
      <4>2. (wants[c] /\ elapsed /\ Incomplete = {}) \in BOOLEAN
        OBVIOUS
      <4> QED
        BY <4>1, <4>2, Zenon
    <3>4. CASE CheckFlag(c)
      <4>1. wants' = [wants EXCEPT ![c] = wants[c] /\ ~InProgress]
        BY <3>4, Zenon DEF CheckFlag
      <4>2. (wants[c] /\ ~InProgress) \in BOOLEAN
        OBVIOUS
      <4> QED
        BY <4>1, <4>2, Zenon
    <3>5. CASE Retrain(c)
      <4>1. wants' = [wants EXCEPT ![c] = (Incomplete = {})]
        BY <3>5, Zenon DEF Retrain
      <4> QED
        BY <4>1, Zenon
    <3> QED
      BY <3>1, <3>2, <3>3, <3>4, <3>5
  <2> QED
    BY <2>1, <2>2
<1>7. TypeOK'
  BY <1>1, <1>4, <1>5, <1>6 DEF IInv, TypeOK, Places, server
<1>8. RunsMade' /\ Quiet' /\ NoOrphan'
  BY <1>1, <1>2, <1>4 DEF IInv, RunsMade, Quiet, NoOrphan, Queued, server
<1>9. ReadInv' /\ ModelInv'
  BY <1>1 DEF IInv, ReadInv, ModelInv, Applied, Unfinished
<1> QED
  BY <1>7, <1>8, <1>9 DEF IInv

\* The commit of a request: its feedback, its run, or both.
LEMMA CommitIInv ==
  ASSUME IInv, NEW c \in Calls, (CommitFeedback(c) /\ c \in Submits) \/ CommitRun(c)
  PROVE  IInv'
<1>1. /\ UNCHANGED <<server, applied, accepted, model, torn, queue, wants, job>>
      /\ pc[c] = "commit" /\ phase = "up" /\ runs[c] = "absent"
  BY DEF CommitFeedback, CommitRun, Goto, IInv, Quiet, RunsMade, Early, data
<1>2. /\ pc \in [Calls -> Places] /\ runs \in [Calls -> Statuses]
      /\ table \subseteq Submits /\ accepted \subseteq Submits
  BY DEF IInv, TypeOK, Places, Statuses
<1>3. table \subseteq table' /\ table' \subseteq Submits
  BY <1>2 DEF CommitFeedback, CommitRun, data
<1>4. /\ pc' \in [Calls -> Places] /\ \A d \in Calls \ {c} : pc'[d] = pc[d]
      /\ runs' \in [Calls -> Statuses] /\ \A d \in Calls \ {c} : runs'[d] = runs[d]
      /\ \/ pc'[c] = "enqueue" /\ runs'[c] = "queued"
         \/ pc'[c] = "done" /\ runs'[c] = "absent"
  BY <1>1, <1>2 DEF CommitFeedback, CommitRun, Goto, Places, Statuses
<1>5. TypeOK'
  BY <1>1, <1>3, <1>4 DEF IInv, TypeOK, Places, Statuses, server
<1>6. job.at # "idle" => job.run # c
  BY <1>1 DEF IInv, RunsMade
<1>7. RunsMade'
  BY <1>1, <1>4, <1>6 DEF IInv, RunsMade, Queued, server, Early, Working
<1>8. Quiet' /\ NoOrphan'
  BY <1>1, <1>4 DEF IInv, Quiet, NoOrphan, Queued, server
<1>9. ReadInv'
  BY <1>1, <1>3, MoreRows, NoRunIsNone DEF IInv, ReadInv, Applied
<1>10. ModelInv'
  BY <1>1, <1>4 DEF IInv, ModelInv, Applied, Unfinished
<1> QED
  BY <1>5, <1>7, <1>8, <1>9, <1>10 DEF IInv

LEMMA EnqueueIInv == ASSUME IInv, NEW c \in Calls, Enqueue(c) PROVE IInv'
<1>1. /\ UNCHANGED <<server, data, model, torn, runs, wants, job>> /\ queue' = Append(queue, c)
      /\ pc[c] = "enqueue" /\ pc' = [pc EXCEPT ![c] = "done"] /\ phase = "up"
      /\ runs[c] # "absent"
  BY DEF Enqueue, Goto, IInv, Quiet, RunsMade
<1>2. queue' \in Seq(Calls) /\ \A r : Queued(r)' <=> Queued(r) \/ r = c
  BY <1>1, QueueAppend DEF IInv, TypeOK
<1>3. pc' \in [Calls -> Places] /\ \A d \in Calls : pc'[d] = IF d = c THEN "done" ELSE pc[d]
  BY <1>1 DEF IInv, TypeOK, Places
<1>4. TypeOK'
  BY <1>1, <1>2, <1>3 DEF IInv, TypeOK, Places, server, data
<1>5. RunsMade'
  BY <1>1, <1>2, <1>3 DEF IInv, RunsMade, server, Early
<1>6. Quiet' /\ NoOrphan'
  BY <1>1, <1>2, <1>3 DEF IInv, Quiet, NoOrphan, server
<1>7. ReadInv' /\ ModelInv'
  BY <1>1 DEF IInv, ReadInv, ModelInv, Applied, Unfinished, data
<1> QED
  BY <1>4, <1>5, <1>6, <1>7 DEF IInv

-----------------------------------------------------------------------------
(* The executor's thread.                                                  *)

LEMMA StartIInv == IInv /\ StartTraining => IInv'
<1> SUFFICES ASSUME IInv, StartTraining PROVE IInv'
  OBVIOUS
<1> DEFINE h == Head(queue)
<1>1. /\ job.at = "idle" /\ queue # << >> /\ queue' = Tail(queue)
      /\ job' = [Resting EXCEPT !.at = "started", !.run = h]
      /\ runs' = [runs EXCEPT ![h] = "running"]
      /\ UNCHANGED <<server, data, model, torn, calls>>
  BY DEF StartTraining
<1>2. /\ h \in Calls /\ queue' \in Seq(Calls) /\ Queued(h)
      /\ \A r : Queued(r)' => Queued(r)
      /\ \A r : Queued(r) => Queued(r)' \/ r = h
  BY <1>1, QueueHead DEF IInv, TypeOK
<1> HIDE DEF h
<1>3. /\ job' \in Jobs /\ job'.at = "started" /\ job'.run = h
      /\ runs' \in [Calls -> Statuses]
      /\ \A r \in Calls : runs'[r] = IF r = h THEN "running" ELSE runs[r]
  BY <1>1, <1>2, TypedParts DEF IInv, Resting, Jobs, Working, Statuses
<1>4. TypeOK'
  BY <1>1, <1>2, <1>3 DEF IInv, TypeOK, Jobs, Working, Statuses, server, data, calls
<1>5. RunsMade'
  <2>1. runs[h] # "absent"
    BY <1>2 DEF IInv, RunsMade
  <2> QED
    BY <1>1, <1>2, <1>3, <2>1 DEF IInv, RunsMade, server, calls, Working
<1>6. Quiet'
  BY <1>1 DEF IInv, Quiet, server, calls
<1>7. NoOrphan'
  <2>1. \A r \in Calls : runs[r] = "running" /\ phase = "up" => FALSE
    BY <1>1 DEF IInv, NoOrphan, Working
  <2> QED
    BY <1>1, <1>2, <1>3, <2>1 DEF IInv, NoOrphan, server, calls, Working
<1>8. ReadInv' /\ ModelInv'
  BY <1>1, <1>2, <1>3 DEF IInv, ReadInv, ModelInv, Applied, Unfinished, data, Working
<1> QED
  BY <1>4, <1>5, <1>6, <1>7, <1>8 DEF IInv

\* The thread reads, opens the file and writes it; its run goes on.
LEMMA DumpIInv == IInv /\ (ReadFeedback \/ OpenModel \/ DumpModel) => IInv'
<1> SUFFICES ASSUME IInv, ReadFeedback \/ OpenModel \/ DumpModel PROVE IInv'
  OBVIOUS
<1>0. job \in Jobs /\ table \subseteq Submits
  BY TypedParts DEF IInv, TypeOK
<1>1. /\ UNCHANGED <<server, data, runs, queue, calls>>
      /\ job.at \in {"started", "read", "dumping"} /\ job.run \in Calls
      /\ runs[job.run] = "running"
  BY DEF IInv, RunsMade, ReadFeedback, OpenModel, DumpModel, Working
<1>2. /\ job' \in Jobs /\ job'.run = job.run /\ job'.at \in {"read", "dumping", "dumped"}
      /\ model' \subseteq Submits /\ torn' \in BOOLEAN
  <2>1. Pending \subseteq Submits
    BY <1>0 DEF Pending
  <2>2. CASE ReadFeedback
    BY <1>0, <2>1, <2>2 DEF ReadFeedback, Jobs, Working, IInv, TypeOK
  <2>3. CASE OpenModel
    BY <1>0, <2>3 DEF OpenModel, Jobs, Working
  <2>4. CASE DumpModel
    BY <1>0, <2>4 DEF DumpModel, Jobs, Working
  <2> QED
    BY <2>2, <2>3, <2>4
<1>3. TypeOK'
  BY <1>1, <1>2 DEF IInv, TypeOK, Jobs, Working, server, data, calls
<1>4. RunsMade' /\ Quiet'
  BY <1>1, <1>2 DEF IInv, RunsMade, Quiet, Queued, server, calls, Working, Resting
<1>5. NoOrphan'
  BY <1>1, <1>2 DEF IInv, NoOrphan, Queued, server, calls, Working
<1>6. ReadInv' /\ ModelInv'
  <2>1. CASE ReadFeedback
    <3>1. /\ job'.at = "read" /\ job'.read = table /\ job'.fresh = Pending /\ model' = model
          /\ torn' = torn
      BY <1>0, <2>1 DEF ReadFeedback, Jobs
    <3>2. Pending \subseteq table \ Applied
      BY <1>0 DEF Pending, Applied
    <3> QED
      BY <1>1, <3>1, <3>2 DEF IInv, ReadInv, ModelInv, Applied, Unfinished, data, Working
  <2>2. CASE OpenModel
    <3>1. /\ job'.at = "dumping" /\ job'.read = job.read /\ job'.fresh = job.fresh /\ model' = {}
          /\ job.at = "read" /\ Cardinality(job.read) >= MinRows /\ torn'
      BY <1>0, <2>2 DEF OpenModel, Jobs
    <3> QED
      BY <1>1, <3>1 DEF IInv, ReadInv, ModelInv, Applied, Unfinished, data, Working
  <2>3. CASE DumpModel
    <3>1. /\ job'.at = "dumped" /\ job'.read = job.read /\ job'.fresh = job.fresh
          /\ model' = job.read /\ job.at = "dumping"
      BY <1>0, <2>3 DEF DumpModel, Jobs
    <3> QED
      BY <1>1, <3>1 DEF IInv, ReadInv, ModelInv, Applied, Unfinished, data, Working
  <2> QED
    BY <2>1, <2>2, <2>3
<1> QED
  BY <1>3, <1>4, <1>5, <1>6 DEF IInv

\* The end of a run: in success, for lack of rows, or in failure.
LEMMA EndIInv == IInv /\ (SkipTraining \/ FailTraining \/ ApplyFeedback \/ Retrained) => IInv'
<1> SUFFICES ASSUME IInv, SkipTraining \/ FailTraining \/ ApplyFeedback \/ Retrained PROVE IInv'
  OBVIOUS
<1>0. job \in Jobs /\ runs \in [Calls -> Statuses] /\ Resting \in Jobs /\ Resting.at = "idle"
  BY TypedParts DEF IInv, Resting, Jobs
<1>1. /\ UNCHANGED <<server, table, accepted, model, torn, queue, calls>>
      /\ job.at # "idle" /\ job.run \in Calls /\ runs[job.run] # "absent"
  BY DEF IInv, RunsMade, SkipTraining, FailTraining, ApplyFeedback, Retrained, Finish, data
<1>2. /\ runs' \in [Calls -> Statuses]
      /\ \A r \in Calls \ {job.run} : runs'[r] = runs[r]
      /\ runs'[job.run] \notin {"absent", "running"}
      /\ runs'[job.run] = "queued" => runs[job.run] = "queued"
      /\ job' \in Jobs /\ job'.at \in {"idle", "callback"}
      /\ job'.at = "callback" => job'.run = job.run
  <2>1. CASE SkipTraining
    BY <1>0, <1>1, <2>1 DEF SkipTraining, Finish, Statuses
  <2>2. CASE FailTraining
    BY <1>0, <1>1, <2>2 DEF FailTraining, Finish, Statuses
  <2>3. CASE ApplyFeedback
    BY <1>0, <1>1, <2>3 DEF ApplyFeedback, Statuses, Jobs
  <2>4. CASE Retrained
    <3>1. runs[job.run] = "success"
      BY <2>4 DEF Retrained, IInv, RunsMade
    <3> QED
      BY <1>0, <1>1, <2>4, <3>1 DEF Retrained, Statuses
  <2> QED
    BY <2>1, <2>2, <2>3, <2>4
<1>3. TypeOK'
  <2>1. applied' \in [Submits -> Calls \cup {NoRun}]
    BY <1>1 DEF IInv, TypeOK, SkipTraining, FailTraining, ApplyFeedback, Retrained, Finish, data
  <2> QED
    BY <1>1, <1>2, <2>1 DEF IInv, TypeOK, Jobs, Working, Statuses, server, calls
<1>4. RunsMade'
  <2>1. job'.at = "callback" => runs'[job.run] = "success"
    BY <1>0, <1>1 DEF SkipTraining, FailTraining, ApplyFeedback, Retrained, Finish, Statuses
  <2> QED
    BY <1>1, <1>2, <2>1 DEF IInv, RunsMade, Queued, server, calls, Working
<1>5. Quiet'
  BY <1>0, <1>1 DEF IInv, Quiet, server, calls
<1>6. NoOrphan'
  BY <1>1, <1>2 DEF IInv, NoOrphan, Queued, server, calls, Working
<1>7. ReadInv' /\ ModelInv'
  <2>1. CASE SkipTraining
    <3>1. job.at = "read" /\ ~(Cardinality(job.read) >= MinRows) /\ applied' = applied
      <4>1. Cardinality(job.read) \in Nat /\ MinRows \in Nat
        BY <1>0, MoreRows, NoRunIsNone DEF Jobs
      <4> QED
        BY <2>1, <4>1 DEF SkipTraining, Finish, data
    <3>2. Applied = {} /\ Applied' = {}
      BY <3>1 DEF IInv, ReadInv, Working, Applied
    <3> QED
      BY <1>1, <1>2, <3>2 DEF ReadInv, ModelInv, Working
  <2>2. CASE FailTraining
    <3>1. applied' = applied /\ runs'[job.run] = "failed"
      BY <1>0, <1>1, <2>2 DEF FailTraining, Finish, data
    <3> QED
      BY <1>1, <1>2, <3>1 DEF IInv, ReadInv, ModelInv, Applied, Unfinished, Working
  <2>3. CASE ApplyFeedback
    <3>1. /\ job.at = "dumped" /\ model' = job.read
          /\ applied' = [f \in Submits |-> IF f \in job.fresh THEN job.run ELSE applied[f]]
      BY <1>1, <2>3 DEF ApplyFeedback, IInv, ModelInv
    <3>2. Applied' \subseteq job.read
      BY <3>1 DEF IInv, ReadInv, Working, Applied
    <3>3. job.read \subseteq table /\ Cardinality(job.read) >= MinRows
      BY <3>1 DEF IInv, ReadInv, Working
    <3>4. Cardinality(table) >= MinRows
      BY <3>3, MoreRows, NoRunIsNone DEF IInv, TypeOK
    <3> QED
      BY <1>1, <1>2, <3>1, <3>2, <3>3, <3>4 DEF ReadInv, ModelInv, Working
  <2>4. CASE Retrained
    <3>1. applied' = applied /\ runs' = runs
      BY <2>4 DEF Retrained, data
    <3> QED
      BY <1>1, <1>2, <3>1 DEF IInv, ReadInv, ModelInv, Applied, Unfinished, Working
  <2> QED
    BY <2>1, <2>2, <2>3, <2>4
<1> QED
  BY <1>3, <1>4, <1>5, <1>6, <1>7 DEF IInv

-----------------------------------------------------------------------------
(* The process.                                                            *)

LEMMA RecoverIInv == IInv /\ Recover => IInv'
<1> SUFFICES ASSUME IInv, Recover PROVE IInv'
  OBVIOUS
<1>1. /\ phase = "starting" /\ todo = {} /\ todo' = Incomplete
      /\ runs' = [r \in Calls |-> IF r \in Incomplete THEN "queued" ELSE runs[r]]
      /\ phase' = (IF Incomplete = {} THEN "up" ELSE phase)
      /\ UNCHANGED <<stops, data, model, torn, queue, calls, job>>
  BY DEF Recover
<1>2. queue = << >> /\ job = Resting /\ job.at = "idle"
  BY <1>1 DEF IInv, Quiet, Resting
<1>3. /\ runs' \in [Calls -> Statuses]
      /\ \A r \in Calls : runs'[r] = "queued" => r \in todo'
      /\ \A r \in Calls : runs'[r] # "running" /\ (runs'[r] = "absent" <=> runs[r] = "absent")
      /\ \A r \in todo' : r \in Calls /\ runs'[r] = "queued"
  BY <1>1, TypedParts DEF IInv, Incomplete, Statuses
<1>4. TypeOK'
  BY <1>1, <1>3 DEF IInv, TypeOK, Statuses, data, calls
<1>5. RunsMade'
  BY <1>1, <1>2, <1>3 DEF IInv, RunsMade, Queued, calls, Working, Early
<1>6. Quiet' /\ NoOrphan'
  BY <1>1, <1>2, <1>3 DEF IInv, Quiet, NoOrphan, Queued, calls
<1>7. Unfinished => Unfinished'
  BY <1>1, <1>3 DEF Unfinished, Incomplete
<1>8. ReadInv' /\ ModelInv'
  BY <1>1, <1>2, <1>7 DEF IInv, ReadInv, ModelInv, Applied, data, Working
<1> QED
  BY <1>4, <1>5, <1>6, <1>8 DEF IInv

LEMMA RecoverEnqueueIInv == ASSUME IInv, NEW r \in Calls, RecoverEnqueue(r) PROVE IInv'
<1>1. /\ r \in todo /\ todo' = todo \ {r} /\ queue' = Append(queue, r)
      /\ phase' = (IF todo = {r} THEN "up" ELSE phase)
      /\ UNCHANGED <<stops, data, model, torn, runs, calls, job>>
      /\ phase = "starting"
  BY DEF RecoverEnqueue, IInv, Quiet
<1>2. queue' \in Seq(Calls) /\ \A q : Queued(q)' <=> Queued(q) \/ q = r
  BY <1>1, QueueAppend DEF IInv, TypeOK
<1>3. TypeOK'
  BY <1>1, <1>2 DEF IInv, TypeOK, data, calls
<1>4. RunsMade'
  BY <1>1, <1>2 DEF IInv, RunsMade, calls
<1>5. Quiet'
  BY <1>1 DEF IInv, Quiet, calls
<1>6. NoOrphan'
  BY <1>1, <1>2 DEF IInv, NoOrphan, calls
<1>7. ReadInv' /\ ModelInv'
  BY <1>1 DEF IInv, ReadInv, ModelInv, Applied, Unfinished, data
<1> QED
  BY <1>3, <1>4, <1>5, <1>6, <1>7 DEF IInv

\* The end of the process leaves the database and the model file.
LEMMA StopIInv == IInv /\ (Shutdown \/ Exit \/ Crash \/ Boot) => IInv'
<1> SUFFICES ASSUME IInv, Shutdown \/ Exit \/ Crash \/ Boot PROVE IInv'
  OBVIOUS
<1>0. << >> \in Seq(Calls) /\ Len(<< >>) = 0
  BY EmptySeq
<1>1. CASE Shutdown
  <2>1. /\ phase = "up" /\ phase' = "draining" /\ queue' = << >>
        /\ \A c \in Calls : pc[c] \in {"idle", "done", "lost"}
        /\ UNCHANGED <<stops, todo, data, model, torn, runs, calls, job>>
    BY <1>1 DEF Shutdown
  <2>2. TypeOK'
    BY <1>0, <2>1 DEF IInv, TypeOK, data, calls
  <2>3. RunsMade' /\ Quiet' /\ NoOrphan'
    BY <1>0, <2>1 DEF IInv, RunsMade, Quiet, NoOrphan, Queued, calls
  <2>4. ReadInv' /\ ModelInv'
    BY <2>1 DEF IInv, ReadInv, ModelInv, Applied, Unfinished, data
  <2> QED
    BY <2>2, <2>3, <2>4 DEF IInv
<1>2. CASE Exit \/ Crash
  <2>1. Vanish
    BY <1>2 DEF Exit, Crash
  <2>2. /\ phase' = "down" /\ stops' = stops + 1 /\ todo' = {} /\ queue' = << >>
        /\ pc' = [c \in Calls |-> IF pc[c] \in {"idle", "done"} THEN pc[c] ELSE "lost"]
        /\ job' = Resting
        /\ UNCHANGED <<data, model, torn, runs, wants>>
    BY <2>1 DEF Vanish
  <2>3. Resting \in Jobs /\ Resting.at = "idle"
    BY DEF Resting, Jobs
  <2>4. TypeOK'
    BY <1>0, <2>2, <2>3 DEF IInv, TypeOK, Jobs, Working, data
  <2>5. RunsMade' /\ Quiet' /\ NoOrphan'
    BY <1>0, <2>2, <2>3 DEF IInv, RunsMade, Quiet, NoOrphan, Queued, Early, Working
  <2>6. ReadInv' /\ ModelInv'
    BY <2>2, <2>3 DEF IInv, ReadInv, ModelInv, Applied, Unfinished, data, Working
  <2> QED
    BY <2>4, <2>5, <2>6 DEF IInv
<1>3. CASE Boot
  <2>1. /\ phase = "down" /\ phase' = "starting"
        /\ UNCHANGED <<stops, todo, data, model, torn, runs, queue, calls, job>>
    BY <1>3 DEF Boot
  <2>2. TypeOK'
    BY <2>1 DEF IInv, TypeOK, data, calls
  <2>3. RunsMade' /\ Quiet' /\ NoOrphan'
    BY <2>1 DEF IInv, RunsMade, Quiet, NoOrphan, Queued, calls
  <2>4. ReadInv' /\ ModelInv'
    BY <2>1 DEF IInv, ReadInv, ModelInv, Applied, Unfinished, data
  <2> QED
    BY <2>2, <2>3, <2>4 DEF IInv
<1> QED
  BY <1>1, <1>2, <1>3

LEMMA NextIInv == IInv /\ [Next]_vars => IInv'
<1> SUFFICES ASSUME IInv, [Next]_vars PROVE IInv'
  OBVIOUS
<1>1. CASE \E c \in Submits : Submit_feedback(c)
  <2>1. PICK c \in Submits : Submit_feedback(c)
    BY <1>1
  <2>2. c \in Calls
    BY DEF Calls
  <2> QED
    BY <2>1, <2>2, EarlyIInv, CommitIInv, EnqueueIInv DEF Submit_feedback
<1>2. CASE \E c \in Retrains : Trigger_retrain(c)
  <2>1. PICK c \in Retrains : Trigger_retrain(c)
    BY <1>2
  <2>2. c \in Calls
    BY DEF Calls
  <2> QED
    BY <2>1, <2>2, EarlyIInv, CommitIInv, EnqueueIInv DEF Trigger_retrain
<1>3. CASE StartTraining \/ Run_training_job
  BY <1>3, StartIInv, DumpIInv, EndIInv DEF Run_training_job
<1>4. CASE Recover \/ \E r \in Calls : RecoverEnqueue(r)
  BY <1>4, RecoverIInv, RecoverEnqueueIInv
<1>5. CASE Shutdown \/ Exit \/ Crash \/ Boot
  BY <1>5, StopIInv
<1>6. CASE UNCHANGED vars
  BY <1>6 DEF vars, server, data, calls, IInv, TypeOK, RunsMade, Quiet, NoOrphan, Queued,
              ReadInv, ModelInv, Applied, Unfinished
<1> QED
  BY <1>1, <1>2, <1>3, <1>4, <1>5, <1>6 DEF Next

LEMMA Invariant == Spec => []IInv
BY InitIInv, NextIInv, PTL DEF Spec

-----------------------------------------------------------------------------
(* The theorems.                                                           *)

\* Runs, feedback rows and the thread have no other states than those the
\* code writes.
THEOREM TypeCorrect == Spec => []TypeOK
BY Invariant, PTL DEF IInv

\* No run stays incomplete that nothing will execute.
THEOREM NoOrphans == Spec => []NoOrphanRun
<1>1. IInv => NoOrphanRun
  BY TypedParts DEF IInv, NoOrphan, NoOrphanRun, Queued, Working
<1> QED
  BY <1>1, Invariant, PTL

\* Feedback that says applied was given to the run that wrote the model file.
THEOREM AppliedIsTrainedOn == Spec => []AppliedIsInModel
<1>1. IInv => AppliedIsInModel
  BY DEF IInv, ModelInv, Applied, Unfinished, AppliedIsInModel
<1> QED
  BY <1>1, Invariant, PTL

\* A run of the thread takes over only feedback that is pending still.
THEOREM AppliedByFirst == Spec => AppliedOnce
<1>1. IInv /\ [Next]_vars =>
        (\A f \in Submits : applied[f] # NoRun => applied'[f] = applied[f]) \/ UNCHANGED vars
  <2> SUFFICES ASSUME IInv, Next, NEW f \in Submits, applied[f] # NoRun
               PROVE  applied'[f] = applied[f]
    BY DEF vars
  <2>1. CASE ApplyFeedback
    <3>1. f \in Applied /\ job.at = "dumped"
      BY <2>1 DEF Applied, ApplyFeedback
    <3>2. f \notin job.fresh
      BY <3>1 DEF IInv, ReadInv, Working
    <3> QED
      BY <2>1, <3>2 DEF ApplyFeedback
  <2>2. CASE ~ApplyFeedback
    <3>1. applied' = applied
      BY <2>2 DEF Next, Submit_feedback, AddFeedback, CountPending, CheckRuns, CheckFlag,
                  CommitFeedback, Enqueue, Trigger_retrain, Retrain, CommitRun, StartTraining,
                  Run_training_job, ReadFeedback, SkipTraining, OpenModel, DumpModel, Retrained,
                  FailTraining, Finish, Recover, RecoverEnqueue, Shutdown, Exit, Crash, Vanish,
                  Boot, data
    <3> QED
      BY <3>1
  <2> QED
    BY <2>1, <2>2
<1> QED
  BY <1>1, Invariant, PTL DEF Spec, AppliedOnce
=============================================================================
