----------------------------- MODULE LlmReasoner -----------------------------
(***************************************************************************)
(* LLMReasoner of Sentinel-Fi: the rows are sent to the LLM in batches, a  *)
(* request that fails or an answer that does not parse is retried, and the *)
(* rows a batch's answer does not name, or a batch that is given up, fall  *)
(* back to rules.  The answer is a list of items that name rows by tx_id:  *)
(* it may leave rows out, name rows nobody asked about or one row twice.   *)
(***************************************************************************)
EXTENDS Naturals, Sequences

CONSTANTS Statements,   \* sequences of rows; a row is a record with its number
                        \* n and its id, and ids may repeat
          Ids,          \* the ids that answers may name
          BatchSize,    \* llm_batch_size
          MaxAttempts,  \* stop_after_attempt
          Labels,       \* what an answer may say of a row
          Answers,      \* the lists of items that parse
          None

ASSUME ConstantsAssumption ==
  /\ BatchSize \in Nat \ {0}
  /\ MaxAttempts \in Nat \ {0}
  /\ Answers \subseteq Seq([id: Ids, category: Labels])
  /\ \A list \in Statements : list \in Seq([n: Nat, id: Ids])
  /\ None \notin Answers

VARIABLES
  rows,     \* the argument of classify
  client,   \* is there a client
  out,      \* the verdicts so far
  attempt,  \* the attempt under way on the batch, or 0
  batches   \* what came of each batch, for the properties

vars == <<rows, client, out, attempt, batches>>

Init ==
  /\ rows \in Statements
  /\ client \in BOOLEAN
  /\ out = << >>
  /\ attempt = 0
  /\ batches = << >>

\* The rows of the batch under way end here.
Until == IF Len(out) + BatchSize < Len(rows) THEN Len(out) + BatchSize ELSE Len(rows)

\* The verdict on a row given the items of the answer, of which the last one
\* on its id counts: {item.tx_id: item for item in items}.
LastItem(items, id) ==
  LET named == {i \in DOMAIN items : items[i].id = id}
  IN  items[CHOOSE i \in named : \A j \in named : j <= i]

\* Variant: the i-th item is the answer on the i-th row.
ByPosition(items, i) ==
  IF i <= Len(items) THEN [row |-> rows[i], by |-> "llm", category |-> items[i].category]
  ELSE [row |-> rows[i], by |-> "rule", category |-> None]

VerdictOn(items, i) ==
  IF \E k \in DOMAIN items : items[k].id = rows[i].id
  THEN [row |-> rows[i], by |-> "llm", category |-> LastItem(items, rows[i].id).category]
  ELSE [row |-> rows[i], by |-> "rule", category |-> None]

\* The verdicts up to a row, with those on the batch added.
Extended(items, until) ==
  [i \in 1 .. until |-> IF i <= Len(out) THEN out[i] ELSE VerdictOn(items, i)]

\* The batch is over, with these items or, given up, with none.
Conclude(items, result) ==
  /\ out' = Extended(items, Until)
  /\ attempt' = 0
  /\ batches' = Append(batches, [first |-> Len(out) + 1, last |-> Until,
                                 failures |-> result.failures, answer |-> result.answer])
  /\ UNCHANGED <<rows, client>>
-----------------------------------------------------------------------------
(* classify.                                                               *)

Without_client ==
  /\ ~client /\ Len(out) < Len(rows)
  /\ out' = Extended(<< >>, Len(rows))
  /\ UNCHANGED <<rows, client, attempt, batches>>

NextBatch ==
  /\ client /\ attempt = 0 /\ Len(out) < Len(rows)
  /\ attempt' = 1
  /\ UNCHANGED <<rows, client, out, batches>>

\* Variant: the last failure leaves the batch out.
DropBatch ==
  /\ attempt > 0
  /\ IF attempt < MaxAttempts
     THEN attempt' = attempt + 1 /\ UNCHANGED <<rows, client, out, batches>>
     ELSE /\ attempt' = 0
          /\ out' = [i \in 1 .. Len(out) + Len(rows) - Until |->
                       IF i <= Len(out) THEN out[i] ELSE VerdictOn(<< >>, i + Until - Len(out))]
          /\ UNCHANGED <<rows, client, batches>>

\* Variant: retried without end.
RetryForever ==
  /\ attempt > 0
  /\ attempt' = IF attempt < MaxAttempts THEN attempt + 1 ELSE 1
  /\ UNCHANGED <<rows, client, out, batches>>

\* The request raises, or _parse_response refuses its output: after a pause
\* the next attempt, and after the last one the rules.
Fail ==
  /\ attempt > 0
  /\ IF attempt < MaxAttempts
     THEN attempt' = attempt + 1 /\ UNCHANGED <<rows, client, out, batches>>
     ELSE Conclude(<< >>, [failures |-> attempt, answer |-> None])

Answer ==
  /\ attempt > 0
  /\ \E items \in Answers : Conclude(items, [failures |-> attempt - 1, answer |-> items])

Terminated == Len(out) = Len(rows) /\ UNCHANGED vars

Next == Without_client \/ NextBatch \/ Fail \/ Answer

Spec == Init /\ [][Next \/ Terminated]_vars

\* The client's timeout ends every request.
FairSpec == Spec /\ WF_vars(Next)
-----------------------------------------------------------------------------
(* Properties.                                                             *)

Verdict == [row: [n: Nat, id: Ids], by: {"llm", "rule"}, category: Labels \cup {None}]

\* Type invariant: no more than MaxAttempts attempts, verdicts by the LLM or
\* by the rules.
TypeOK ==
  /\ rows \in Statements
  /\ client \in BOOLEAN
  /\ out \in Seq(Verdict)
  /\ attempt \in 0 .. MaxAttempts
  /\ \A b \in DOMAIN batches :
       /\ batches[b].first \in 1 .. batches[b].last
       /\ batches[b].failures \in 0 .. MaxAttempts
       /\ batches[b].answer \in Answers \cup {None}

\* The rows that have a verdict so far.
Labelled == [i \in 1 .. Len(out) |-> out[i].row]

Abstract == INSTANCE Labelling WITH labelled <- Labelled

\* Every row gets one verdict, in order, whatever the LLM answers, leaves
\* out, names twice or makes up, and whichever batches fail: the caller zips
\* nothing and counts on it.
LabelsInOrder == Abstract!Spec

\* And classify returns with a verdict on each.
AllLabelled == Abstract!AllLabelled

\* What a row has earned by the answer to its batch: the category of an item
\* on its id, if there is one, and the rules' if not.
Earned(answer, row, verdict) ==
  LET named == answer # None /\ \E k \in DOMAIN answer : answer[k].id = row.id
  IN  /\ verdict.by = IF named THEN "llm" ELSE "rule"
      /\ named => \E k \in DOMAIN answer :
           answer[k] = [id |-> row.id, category |-> verdict.category]

\* A verdict that claims to be the LLM's is: the answer to the row's own
\* batch gave it, and no answer to another batch, nor an item on another id,
\* decides it.  One that claims to be the rules' was not the LLM's to give.
AnswerIsHeard ==
  \A b \in DOMAIN batches : \A i \in batches[b].first .. batches[b].last :
    Earned(batches[b].answer, rows[i], out[i])

\* A batch goes to the rules only after all its attempts have failed.
GivenUpAfterAllAttempts ==
  \A b \in DOMAIN batches : batches[b].answer = None => batches[b].failures = MaxAttempts

\* Both: a verdict is the one its own batch has earned.
VerdictsAreEarned == AnswerIsHeard /\ GivenUpAfterAllAttempts
=============================================================================
