-------------------------- MODULE ClassifiersProofs --------------------------
(***************************************************************************)
(* What the classifiers promise holds for every statement, taxonomy and    *)
(* configuration.  The LLM reasoner labels the rows in order, whatever the *)
(* LLM answers; the cascade loses no verdict and keeps its thresholds,     *)
(* whatever each stage says; the rules weigh evidence and nothing else;    *)
(* a merchant that a text names comes before one that it resembles.        *)
(***************************************************************************)
EXTENDS Classifiers, ListsProofs, SequenceTheorems

-----------------------------------------------------------------------------
(* The LLM reasoner.                                                        *)

Item  == [id: Ids, category: Labels]
Row   == [n: Nat, id: Ids]
Batch == [first: Nat \ {0}, last: Nat, failures: 0 .. MaxAttempts, answer: Answers \cup {None}]

\* The variables are typed, and a batch is only under way while rows are left.
TypeInv ==
  /\ rows \in Statements
  /\ client \in BOOLEAN
  /\ out \in Seq(Verdict)
  /\ attempt \in 0 .. MaxAttempts
  /\ batches \in Seq(Batch)
  /\ Len(out) <= Len(rows)
  /\ attempt > 0 => client /\ Len(out) < Len(rows)

\* The i-th verdict is the one on the i-th row.
InOrder == \A i \in 1 .. Len(out) : out[i].row = rows[i]

\* Batches cover rows that have their verdict.
Covered ==
  \A b \in 1 .. Len(batches) :
    batches[b].first <= batches[b].last /\ batches[b].last <= Len(out)

\* AnswerIsHeard of one batch.
Heard(batch, list, given) ==
  \A i \in batch.first .. batch.last : Earned(batch.answer, list[i], given[i])

AllHeard == \A b \in 1 .. Len(batches) : Heard(batches[b], rows, out)
AllTried ==
  \A b \in 1 .. Len(batches) : batches[b].answer = None => batches[b].failures = MaxAttempts

IInv == TypeInv /\ InOrder /\ Covered /\ AllHeard /\ AllTried

-----------------------------------------------------------------------------
(* Lemmas on data.                                                         *)

\* A set of positions that is not empty has a last one.
LEMMA LastExists ==
  ASSUME NEW n \in Nat, NEW S \in SUBSET (1 .. n), S # {}
  PROVE  \E i \in S : \A j \in S : j <= i
<1> DEFINE R == OpToRel(<, Nat)
           T == {k \in Nat : \E i \in S : k = n - i}
<1>1. T \subseteq Nat /\ T # {}
  <2>1. PICK i \in S : TRUE
    OBVIOUS
  <2>2. n - i \in Nat
    OBVIOUS
  <2> QED
    BY <2>2
<1>2. IsWellFoundedOn(R, Nat)
  BY NatLessThanWellFounded
<1> HIDE DEF R, T
<1>3. PICK x \in T : \A y \in T : ~ (<<y, x>> \in R)
  BY <1>1, <1>2, WFMin
<1> USE DEF R, T
<1>4. \A y \in T : ~ (y < x)
  <2> SUFFICES ASSUME NEW y \in T PROVE ~(y < x)
    OBVIOUS
  <2>1. <<y, x>> \in Nat \X Nat
    BY <1>1, <1>3
  <2>2. (y < x) => <<y, x>> \in R
    BY <2>1 DEF OpToRel
  <2> QED
    BY <1>3, <2>2
<1>5. PICK i \in S : x = n - i
  OBVIOUS
<1>6. \A j \in S : j <= i
  <2> SUFFICES ASSUME NEW j \in S PROVE j <= i
    OBVIOUS
  <2>1. n - j \in T
    OBVIOUS
  <2>2. ~(n - j < n - i)
    BY <1>4, <1>5, <2>1
  <2> QED
    BY <2>2
<1> QED
  BY <1>6

\* A function on an initial segment is a sequence of that length.
LEMMA FunctionIsSeq ==
  ASSUME NEW S, NEW n \in Nat, NEW f \in [1 .. n -> S]
  PROVE  f \in Seq(S) /\ Len(f) = n
<1>1. f \in Seq(S)
  BY SeqDef, Zenon
<1>2. Len(f) \in Nat /\ 1 .. n = 1 .. Len(f)
  BY <1>1, LenProperties
<1> QED
  BY <1>1, <1>2

LEMMA RowsTyped == ASSUME rows \in Statements PROVE rows \in Seq(Row) /\ Len(rows) \in Nat
<1>1. rows \in Seq([n: Nat, id: Ids])
  BY ConstantsAssumption, Zenon
<1>2. rows \in Seq(Row)
  BY <1>1 DEF Row
<1> QED
  BY <1>2, LenProperties

\* The item that decides names the id, if one does.
LEMMA LastItemNames ==
  ASSUME NEW items \in Seq(Item), NEW id, \E k \in DOMAIN items : items[k].id = id
  PROVE  \E k \in DOMAIN items : items[k].id = id /\ LastItem(items, id) = items[k]
<1> DEFINE named == {k \in DOMAIN items : items[k].id = id}
           last == CHOOSE k \in named : \A j \in named : j <= k
<1>1. DOMAIN items = 1 .. Len(items) /\ Len(items) \in Nat
  BY LenProperties
<1>2. named \in SUBSET (1 .. Len(items)) /\ named # {}
  BY <1>1
<1>3. \E k \in named : \A j \in named : j <= k
  <2> HIDE DEF named
  <2> QED
    BY <1>1, <1>2, LastExists
<1>4. last \in named
  <2> HIDE DEF named
  <2> QED
    BY <1>3
<1>5. LastItem(items, id) = items[last]
  BY DEF LastItem
<1> HIDE DEF last
<1> QED
  BY <1>4, <1>5

\* A verdict is typed and on its row.
LEMMA VerdictTyped ==
  ASSUME rows \in Statements, NEW items \in Seq(Item), NEW i \in 1 .. Len(rows)
  PROVE  /\ VerdictOn(items, i) \in Verdict
         /\ VerdictOn(items, i).row = rows[i]
<1>1. rows[i] \in Row
  BY RowsTyped, ElementOfSeq, Zenon
<1>2. CASE \E k \in DOMAIN items : items[k].id = rows[i].id
  <2>1. PICK k \in DOMAIN items : LastItem(items, rows[i].id) = items[k]
    BY <1>2, LastItemNames
  <2>2. k \in 1 .. Len(items)
    BY LenProperties
  <2>3. items[k] \in Item
    BY <2>2, ElementOfSeq, Zenon
  <2> QED
    BY <1>1, <1>2, <2>1, <2>3 DEF VerdictOn, Verdict, Row, Item
<1>3. CASE ~ \E k \in DOMAIN items : items[k].id = rows[i].id
  BY <1>1, <1>3 DEF VerdictOn, Verdict, Row
<1> QED
  BY <1>2, <1>3

\* Extending the verdicts keeps those there are and judges the new rows.
LEMMA ExtendedVerdicts ==
  ASSUME TypeInv, InOrder, NEW items \in Seq(Item), NEW until \in Nat,
         Len(out) <= until, until <= Len(rows)
  PROVE  /\ Extended(items, until) \in Seq(Verdict)
         /\ Len(Extended(items, until)) = until
         /\ \A i \in 1 .. until : Extended(items, until)[i].row = rows[i]
         /\ \A i \in 1 .. Len(out) : Extended(items, until)[i] = out[i]
         /\ \A i \in Len(out) + 1 .. until : Extended(items, until)[i] = VerdictOn(items, i)
<1> DEFINE e == Extended(items, until)
<1>0. Len(out) \in Nat /\ Len(rows) \in Nat
  BY RowsTyped, LenProperties DEF TypeInv
<1>1. /\ \A i \in 1 .. Len(out) : e[i] = out[i]
      /\ \A i \in Len(out) + 1 .. until : e[i] = VerdictOn(items, i)
  BY <1>0 DEF Extended
<1>2. \A i \in 1 .. until : e[i] \in Verdict /\ e[i].row = rows[i]
  <2> SUFFICES ASSUME NEW i \in 1 .. until PROVE e[i] \in Verdict /\ e[i].row = rows[i]
    OBVIOUS
  <2>1. CASE i <= Len(out)
    <3>1. i \in 1 .. Len(out)
      BY <1>0, <2>1
    <3>2. out[i] \in Verdict
      BY <3>1, ElementOfSeq, Zenon DEF TypeInv
    <3> QED
      BY <1>1, <3>1, <3>2 DEF InOrder
  <2>2. CASE i > Len(out)
    <3>1. i \in 1 .. Len(rows) /\ i \in Len(out) + 1 .. until
      BY <1>0, <2>2
    <3> QED
      BY <1>1, <3>1, VerdictTyped DEF TypeInv
  <2> QED
    BY <1>0, <2>1, <2>2
<1>3. e \in [1 .. until -> Verdict]
  BY <1>2 DEF Extended
<1> HIDE DEF e
<1>4. e \in Seq(Verdict) /\ Len(e) = until
  BY <1>3, FunctionIsSeq
<1> QED
  BY <1>1, <1>2, <1>4 DEF e

-----------------------------------------------------------------------------
(* The invariant.                                                          *)

LEMMA InitIInv == Init => IInv
<1> SUFFICES ASSUME Init PROVE IInv
  OBVIOUS
<1>1. Len(rows) \in Nat
  BY RowsTyped DEF Init
<1>2. out \in Seq(Verdict) /\ batches \in Seq(Batch) /\ Len(out) = 0 /\ Len(batches) = 0
  BY EmptySeq DEF Init
<1>3. 0 \in 0 .. MaxAttempts
  BY ConstantsAssumption
<1>4. TypeInv
  BY <1>1, <1>2, <1>3 DEF Init, TypeInv
<1> QED
  BY <1>2, <1>4 DEF IInv, InOrder, Covered, AllHeard, AllTried

\* The rows of the batch under way.
LEMMA UntilBounds ==
  ASSUME TypeInv, Len(out) < Len(rows)
  PROVE  Len(out) \in Nat /\ Until \in Nat /\ Len(out) + 1 <= Until /\ Until <= Len(rows)
<1>1. Len(out) \in Nat /\ Len(rows) \in Nat
  BY RowsTyped, LenProperties DEF TypeInv
<1>2. BatchSize \in Nat /\ BatchSize >= 1
  BY ConstantsAssumption
<1> QED
  BY <1>1, <1>2 DEF Until

\* A verdict given the answer of the batch is the one the answer earns.
LEMMA VerdictHeard ==
  ASSUME rows \in Statements, NEW reply \in Answers \cup {None},
         NEW items, items = IF reply = None THEN << >> ELSE reply,
         NEW i \in 1 .. Len(rows)
  PROVE  Earned(reply, rows[i], VerdictOn(items, i))
<1> DEFINE v == VerdictOn(items, i)
<1>1. CASE reply = None
  <2>1. DOMAIN items = {}
    BY <1>1, EmptySeq
  <2> QED
    BY <1>1, <2>1 DEF VerdictOn, Earned
<1>2. CASE reply # None
  <2>0. items = reply /\ reply \in Answers
    BY <1>2
  <2>1. items \in Seq([id: Ids, category: Labels])
    BY <2>0, ConstantsAssumption, Zenon
  <2>2. items \in Seq(Item)
    BY <2>1 DEF Item
  <2>3. CASE \E k \in DOMAIN items : items[k].id = rows[i].id
    <3>1. PICK k \in DOMAIN items :
            items[k].id = rows[i].id /\ LastItem(items, rows[i].id) = items[k]
      BY <2>2, <2>3, LastItemNames
    <3>2. v = [row |-> rows[i], by |-> "llm", category |-> items[k].category]
      BY <2>3, <3>1 DEF VerdictOn
    <3>3. k \in 1 .. Len(items)
      BY <2>2, LenProperties
    <3>4. items[k] \in Item
      BY <2>2, <3>3, ElementOfSeq, Zenon
    <3>5. v.by = "llm" /\ items[k] = [id |-> rows[i].id, category |-> v.category]
      BY <3>1, <3>2, <3>4 DEF Item
    <3> HIDE DEF v
    <3>6. Earned(reply, rows[i], v)
      BY <1>2, <2>0, <2>3, <3>5 DEF Earned
    <3> QED
      BY <3>6 DEF v
  <2>4. CASE ~ \E k \in DOMAIN items : items[k].id = rows[i].id
    BY <1>2, <2>0, <2>4 DEF VerdictOn, Earned
  <2> QED
    BY <2>3, <2>4
<1> QED
  BY <1>1, <1>2

\* The end of a batch, answered or given up.
LEMMA ConcludeIInv ==
  ASSUME IInv, attempt > 0,
         NEW reply \in Answers \cup {None},
         NEW items, items = IF reply = None THEN << >> ELSE reply,
         NEW failures \in 0 .. MaxAttempts, reply = None => failures = MaxAttempts,
         Conclude(items, [failures |-> failures, answer |-> reply])
  PROVE  IInv' /\ Len(out) < Len(out') /\ rows' = rows
<1> DEFINE batch == [first |-> Len(out) + 1, last |-> Until,
                     failures |-> failures, answer |-> reply]
<1>0. TypeInv /\ Len(out) < Len(rows)
  BY DEF IInv, TypeInv
<1>1. Len(out) \in Nat /\ Until \in Nat /\ Len(out) + 1 <= Until /\ Until <= Len(rows)
  BY <1>0, UntilBounds
<1>2. /\ out' = Extended(items, Until) /\ attempt' = 0 /\ batches' = Append(batches, batch)
      /\ rows' = rows /\ client' = client
  BY DEF Conclude
<1>3. items \in Seq(Item)
  <2>1. CASE reply = None
    BY <2>1, EmptySeq
  <2>2. CASE reply # None
    <3>1. items \in Seq([id: Ids, category: Labels])
      BY <2>2, ConstantsAssumption, Zenon
    <3> QED
      BY <3>1 DEF Item
  <2> QED
    BY <2>1, <2>2
<1>4. /\ out' \in Seq(Verdict) /\ Len(out') = Until
      /\ \A i \in 1 .. Until : out'[i].row = rows[i]
      /\ \A i \in 1 .. Len(out) : out'[i] = out[i]
      /\ \A i \in Len(out) + 1 .. Until : out'[i] = VerdictOn(items, i)
  <2>1. InOrder /\ Len(out) <= Until
    BY <1>1 DEF IInv
  <2> QED
    BY <1>0, <1>1, <1>2, <1>3, <2>1, ExtendedVerdicts
<1>5. batch \in Batch
  BY <1>1 DEF Batch
<1>6. batches \in Seq(Batch) /\ Len(batches) \in Nat
  BY LenProperties DEF IInv, TypeInv
<1>7. /\ batches' \in Seq(Batch)
      /\ Len(batches') = Len(batches) + 1
      /\ \A b \in 1 .. Len(batches) : batches'[b] = batches[b]
      /\ batches'[Len(batches) + 1] = batch
  <2> HIDE DEF batch
  <2> QED
    BY <1>2, <1>5, <1>6, AppendProperties
<1>8. TypeInv'
  <2>1. 0 \in 0 .. MaxAttempts
    BY ConstantsAssumption
  <2> QED
    BY <1>0, <1>1, <1>2, <1>4, <1>7, <2>1 DEF TypeInv
<1>9. InOrder'
  BY <1>2, <1>4 DEF InOrder
<1>10. Covered'
  <2> SUFFICES ASSUME NEW b \in 1 .. Len(batches')
               PROVE  batches'[b].first <= batches'[b].last /\ batches'[b].last <= Len(out')
    BY DEF Covered
  <2>1. CASE b \in 1 .. Len(batches)
    <3>0. batches[b] \in Batch
      BY <1>6, <2>1, ElementOfSeq, Zenon
    <3>1. batches[b].last \in Nat
      BY <3>0 DEF Batch
    <3>2. batches[b].first <= batches[b].last /\ batches[b].last <= Len(out)
      BY <2>1 DEF IInv, Covered
    <3>3. batches[b].last <= Until
      BY <1>1, <3>1, <3>2
    <3>4. batches'[b] = batches[b] /\ Len(out') = Until
      BY <1>4, <1>7, <2>1
    <3> QED
      BY <3>2, <3>3, <3>4, Zenon
  <2>2. CASE b = Len(batches) + 1
    <3>1. batches'[b].first = Len(out) + 1 /\ batches'[b].last = Until
      BY <1>7, <2>2
    <3> QED
      BY <1>1, <1>4, <3>1
  <2> QED
    BY <1>6, <1>7, <2>1, <2>2
<1>11. AllHeard'
  <2> SUFFICES ASSUME NEW b \in 1 .. Len(batches') PROVE Heard(batches'[b], rows, out')
    BY <1>2 DEF AllHeard
  <2>1. CASE b \in 1 .. Len(batches)
    <3>0. batches[b] \in Batch
      BY <1>6, <2>1, ElementOfSeq, Zenon
    <3>1. batches[b].first \in Nat \ {0} /\ batches[b].last \in Nat
      BY <3>0 DEF Batch
    <3>2. batches[b].last <= Len(out)
      BY <2>1 DEF IInv, Covered
    <3>3. ASSUME NEW i \in batches[b].first .. batches[b].last PROVE out'[i] = out[i]
      <4>1. i \in 1 .. Len(out)
        BY <1>1, <3>1, <3>2
      <4> QED
        BY <1>4, <4>1
    <3>4. Heard(batches[b], rows, out)
      BY <2>1 DEF IInv, AllHeard
    <3>5. Heard(batches[b], rows, out')
      BY <3>3, <3>4 DEF Heard
    <3> QED
      BY <1>7, <2>1, <3>5
  <2>2. CASE b = Len(batches) + 1
    <3>1. ASSUME NEW i \in Len(out) + 1 .. Until
          PROVE  Earned(reply, rows[i], out'[i])
      <4>1. i \in 1 .. Len(rows) /\ out'[i] = VerdictOn(items, i)
        BY <1>0, <1>1, <1>4, RowsTyped DEF TypeInv
      <4>2. rows \in Statements
        BY <1>0 DEF TypeInv
      <4> QED
        BY <4>1, <4>2, VerdictHeard
    <3>2. batch.first = Len(out) + 1 /\ batch.last = Until /\ batch.answer = reply
      OBVIOUS
    <3> HIDE DEF batch
    <3>3. Heard(batch, rows, out')
      BY <3>1, <3>2, Zenon DEF Heard
    <3> QED
      BY <1>7, <2>2, <3>3
  <2> QED
    BY <1>6, <1>7, <2>1, <2>2
<1>12. AllTried'
  <2> SUFFICES ASSUME NEW b \in 1 .. Len(batches'), batches'[b].answer = None
               PROVE  batches'[b].failures = MaxAttempts
    BY DEF AllTried
  <2>1. CASE b \in 1 .. Len(batches)
    BY <1>7, <2>1 DEF IInv, AllTried
  <2>2. CASE b = Len(batches) + 1
    BY <1>7, <2>2
  <2> QED
    BY <1>6, <1>7, <2>1, <2>2
<1> QED
  BY <1>1, <1>2, <1>4, <1>8, <1>9, <1>10, <1>11, <1>12 DEF IInv

LEMMA NextIInv == IInv /\ [Next \/ Terminated]_vars => IInv'
<1> SUFFICES ASSUME IInv, [Next \/ Terminated]_vars PROVE IInv'
  OBVIOUS
<1>0. Len(out) \in Nat /\ Len(rows) \in Nat /\ attempt \in Nat /\ MaxAttempts \in Nat \ {0}
  BY RowsTyped, LenProperties, ConstantsAssumption DEF IInv, TypeInv
<1>1. CASE Without_client
  <2> DEFINE none == << >>
  <2>1. /\ out' = Extended(none, Len(rows)) /\ Len(out) <= Len(rows)
        /\ UNCHANGED <<rows, client, attempt, batches>>
    BY <1>0, <1>1 DEF Without_client
  <2>2. none \in Seq(Item)
    BY EmptySeq
  <2> HIDE DEF none
  <2>3. /\ out' \in Seq(Verdict) /\ Len(out') = Len(rows)
        /\ \A i \in 1 .. Len(rows) : out'[i].row = rows[i]
        /\ \A i \in 1 .. Len(out) : out'[i] = out[i]
    BY <1>0, <2>1, <2>2, ExtendedVerdicts DEF IInv
  <2>4. attempt' = 0
    BY <1>0, <1>1, <2>1 DEF IInv, TypeInv, Without_client
  <2>5. TypeInv'
    BY <1>0, <2>1, <2>3, <2>4 DEF IInv, TypeInv
  <2>6. InOrder'
    BY <2>1, <2>3 DEF InOrder
  <2>7. Covered' /\ AllHeard' /\ AllTried'
    <3>1. ASSUME NEW b \in 1 .. Len(batches)
          PROVE  /\ batches[b].first <= batches[b].last /\ batches[b].last <= Len(out')
                 /\ Heard(batches[b], rows, out')
                 /\ batches[b].answer = None => batches[b].failures = MaxAttempts
      <4>1. batches[b] \in Batch
        BY ElementOfSeq, Zenon DEF IInv, TypeInv
      <4>2. batches[b].first \in Nat \ {0} /\ batches[b].last \in Nat
        BY <4>1 DEF Batch
      <4>3. batches[b].first <= batches[b].last /\ batches[b].last <= Len(out)
        BY DEF IInv, Covered
      <4>4. \A i \in batches[b].first .. batches[b].last : out'[i] = out[i]
        BY <1>0, <2>3, <4>2, <4>3
      <4>5. Heard(batches[b], rows, out)
        BY DEF IInv, AllHeard
      <4>6. Heard(batches[b], rows, out')
        BY <4>4, <4>5 DEF Heard
      <4>7. batches[b].last <= Len(out')
        BY <1>0, <2>1, <2>3, <4>2, <4>3
      <4> QED
        BY <4>3, <4>6, <4>7 DEF IInv, AllTried
    <3>2. batches' = batches /\ rows' = rows
      BY <2>1
    <3> QED
      BY <3>1, <3>2, Zenon DEF Covered, AllHeard, AllTried
  <2> QED
    BY <2>5, <2>6, <2>7 DEF IInv
<1>2. CASE NextBatch
  <2>1. attempt' = 1 /\ attempt' \in 0 .. MaxAttempts /\ client /\ Len(out) < Len(rows)
    BY <1>0, <1>2 DEF NextBatch
  <2> QED
    BY <1>2, <2>1 DEF NextBatch, IInv, TypeInv, InOrder, Covered, AllHeard, AllTried
<1>3. CASE Fail
  <2>1. CASE attempt < MaxAttempts
    <3>1. attempt' = attempt + 1 /\ UNCHANGED <<rows, client, out, batches>> /\ attempt > 0
      BY <1>3, <2>1 DEF Fail
    <3>2. attempt' \in 0 .. MaxAttempts
      BY <1>0, <2>1, <3>1
    <3> QED
      BY <1>0, <3>1, <3>2 DEF IInv, TypeInv, InOrder, Covered, AllHeard, AllTried
  <2>2. CASE ~(attempt < MaxAttempts)
    <3> DEFINE none == << >>
    <3>1. attempt = MaxAttempts /\ attempt > 0
      BY <1>0, <1>3, <2>2 DEF Fail, IInv, TypeInv
    <3>2. Conclude(none, [failures |-> MaxAttempts, answer |-> None])
      BY <1>3, <2>2, <3>1 DEF Fail
    <3>3. none = IF None = None THEN << >> ELSE None
      OBVIOUS
    <3>4. MaxAttempts \in 0 .. MaxAttempts /\ None \in Answers \cup {None}
      BY <1>0
    <3> HIDE DEF none
    <3> QED
      BY <3>1, <3>2, <3>3, <3>4, ConcludeIInv, Zenon
  <2> QED
    BY <2>1, <2>2
<1>4. CASE Answer
  <2>1. attempt > 0
    BY <1>4 DEF Answer
  <2>2. PICK items \in Answers : Conclude(items, [failures |-> attempt - 1, answer |-> items])
    BY <1>4, Zenon DEF Answer
  <2>3. attempt - 1 \in 0 .. MaxAttempts /\ items # None /\ items \in Answers \cup {None}
    BY <1>0, <2>1, ConstantsAssumption DEF IInv, TypeInv
  <2>4. items = IF items = None THEN << >> ELSE items
    BY <2>3
  <2> QED
    BY <2>1, <2>2, <2>3, <2>4, ConcludeIInv, Zenon
<1>5. CASE UNCHANGED vars
  BY <1>5 DEF vars, IInv, TypeInv, InOrder, Covered, AllHeard, AllTried
<1> QED
  BY <1>1, <1>2, <1>3, <1>4, <1>5 DEF Next, Terminated

LEMMA Invariant == Spec => []IInv
BY InitIInv, NextIInv, PTL DEF Spec

LEMMA InvariantTypes == IInv => TypeOK
<1> SUFFICES ASSUME IInv PROVE TypeOK
  OBVIOUS
<1>1. DOMAIN batches = 1 .. Len(batches)
  BY LenProperties DEF IInv, TypeInv
<1>2. ASSUME NEW b \in 1 .. Len(batches)
      PROVE  /\ batches[b].first \in 1 .. batches[b].last
             /\ batches[b].failures \in 0 .. MaxAttempts
             /\ batches[b].answer \in Answers \cup {None}
  <2>1. batches[b] \in Batch
    BY ElementOfSeq, Zenon DEF IInv, TypeInv
  <2>2. /\ batches[b].first \in Nat \ {0} /\ batches[b].last \in Nat
        /\ batches[b].failures \in 0 .. MaxAttempts
        /\ batches[b].answer \in Answers \cup {None}
    BY <2>1 DEF Batch
  <2>3. batches[b].first <= batches[b].last
    BY DEF IInv, Covered
  <2> QED
    BY <2>2, <2>3
<1> QED
  BY <1>1, <1>2 DEF IInv, TypeInv, TypeOK

\* The verdicts are typed, at most MaxAttempts attempts are made on a batch.
THEOREM TypeCorrect == Spec => []TypeOK
BY InvariantTypes, Invariant, PTL

\* A verdict is the one that the answer to its own batch has earned, and only
\* a batch all of whose attempts failed goes to the rules.
THEOREM VerdictsEarned == Spec => []VerdictsAreEarned
<1>1. IInv => VerdictsAreEarned
  <2> SUFFICES ASSUME IInv PROVE VerdictsAreEarned
    OBVIOUS
  <2>1. DOMAIN batches = 1 .. Len(batches)
    BY LenProperties DEF IInv, TypeInv
  <2> QED
    BY <2>1, Zenon DEF IInv, AllHeard, AllTried, Heard,
                       VerdictsAreEarned, AnswerIsHeard, GivenUpAfterAllAttempts
<1> QED
  BY <1>1, Invariant, PTL

-----------------------------------------------------------------------------
(* The refinement.                                                         *)

\* The rows that have a verdict are the first ones.
LEMMA LabelledRows ==
  ASSUME IInv
  PROVE  Labelled = [i \in 1 .. Len(out) |-> rows[i]] /\ Len(Labelled) = Len(out)
<1>1. Labelled = [i \in 1 .. Len(out) |-> rows[i]]
  BY DEF IInv, InOrder, Labelled
<1>2. Len(out) \in Nat /\ Len(rows) \in Nat /\ Len(out) <= Len(rows)
  BY RowsTyped, LenProperties DEF IInv, TypeInv
<1>3. \A i \in 1 .. Len(rows) : rows[i] \in Row
  BY RowsTyped, ElementOfSeq, Zenon DEF IInv, TypeInv
<1>4. Labelled \in [1 .. Len(out) -> Row]
  BY <1>1, <1>2, <1>3
<1> QED
  BY <1>1, <1>2, <1>4, FunctionIsSeq

\* Every behaviour of LLMReasoner is one of a classifier that labels the rows
\* in order, each once, and takes nothing back.
THEOREM ImplementsLabelling == Spec => LabelsInOrder
<1>1. Init => Abstract!Init
  <2> SUFFICES ASSUME Init PROVE Abstract!Init
    OBVIOUS
  <2>1. IInv /\ Len(out) = 0
    BY InitIInv, EmptySeq DEF Init
  <2>2. Labelled = << >>
    BY <2>1, LabelledRows
  <2> QED
    BY <2>2 DEF Init, Abstract!Init
<1>2. IInv /\ IInv' /\ [Next \/ Terminated]_vars => [Abstract!Label]_(Abstract!vars)
  <2> SUFFICES ASSUME IInv, IInv', [Next \/ Terminated]_vars
               PROVE  [Abstract!Label]_(Abstract!vars)
    OBVIOUS
  <2>0. rows' = rows
    BY DEF vars, Next, Terminated, Without_client, NextBatch, Fail, Answer, Conclude
  <2>1. CASE out' = out
    <3>1. Labelled' = Labelled
      BY <2>1 DEF Labelled
    <3> QED
      BY <2>0, <3>1 DEF Abstract!vars
  <2>2. CASE Len(out) < Len(out')
    <3>1. /\ Len(out) \in Nat /\ Len(out') \in Nat /\ Len(rows) \in Nat
          /\ Len(out') <= Len(rows) /\ Len(Labelled) = Len(out)
      BY <2>0, RowsTyped, LenProperties, LabelledRows DEF IInv, TypeInv
    <3>2. Labelled' = [i \in 1 .. Len(out') |-> rows[i]]
      <4>1. \A i \in 1 .. Len(out') : out'[i].row = rows[i]
        BY <2>0 DEF IInv, InOrder
      <4> QED
        BY <4>1 DEF Labelled
    <3>3. Len(out') \in Len(Labelled) + 1 .. Len(rows)
      BY <2>2, <3>1
    <3> QED
      BY <2>0, <3>2, <3>3 DEF Abstract!Label
  <2>3. out' = out \/ Len(out) < Len(out')
    <3>0. ASSUME NEW items, NEW until \in Nat, out' = Extended(items, until), Len(out) < until
          PROVE  Len(out) < Len(out')
      <4>1. DOMAIN out' = 1 .. until
        BY <3>0 DEF Extended
      <4>2. Len(out') \in Nat /\ DOMAIN out' = 1 .. Len(out')
        BY LenProperties DEF IInv, TypeInv
      <4>3. Len(out') = until
        BY <4>1, <4>2
      <4> QED
        BY <3>0, <4>3
    <3>1. CASE Without_client
      BY <3>0, <3>1, RowsTyped DEF Without_client, IInv, TypeInv
    <3>2. CASE \E items, result : attempt > 0 /\ Conclude(items, result)
      <4>1. PICK items, result : attempt > 0 /\ Conclude(items, result)
        BY <3>2
      <4>2. Len(out) < Len(rows)
        BY <4>1 DEF IInv, TypeInv
      <4>3. Until \in Nat /\ Len(out) < Until
        BY <4>2, UntilBounds DEF IInv
      <4>4. out' = Extended(items, Until)
        BY <4>1 DEF Conclude
      <4> QED
        BY <3>0, <4>3, <4>4
    <3>3. CASE NextBatch \/ Terminated \/ UNCHANGED vars
      BY <3>3 DEF NextBatch, Terminated, vars
    <3> QED
      BY <3>1, <3>2, <3>3 DEF Next, Fail, Answer
  <2> QED
    BY <2>1, <2>2, <2>3
<1> QED
  BY <1>1, <1>2, Invariant, PTL DEF Spec, LabelsInOrder, Abstract!Spec
-----------------------------------------------------------------------------
(* The cascade: rows and verdicts in lists.                                 *)

Elements(list)   == {list[i] : i \in DOMAIN list}
VerdictIds(list) == {list[i].row.id : i \in DOMAIN list}

LEMMA CascadeLists ==
  \A list, S : Cascade!AtPlaces(list, S) = AtPlaces(list, S)
BY DEF Cascade!AtPlaces, AtPlaces, Cascade!Place, Place, Cascade!Rank, Rank,
  Cascade!Cardinality, Cardinality

\* The elements of a part of a list.
LEMMA PartElements ==
  ASSUME NEW T, NEW list \in Seq(T), NEW S \in SUBSET DOMAIN list
  PROVE  /\ AtPlaces(list, S) \in Seq(T)
         /\ Elements(AtPlaces(list, S)) = {list[i] : i \in S}
<1> DEFINE part == AtPlaces(list, S)
           m == Cardinality(S)
<1>1. /\ part \in Seq(T) /\ Len(part) = m /\ m \in Nat
      /\ \A k \in 1 .. m : Place(S, k) \in S /\ part[k] = list[Place(S, k)]
  BY AtPlacesProperties
<1>2. \A i \in S : \E k \in 1 .. m : Place(S, k) = i
  <2>1. S \in SUBSET Nat /\ IsFiniteSet(S)
    <3>1. DOMAIN list = 1 .. Len(list)
      BY LenProperties
    <3>2. \A i \in S : i \in Nat
      BY <3>1
    <3> QED
      BY <3>2, AtPlacesProperties
  <2> QED
    BY <2>1, PlacesInOrder
<1> HIDE DEF part, m
<1>3. DOMAIN part = 1 .. m
  BY <1>1, LenProperties
<1>4. Elements(part) = {list[i] : i \in S}
  <2>1. ASSUME NEW k \in DOMAIN part PROVE part[k] \in {list[i] : i \in S}
    BY <1>1, <1>3, <2>1
  <2>2. ASSUME NEW i \in S PROVE list[i] \in Elements(part)
    <3>1. PICK k \in 1 .. m : Place(S, k) = i
      BY <1>2
    <3> QED
      BY <1>1, <1>3, <3>1 DEF Elements
  <2> QED
    BY <2>1, <2>2 DEF Elements
<1> QED
  BY <1>1, <1>4 DEF part

\* The elements of two lists together.
LEMMA ConcatElements ==
  ASSUME NEW T, NEW s \in Seq(T), NEW t \in Seq(T)
  PROVE  s \o t \in Seq(T) /\ Elements(s \o t) = Elements(s) \cup Elements(t)
<1>1. /\ s \o t \in Seq(T) /\ Len(s \o t) = Len(s) + Len(t)
      /\ Len(s) \in Nat /\ Len(t) \in Nat
      /\ \A i \in 1 .. Len(s) + Len(t) : (s \o t)[i] = IF i <= Len(s) THEN s[i] ELSE t[i - Len(s)]
  BY ConcatProperties, LenProperties
<1>2. /\ DOMAIN (s \o t) = 1 .. Len(s) + Len(t)
      /\ DOMAIN s = 1 .. Len(s) /\ DOMAIN t = 1 .. Len(t)
  BY <1>1, LenProperties
<1>3. ASSUME NEW i \in DOMAIN (s \o t)
      PROVE  (s \o t)[i] \in Elements(s) \cup Elements(t)
  <2>1. CASE i <= Len(s)
    BY <1>1, <1>2, <2>1 DEF Elements
  <2>2. CASE i > Len(s)
    <3>1. i - Len(s) \in 1 .. Len(t)
      BY <1>1, <1>2, <2>2
    <3> QED
      BY <1>1, <1>2, <2>2, <3>1 DEF Elements
  <2> QED
    BY <1>1, <1>2, <2>1, <2>2
<1>4. ASSUME NEW i \in DOMAIN s PROVE s[i] \in Elements(s \o t)
  BY <1>1, <1>2 DEF Elements
<1>5. ASSUME NEW i \in DOMAIN t PROVE t[i] \in Elements(s \o t)
  <2>1. i + Len(s) \in 1 .. Len(s) + Len(t) /\ ~(i + Len(s) <= Len(s)) /\ i + Len(s) - Len(s) = i
    BY <1>1, <1>2
  <2>2. (s \o t)[i + Len(s)] = t[i + Len(s) - Len(s)]
    BY <1>1, <2>1
  <2> QED
    BY <1>2, <2>1, <2>2 DEF Elements
<1> QED
  BY <1>1, <1>3, <1>4, <1>5 DEF Elements

\* The ids of a list are the ids of its elements.
LEMMA IdsOfElements ==
  ASSUME NEW list
  PROVE  /\ Cascade!IdsOf(list) = {e.id : e \in Elements(list)}
         /\ VerdictIds(list) = {e.row.id : e \in Elements(list)}
BY DEF Cascade!IdsOf, VerdictIds, Elements

\* There is a last place with a key, and only one.
LEMMA LastPlace ==
  ASSUME NEW n \in Nat, NEW key, NEW id, \E i \in 1 .. n : key[i] = id
  PROVE  \E i \in 1 .. n : key[i] = id /\ \A j \in 1 .. n : key[j] = id => j <= i
<1> DEFINE S == {i \in 1 .. n : key[i] = id}
<1>1. S \in SUBSET Nat /\ S # {} /\ \A i \in S : i <= n
  OBVIOUS
<1>2. PICK i \in S : \A j \in S : j <= i
  <2> HIDE DEF S
  <2> QED
    BY <1>1, GreatestOf
<1> QED
  BY <1>2

LEMMA LastRowHasId ==
  ASSUME NEW list \in Seq(Cascade!Row), NEW id \in Cascade!IdsOf(list)
  PROVE  /\ Cascade!LastRow(list, id) \in Elements(list)
         /\ Cascade!LastRow(list, id) \in Cascade!Row
         /\ Cascade!LastRow(list, id).id = id
<1> DEFINE key == [i \in DOMAIN list |-> list[i].id]
           Last(i) == list[i].id = id /\ \A j \in DOMAIN list : list[j].id = id => j <= i
<1>1. PICK n \in Nat : n = Len(list) /\ DOMAIN list = 1 .. n
  BY LenProperties
<1>2. PICK f : f = key
  OBVIOUS
<1>3. \E i \in 1 .. n : f[i] = id
  BY <1>1, <1>2 DEF Cascade!IdsOf
<1>4. \E i \in 1 .. n : f[i] = id /\ \A j \in 1 .. n : f[j] = id => j <= i
  <2> HIDE DEF key
  <2> QED
    BY <1>3, LastPlace
<1>5. \E i \in DOMAIN list : Last(i)
  BY <1>1, <1>2, <1>4
<1>6. PICK i \in DOMAIN list : Last(i) /\ Cascade!LastRow(list, id) = list[i]
  BY <1>5 DEF Cascade!LastRow
<1> QED
  BY <1>1, <1>6 DEF Elements

LEMMA LastVerdictHasId ==
  ASSUME NEW list \in Seq(Cascade!Verdict), NEW id \in VerdictIds(list)
  PROVE  \E i \in DOMAIN list :
           /\ Cascade!LastVerdict(list, id) = list[i] /\ list[i].row.id = id
           /\ \A j \in DOMAIN list : list[j].row.id = id => j <= i
<1> DEFINE key == [i \in DOMAIN list |-> list[i].row.id]
           Last(i) == list[i].row.id = id /\ \A j \in DOMAIN list : list[j].row.id = id => j <= i
<1>1. PICK n \in Nat : n = Len(list) /\ DOMAIN list = 1 .. n
  BY LenProperties
<1>2. PICK f : f = key
  OBVIOUS
<1>3. \E i \in 1 .. n : f[i] = id
  BY <1>1, <1>2 DEF VerdictIds
<1>4. \E i \in 1 .. n : f[i] = id /\ \A j \in 1 .. n : f[j] = id => j <= i
  <2> HIDE DEF key
  <2> QED
    BY <1>3, LastPlace
<1>5. \E i \in DOMAIN list : Last(i)
  BY <1>1, <1>2, <1>4
<1>6. PICK i \in DOMAIN list : Last(i) /\ Cascade!LastVerdict(list, id) = list[i]
  BY <1>5 DEF Cascade!LastVerdict
<1> QED
  BY <1>6

\* Of two lists of verdicts the second has the last word on an id it names.
LEMMA SecondListWins ==
  ASSUME NEW s \in Seq(Cascade!Verdict), NEW t \in Seq(Cascade!Verdict), NEW id
  PROVE  /\ id \in VerdictIds(t) => Cascade!LastVerdict(s \o t, id) \in Elements(t)
         /\ id \in VerdictIds(s) /\ id \notin VerdictIds(t) =>
              Cascade!LastVerdict(s \o t, id) = Cascade!LastVerdict(s, id)
<1>1. /\ s \o t \in Seq(Cascade!Verdict) /\ Len(s \o t) = Len(s) + Len(t)
      /\ Len(s) \in Nat /\ Len(t) \in Nat
      /\ \A i \in 1 .. Len(s) + Len(t) : (s \o t)[i] = IF i <= Len(s) THEN s[i] ELSE t[i - Len(s)]
  BY ConcatProperties, LenProperties
<1>2. /\ DOMAIN (s \o t) = 1 .. Len(s) + Len(t)
      /\ DOMAIN s = 1 .. Len(s) /\ DOMAIN t = 1 .. Len(t)
  BY <1>1, LenProperties
<1>3. VerdictIds(s \o t) = VerdictIds(s) \cup VerdictIds(t)
  BY ConcatElements, IdsOfElements
<1>4. ASSUME id \in VerdictIds(t) PROVE Cascade!LastVerdict(s \o t, id) \in Elements(t)
  <2>1. PICK i \in DOMAIN (s \o t) :
          /\ Cascade!LastVerdict(s \o t, id) = (s \o t)[i]
          /\ \A j \in DOMAIN (s \o t) : (s \o t)[j].row.id = id => j <= i
    BY <1>1, <1>3, <1>4, LastVerdictHasId
  <2>2. PICK k \in 1 .. Len(t) : t[k].row.id = id
    BY <1>2, <1>4 DEF VerdictIds
  <2>3. k + Len(s) \in 1 .. Len(s) + Len(t) /\ ~(k + Len(s) <= Len(s)) /\ k + Len(s) - Len(s) = k
    BY <1>1
  <2>4. (s \o t)[k + Len(s)] = t[k]
    <3>1. (s \o t)[k + Len(s)] = t[k + Len(s) - Len(s)]
      BY <1>1, <2>3
    <3> QED
      BY <2>3, <3>1
  <2>5. k + Len(s) <= i
    BY <1>2, <2>1, <2>2, <2>3, <2>4
  <2>6. i - Len(s) \in 1 .. Len(t) /\ ~(i <= Len(s))
    BY <1>1, <1>2, <2>5
  <2>7. (s \o t)[i] = t[i - Len(s)]
    BY <1>1, <1>2, <2>6
  <2> QED
    BY <1>2, <2>1, <2>6, <2>7 DEF Elements
<1>5. ASSUME id \in VerdictIds(s), id \notin VerdictIds(t)
      PROVE  Cascade!LastVerdict(s \o t, id) = Cascade!LastVerdict(s, id)
  <2>1. PICK i \in DOMAIN (s \o t) :
          /\ Cascade!LastVerdict(s \o t, id) = (s \o t)[i] /\ (s \o t)[i].row.id = id
          /\ \A j \in DOMAIN (s \o t) : (s \o t)[j].row.id = id => j <= i
    BY <1>1, <1>3, <1>5, LastVerdictHasId
  <2>2. PICK k \in DOMAIN s :
          /\ Cascade!LastVerdict(s, id) = s[k] /\ s[k].row.id = id
          /\ \A j \in DOMAIN s : s[j].row.id = id => j <= k
    BY <1>5, LastVerdictHasId
  <2>3. i <= Len(s)
    <3>1. SUFFICES ASSUME ~(i <= Len(s)) PROVE FALSE
      OBVIOUS
    <3>2. i - Len(s) \in 1 .. Len(t) /\ (s \o t)[i] = t[i - Len(s)]
      BY <1>1, <1>2, <3>1
    <3> QED
      BY <1>2, <1>5, <2>1, <3>2 DEF VerdictIds
  <2>4. i \in DOMAIN s /\ (s \o t)[i] = s[i]
    BY <1>1, <1>2, <2>3
  <2>5. k \in DOMAIN (s \o t) /\ (s \o t)[k] = s[k]
    BY <1>1, <1>2
  <2>6. i <= k /\ k <= i
    BY <2>1, <2>2, <2>4, <2>5
  <2>7. i = k
    BY <1>1, <1>2, <2>4, <2>6
  <2> QED
    BY <2>1, <2>2, <2>4, <2>7
<1> QED
  BY <1>4, <1>5

\* A dict by ids keeps every id.
LEMMA FirstByIdKeepsIds ==
  ASSUME NEW list \in Seq(Cascade!Row)
  PROVE  /\ Cascade!FirstById(list) \in Seq(Cascade!Row)
         /\ Cascade!IdsOf(Cascade!FirstById(list)) = Cascade!IdsOf(list)
<1> DEFINE S == {i \in DOMAIN list : \A j \in DOMAIN list : list[j].id = list[i].id => i <= j}
           key == [i \in DOMAIN list |-> list[i].id]
<1>1. Cascade!FirstById(list) = AtPlaces(list, S)
  BY CascadeLists DEF Cascade!FirstById
<1>2. /\ AtPlaces(list, S) \in Seq(Cascade!Row)
      /\ Elements(AtPlaces(list, S)) = {list[i] : i \in S}
  <2>1. S \in SUBSET DOMAIN list
    OBVIOUS
  <2> HIDE DEF S
  <2> QED
    BY <2>1, PartElements
<1>3. ASSUME NEW i \in DOMAIN list PROVE \E j \in S : list[j].id = list[i].id
  <2>1. PICK n \in Nat : n = Len(list) /\ DOMAIN list = 1 .. n
    BY LenProperties
  <2>2. PICK f : f = key
    OBVIOUS
  <2>3. PICK m \in 1 .. n : m = i
    BY <2>1
  <2>4. \E j \in 1 .. m : f[j] = f[m] /\ \A k \in 1 .. n : k < j => f[k] # f[j]
    <3> HIDE DEF key
    <3> QED
      BY FirstOfEquals
  <2>5. PICK j \in 1 .. m : f[j] = f[m] /\ \A k \in 1 .. n : k < j => f[k] # f[j]
    BY <2>4
  <2>6. j \in DOMAIN list /\ list[j].id = list[i].id
    BY <2>1, <2>2, <2>3, <2>5
  <2>7. \A k \in DOMAIN list : list[k].id = list[j].id => j <= k
    BY <2>1, <2>2, <2>5
  <2> QED
    BY <2>6, <2>7
<1>4. {e.id : e \in {list[i] : i \in S}} = Cascade!IdsOf(list)
  BY <1>3 DEF Cascade!IdsOf
<1> QED
  <2> HIDE DEF S
  <2> QED
    BY <1>1, <1>2, <1>4, IdsOfElements

LEMMA LastByIdKeepsIds ==
  ASSUME NEW list \in Seq(Cascade!Row)
  PROVE  /\ Cascade!LastById(list) \in Seq(Cascade!Row)
         /\ Cascade!IdsOf(Cascade!LastById(list)) = Cascade!IdsOf(list)
<1> DEFINE first == Cascade!FirstById(list)
<1>1. first \in Seq(Cascade!Row) /\ Cascade!IdsOf(first) = Cascade!IdsOf(list)
  BY FirstByIdKeepsIds
<1>2. Cascade!LastById(list) = [k \in DOMAIN first |-> Cascade!LastRow(list, first[k].id)]
  BY DEF Cascade!LastById
<1> HIDE DEF first
<1>3. \A k \in DOMAIN first : first[k].id \in Cascade!IdsOf(list)
  BY <1>1 DEF Cascade!IdsOf
<1>4. \A k \in DOMAIN first : /\ Cascade!LastRow(list, first[k].id) \in Cascade!Row
                              /\ Cascade!LastRow(list, first[k].id).id = first[k].id
  BY <1>3, LastRowHasId
<1>5. DOMAIN first = 1 .. Len(first) /\ Len(first) \in Nat
  BY <1>1, LenProperties
<1>6. Cascade!LastById(list) \in Seq(Cascade!Row)
  BY <1>2, <1>4, <1>5, SeqDef
<1>7. Cascade!IdsOf(Cascade!LastById(list)) = Cascade!IdsOf(first)
  BY <1>2, <1>4 DEF Cascade!IdsOf
<1> QED
  BY <1>1, <1>6, <1>7

LEMMA OriginalsKeepIds ==
  ASSUME NEW list \in Seq(Cascade!Row), NEW judged \in Seq(Cascade!Verdict),
         VerdictIds(judged) \subseteq Cascade!IdsOf(list)
  PROVE  /\ Cascade!Originals(judged, list) \in Seq(Cascade!Row)
         /\ Cascade!IdsOf(Cascade!Originals(judged, list)) = VerdictIds(judged)
<1>1. \A k \in DOMAIN judged : judged[k].row.id \in Cascade!IdsOf(list)
  BY DEF VerdictIds
<1>2. \A k \in DOMAIN judged : /\ Cascade!LastRow(list, judged[k].row.id) \in Cascade!Row
                               /\ Cascade!LastRow(list, judged[k].row.id).id = judged[k].row.id
  BY <1>1, LastRowHasId
<1>3. DOMAIN judged = 1 .. Len(judged) /\ Len(judged) \in Nat
  BY LenProperties
<1>4. Cascade!Originals(judged, list) \in Seq(Cascade!Row)
  BY <1>2, <1>3, SeqDef DEF Cascade!Originals
<1> QED
  BY <1>2, <1>4 DEF Cascade!Originals, Cascade!IdsOf, VerdictIds

\* Judging a list keeps its rows; a verdict without a review is confident.
Confident(v) == ~v.review => v.confidence >= Cascade!review_threshold(v.row)

LEMMA CascadeConstants ==
  /\ SlmEscalation \in Int /\ ReviewDefault \in Int /\ ReviewHighRisk \in Int
  /\ MlMinConfidence \in Int /\ MccConfidence \in 0 .. 100 /\ MaxRows \in Nat
  /\ MlOutcomes \subseteq [by: {"ml"}, unknown: BOOLEAN, confidence: 0 .. 100]
  /\ SlmOutcomes \subseteq [by: {"slm"}, unknown: BOOLEAN, confidence: 0 .. 100]
  /\ LlmOutcomes \subseteq [by: {"llm", "rule"}, unknown: BOOLEAN, confidence: 0 .. 100]
BY CascadeAssumption DEF Cascade!ConstantsAssumption, Cascade!Percent

LEMMA JudgedKeepsRows ==
  ASSUME NEW list \in Seq(Cascade!Row), NEW stages \in SUBSET {"mcc", "ml", "slm", "llm", "rule"},
         NEW outcome,
         \A i \in DOMAIN list :
           outcome[list[i].n] \in [by: stages, unknown: BOOLEAN, confidence: 0 .. 100]
  PROVE  LET judged == Cascade!JudgedAll(list, outcome) IN
           /\ judged \in Seq(Cascade!Verdict)
           /\ DOMAIN judged = DOMAIN list
           /\ VerdictIds(judged) = Cascade!IdsOf(list)
           /\ \A i \in DOMAIN judged : /\ judged[i].row = list[i] /\ judged[i].by \in stages
                                       /\ Confident(judged[i])
<1> DEFINE judged == Cascade!JudgedAll(list, outcome)
<1>1. DOMAIN list = 1 .. Len(list) /\ Len(list) \in Nat
  BY LenProperties
<1>2. DOMAIN judged = DOMAIN list
  BY DEF Cascade!JudgedAll
<1>3. ASSUME NEW i \in DOMAIN list
      PROVE  /\ judged[i] \in Cascade!Verdict /\ judged[i].row = list[i]
             /\ judged[i].by \in stages /\ Confident(judged[i])
  <2>1. list[i] \in Cascade!Row
    BY <1>1, <1>3
  <2>2. PICK o \in [by: stages, unknown: BOOLEAN, confidence: 0 .. 100] : o = outcome[list[i].n]
    BY <1>3
  <2>3. judged[i] = [row |-> list[i], by |-> o.by, unknown |-> o.unknown,
                     confidence |-> o.confidence,
                     review |-> o.confidence < Cascade!review_threshold(list[i])]
    BY <2>2 DEF Cascade!JudgedAll, Cascade!Judged
  <2>4. Cascade!review_threshold(list[i]) \in Int
    BY CascadeConstants DEF Cascade!review_threshold
  <2> HIDE DEF judged
  <2>5. PICK c \in 0 .. 100, t \in Int :
          c = o.confidence /\ t = Cascade!review_threshold(list[i])
    BY <2>2, <2>4
  <2>6. PICK r \in BOOLEAN : /\ ~r => c >= t
                            /\ judged[i] = [row |-> list[i], by |-> o.by, unknown |-> o.unknown,
                                            confidence |-> c, review |-> r]
    <3>1. CASE c < t
      <4>1. (c < t) = TRUE
        BY <3>1
      <4> QED
        BY <2>3, <2>5, <4>1
    <3>2. CASE ~(c < t)
      <4>1. (c < t) = FALSE /\ c >= t
        BY <3>2
      <4> QED
        BY <2>3, <2>5, <4>1
    <3> QED
      BY <3>1, <3>2
  <2>7. judged[i] \in Cascade!Verdict
    <3>1. o.by \in {"mcc", "ml", "slm", "llm", "rule"} /\ o.unknown \in BOOLEAN
      BY <2>2
    <3> QED
      BY <2>1, <2>6, <3>1 DEF Cascade!Verdict, Cascade!Percent
  <2>8. Confident(judged[i])
    BY <2>5, <2>6 DEF Confident
  <2> QED
    BY <2>2, <2>6, <2>7, <2>8
<1>4. judged \in Seq(Cascade!Verdict)
  <2>1. judged = [i \in 1 .. Len(list) |-> judged[i]]
    BY <1>1 DEF Cascade!JudgedAll
  <2>2. \A i \in 1 .. Len(list) : judged[i] \in Cascade!Verdict
    BY <1>1, <1>3
  <2> HIDE DEF judged
  <2> QED
    BY <1>1, <2>1, <2>2, SeqDef
<1>5. VerdictIds(judged) = Cascade!IdsOf(list)
  <2> HIDE DEF judged
  <2> QED
    BY <1>2, <1>3 DEF VerdictIds, Cascade!IdsOf
<1> QED
  BY <1>2, <1>3, <1>4, <1>5

\* What the empty list has: nothing.
LEMMA EmptyList ==
  /\ Elements(<< >>) = {} /\ VerdictIds(<< >>) = {} /\ Cascade!IdsOf(<< >>) = {}
  /\ << >> \in Seq(Cascade!Row) /\ << >> \in Seq(Cascade!Verdict)
<1>1. DOMAIN << >> = {}
  OBVIOUS
<1>2. << >> \in Seq(Cascade!Row) /\ << >> \in Seq(Cascade!Verdict)
  OBVIOUS
<1> QED
  BY <1>1, <1>2 DEF Elements, VerdictIds, Cascade!IdsOf

-----------------------------------------------------------------------------
Nodes == {"data_ingestor", "mcc_classifier", "ml_classifier", "routing_supervisor",
          "slm_classifier", "llm_reasoner", "finalize_classification", "leak_detector"}

Fields == {"normalized", "remaining", "mcc_classified", "ml_classified", "ml_escalated",
           "routed_to_slm", "routed_to_llm", "slm_classified", "slm_escalated",
           "llm_classified", "classified", "decisions"}

\* The variables are typed.
CascadeTyped ==
  /\ fast \in BOOLEAN /\ llm \in BOOLEAN /\ ml \in BOOLEAN
  /\ cascade_node \in Nodes
  /\ DOMAIN state = Fields
  /\ state.normalized \in Seq(Cascade!Row) /\ state.remaining \in Seq(Cascade!Row)
  /\ state.ml_escalated \in Seq(Cascade!Row) /\ state.slm_escalated \in Seq(Cascade!Row)
  /\ state.routed_to_slm \in Seq(Cascade!Row) /\ state.routed_to_llm \in Seq(Cascade!Row)
  /\ state.mcc_classified \in Seq(Cascade!Verdict) /\ state.ml_classified \in Seq(Cascade!Verdict)
  /\ state.slm_classified \in Seq(Cascade!Verdict) /\ state.llm_classified \in Seq(Cascade!Verdict)

\* Each stage signs its verdicts, and asks for a review of the unsure ones.
StagesJudge ==
  /\ \A v \in Elements(state.mcc_classified) : v.by = "mcc" /\ Confident(v)
  /\ \A v \in Elements(state.ml_classified) : v.by = "ml" /\ Confident(v)
  /\ \A v \in Elements(state.slm_classified) : v.by = "slm" /\ Confident(v)
  /\ \A v \in Elements(state.llm_classified) : v.by \in {"llm", "rule"} /\ Confident(v)

\* A stage that is still to come has left nothing behind.
StillToCome ==
  /\ cascade_node \in {"data_ingestor", "mcc_classifier", "ml_classifier"} =>
       state.ml_classified = << >>
  /\ cascade_node \in {"data_ingestor", "mcc_classifier", "ml_classifier",
                       "routing_supervisor", "slm_classifier"} =>
       state.slm_classified = << >> /\ state.slm_escalated = << >>
  /\ cascade_node \notin {"finalize_classification", "leak_detector"} =>
       state.llm_classified = << >>
  /\ cascade_node # "leak_detector" =>
       state.classified = << >> /\ state.decisions = << >>

\* Where the ids of the statement are: with verdicts or on their way to one.
IdsGoOn ==
  /\ cascade_node = "mcc_classifier" =>
       Cascade!IdsOf(state.remaining) = Cascade!IdsOf(state.normalized)
  /\ cascade_node \notin {"data_ingestor", "mcc_classifier"} =>
       Cascade!IdsOf(state.normalized) =
         VerdictIds(state.mcc_classified) \cup VerdictIds(state.ml_classified)
           \cup Cascade!IdsOf(state.remaining)
  /\ cascade_node \notin {"data_ingestor", "mcc_classifier", "ml_classifier"} =>
       Cascade!IdsOf(state.ml_escalated) = Cascade!IdsOf(state.remaining)
  /\ cascade_node \in {"slm_classifier", "llm_reasoner", "finalize_classification", "leak_detector"} =>
       Cascade!IdsOf(state.routed_to_slm) \cup Cascade!IdsOf(state.routed_to_llm)
         = Cascade!IdsOf(state.remaining)
  /\ cascade_node \in {"llm_reasoner", "finalize_classification", "leak_detector"} =>
       /\ VerdictIds(state.slm_classified) = Cascade!IdsOf(state.routed_to_slm)
       /\ Cascade!IdsOf(state.slm_escalated) \subseteq VerdictIds(state.slm_classified)
  /\ cascade_node \in {"finalize_classification", "leak_detector"} =>
       VerdictIds(state.llm_classified) =
         Cascade!IdsOf(state.routed_to_llm) \cup Cascade!IdsOf(state.slm_escalated)

\* What a stage is unsure of it has handed on, or flagged.
UnsureIsHandedOn ==
  /\ \A v \in Elements(state.ml_classified) :
       v.confidence < MlMinConfidence => v.row.id \in Cascade!IdsOf(state.ml_escalated)
  /\ \A v \in Elements(state.slm_classified) :
       fast /\ Cascade!should_escalate_from_slm(v) =>
         IF llm THEN v.row.id \in Cascade!IdsOf(state.slm_escalated) ELSE v.review

\* What finalize_classification has made of it.
Decided ==
  Cascade!Final =>
    /\ DOMAIN state.classified = Cascade!IdsOf(state.normalized)
    /\ DOMAIN state.decisions = DOMAIN state.classified
    /\ \A id \in DOMAIN state.classified :
         /\ state.classified[id] \in Cascade!Verdict
         /\ Confident(state.classified[id])
         /\ state.decisions[id] \in {"mcc", "ml", "slm", "llm", "mixed"}
    /\ Cascade!UncertainGoesOn /\ Cascade!RouteTellsAll

CascadeInv ==
  CascadeTyped /\ StagesJudge /\ StillToCome /\ IdsGoOn /\ UnsureIsHandedOn /\ Decided

LEMMA CascadeStarts == Cascade!Init => CascadeInv
<1> SUFFICES ASSUME Cascade!Init PROVE CascadeInv
  OBVIOUS
<1>1. /\ cascade_node = "data_ingestor" /\ DOMAIN state = Fields
      /\ state.normalized = << >> /\ state.remaining = << >> /\ state.mcc_classified = << >>
      /\ state.ml_classified = << >> /\ state.ml_escalated = << >>
      /\ state.routed_to_slm = << >> /\ state.routed_to_llm = << >>
      /\ state.slm_classified = << >> /\ state.slm_escalated = << >>
      /\ state.llm_classified = << >> /\ state.classified = << >> /\ state.decisions = << >>
  BY DEF Cascade!Init, Fields
<1>2. CascadeTyped
  BY <1>1, EmptyList DEF CascadeTyped, Nodes, Cascade!Init
<1>3. StagesJudge /\ UnsureIsHandedOn
  BY <1>1, EmptyList DEF StagesJudge, UnsureIsHandedOn
<1>4. StillToCome /\ IdsGoOn /\ Decided
  BY <1>1 DEF StillToCome, IdsGoOn, Decided, Cascade!Final
<1> QED
  BY <1>2, <1>3, <1>4 DEF CascadeInv

LEMMA IngestKeeps == CascadeInv /\ Cascade!data_ingestor => CascadeInv'
<1> SUFFICES ASSUME CascadeInv, Cascade!data_ingestor PROVE CascadeInv'
  OBVIOUS
<1>0. PICK len \in 0 .. MaxRows :
        \E id \in [1 .. len -> TxIds], high \in [1 .. len -> BOOLEAN] :
          LET rws == [i \in 1 .. len |-> [n |-> i, id |-> id[i], high |-> high[i]]]
          IN  state' = [state EXCEPT !.normalized = rws, !.remaining = rws]
  BY DEF Cascade!data_ingestor
<1>1. PICK id \in [1 .. len -> TxIds], high \in [1 .. len -> BOOLEAN] :
        LET rws == [i \in 1 .. len |-> [n |-> i, id |-> id[i], high |-> high[i]]]
        IN  state' = [state EXCEPT !.normalized = rws, !.remaining = rws]
  BY <1>0
<1>2. len \in Nat /\ MaxRows \in Nat
  BY CascadeConstants
<1> DEFINE rws == [i \in 1 .. len |-> [n |-> i, id |-> id[i], high |-> high[i]]]
<1>3. rws \in Seq(Cascade!Row)
  <2>1. \A i \in 1 .. len : [n |-> i, id |-> id[i], high |-> high[i]] \in Cascade!Row
    BY <1>2 DEF Cascade!Row
  <2> QED
    BY <1>2, <2>1, SeqDef
<1> HIDE DEF rws
<1>4. /\ DOMAIN state' = Fields /\ state'.normalized = rws /\ state'.remaining = rws
      /\ \A f \in Fields \ {"normalized", "remaining"} : state'[f] = state[f]
  BY <1>1 DEF CascadeInv, CascadeTyped, Fields, rws
<1>5. /\ state'.mcc_classified = state.mcc_classified /\ state'.ml_classified = state.ml_classified
      /\ state'.ml_escalated = state.ml_escalated /\ state'.slm_escalated = state.slm_escalated
      /\ state'.routed_to_slm = state.routed_to_slm /\ state'.routed_to_llm = state.routed_to_llm
      /\ state'.slm_classified = state.slm_classified /\ state'.llm_classified = state.llm_classified
      /\ state'.classified = state.classified /\ state'.decisions = state.decisions
  BY <1>4 DEF Fields
<1>6. /\ cascade_node = "data_ingestor" /\ cascade_node' = "mcc_classifier"
      /\ UNCHANGED <<fast, llm, ml>>
  BY DEF Cascade!data_ingestor, Cascade!Visit, Cascade!flags
<1>7. CascadeTyped'
  BY <1>3, <1>4, <1>5, <1>6 DEF CascadeInv, CascadeTyped, Nodes
<1>8. StagesJudge'
  BY <1>5 DEF CascadeInv, StagesJudge
<1>9. UnsureIsHandedOn'
  BY <1>5, <1>6 DEF CascadeInv, UnsureIsHandedOn
<1>10. StillToCome' /\ IdsGoOn' /\ Decided'
  BY <1>4, <1>5, <1>6 DEF CascadeInv, StillToCome, IdsGoOn, Decided, Cascade!Final
<1> QED
  BY <1>7, <1>8, <1>9, <1>10 DEF CascadeInv

LEMMA MccKeeps == CascadeInv /\ Cascade!mcc_classifier => CascadeInv'
<1> SUFFICES ASSUME CascadeInv, Cascade!mcc_classifier PROVE CascadeInv'
  OBVIOUS
<1>1. PICK hits \in SUBSET Cascade!NumbersOf(state.remaining) :
        LET hit == {i \in DOMAIN state.remaining : state.remaining[i].n \in hits}
            outcome == [n \in hits |->
              [by |-> "mcc", unknown |-> FALSE, confidence |-> MccConfidence]]
        IN  state' = [state EXCEPT
              !.mcc_classified = Cascade!JudgedAll(AtPlaces(state.remaining, hit), outcome),
              !.remaining = AtPlaces(state.remaining, DOMAIN state.remaining \ hit)]
  BY CascadeLists DEF Cascade!mcc_classifier
<1> DEFINE list == state.remaining
           hit == {i \in DOMAIN list : list[i].n \in hits}
           outcome == [n \in hits |-> [by |-> "mcc", unknown |-> FALSE, confidence |-> MccConfidence]]
           judged == Cascade!JudgedAll(AtPlaces(list, hit), outcome)
           left == AtPlaces(list, DOMAIN list \ hit)
<1>2. list \in Seq(Cascade!Row) /\ hit \in SUBSET DOMAIN list /\ (DOMAIN list \ hit) \in SUBSET DOMAIN list
  BY DEF CascadeInv, CascadeTyped
<1>3. /\ DOMAIN state' = Fields /\ state'.mcc_classified = judged /\ state'.remaining = left
      /\ \A f \in Fields \ {"mcc_classified", "remaining"} : state'[f] = state[f]
  BY <1>1 DEF CascadeInv, CascadeTyped, Fields
<1>4. /\ AtPlaces(list, hit) \in Seq(Cascade!Row) /\ left \in Seq(Cascade!Row)
      /\ Elements(AtPlaces(list, hit)) = {list[i] : i \in hit}
      /\ Elements(left) = {list[i] : i \in DOMAIN list \ hit}
  <2> HIDE DEF list, hit
  <2> QED
    BY <1>2, PartElements
<1>5. /\ judged \in Seq(Cascade!Verdict) /\ VerdictIds(judged) = Cascade!IdsOf(AtPlaces(list, hit))
      /\ \A v \in Elements(judged) : v.by = "mcc" /\ Confident(v)
  <2> DEFINE part == AtPlaces(list, hit)
  <2>1. \A e \in Elements(part) : e.n \in hits
    BY <1>4
  <2>2. \A i \in DOMAIN part :
          outcome[part[i].n] \in [by: {"mcc"}, unknown: BOOLEAN, confidence: 0 .. 100]
    <3>1. \A n \in hits : outcome[n] \in [by: {"mcc"}, unknown: BOOLEAN, confidence: 0 .. 100]
      BY CascadeConstants
    <3> HIDE DEF part, outcome
    <3> QED
      BY <2>1, <3>1 DEF Elements
  <2>3. part \in Seq(Cascade!Row)
    BY <1>4
  <2> HIDE DEF part, outcome
  <2>4. LET jdg == Cascade!JudgedAll(part, outcome) IN
          /\ jdg \in Seq(Cascade!Verdict) /\ VerdictIds(jdg) = Cascade!IdsOf(part)
          /\ \A i \in DOMAIN jdg : jdg[i].by \in {"mcc"} /\ Confident(jdg[i])
    BY <2>2, <2>3, JudgedKeepsRows
  <2> QED
    BY <2>4 DEF part, Elements
<1>6. Cascade!IdsOf(list) = VerdictIds(judged) \cup Cascade!IdsOf(left)
  <2>1. Elements(list) = Elements(AtPlaces(list, hit)) \cup Elements(left)
    BY <1>2, <1>4 DEF Elements
  <2>2. Cascade!IdsOf(list) = Cascade!IdsOf(AtPlaces(list, hit)) \cup Cascade!IdsOf(left)
    <3> HIDE DEF list, hit, left
    <3> QED
      BY <2>1, IdsOfElements
  <2> QED
    BY <1>5, <2>2
<1>7. /\ cascade_node = "mcc_classifier" /\ cascade_node' = "ml_classifier"
      /\ UNCHANGED <<fast, llm, ml>>
  BY DEF Cascade!mcc_classifier, Cascade!Visit, Cascade!flags
<1>8. Cascade!IdsOf(list) = Cascade!IdsOf(state.normalized)
  BY <1>7 DEF CascadeInv, IdsGoOn
<1> HIDE DEF list, hit, outcome, judged, left
<1>9. /\ state'.normalized = state.normalized /\ state'.ml_classified = state.ml_classified
      /\ state'.ml_escalated = state.ml_escalated /\ state'.slm_escalated = state.slm_escalated
      /\ state'.routed_to_slm = state.routed_to_slm /\ state'.routed_to_llm = state.routed_to_llm
      /\ state'.slm_classified = state.slm_classified /\ state'.llm_classified = state.llm_classified
      /\ state'.classified = state.classified /\ state'.decisions = state.decisions
  BY <1>3 DEF Fields
<1>10. CascadeTyped'
  BY <1>3, <1>4, <1>5, <1>7, <1>9 DEF CascadeInv, CascadeTyped, Nodes
<1>11. StagesJudge'
  BY <1>3, <1>5, <1>9 DEF CascadeInv, StagesJudge
<1>12. UnsureIsHandedOn'
  BY <1>7, <1>9 DEF CascadeInv, UnsureIsHandedOn
<1>13. StillToCome' /\ Decided'
  BY <1>7, <1>9 DEF CascadeInv, StillToCome, Decided, Cascade!Final
<1>14. IdsGoOn'
  BY <1>3, <1>6, <1>7, <1>8, <1>9, EmptyList DEF CascadeInv, StillToCome, IdsGoOn
<1> QED
  BY <1>10, <1>11, <1>12, <1>13, <1>14 DEF CascadeInv

LEMMA MlKeeps == CascadeInv /\ Cascade!ml_classifier => CascadeInv'
<1> SUFFICES ASSUME CascadeInv, Cascade!ml_classifier PROVE CascadeInv'
  OBVIOUS
<1> DEFINE list == state.remaining
<1>1. /\ cascade_node = "ml_classifier" /\ cascade_node' = "routing_supervisor"
      /\ UNCHANGED <<fast, llm, ml>>
  BY DEF Cascade!ml_classifier, Cascade!Visit, Cascade!flags
<1>2. /\ list \in Seq(Cascade!Row) /\ state.ml_classified = << >>
      /\ Cascade!IdsOf(state.normalized) =
           VerdictIds(state.mcc_classified) \cup Cascade!IdsOf(list)
  BY <1>1, EmptyList DEF CascadeInv, CascadeTyped, StillToCome, IdsGoOn
<1>3. \E judged, left :
        /\ DOMAIN state' = Fields
        /\ state'.ml_classified = judged /\ state'.ml_escalated = left /\ state'.remaining = left
        /\ \A f \in Fields \ {"ml_classified", "ml_escalated", "remaining"} : state'[f] = state[f]
        /\ judged \in Seq(Cascade!Verdict) /\ left \in Seq(Cascade!Row)
        /\ VerdictIds(judged) \cup Cascade!IdsOf(left) = Cascade!IdsOf(list)
        /\ \A v \in Elements(judged) :
             /\ v.by = "ml" /\ Confident(v)
             /\ v.confidence < MlMinConfidence => v.row.id \in Cascade!IdsOf(left)
  <2>1. CASE ~ml
    <3>1. state' = [state EXCEPT !.ml_escalated = list]
      BY <2>1 DEF Cascade!ml_classifier
    <3>2. /\ DOMAIN state' = Fields /\ state'.ml_escalated = list
          /\ \A f \in Fields \ {"ml_escalated"} : state'[f] = state[f]
      BY <3>1 DEF CascadeInv, CascadeTyped, Fields
    <3>3. state'.ml_classified = << >> /\ state'.remaining = list
      BY <1>2, <3>2 DEF Fields
    <3> HIDE DEF list
    <3> QED
      BY <1>2, <3>2, <3>3, EmptyList
  <2>2. CASE ml
    <3>1. PICK outcome \in [Cascade!NumbersOf(list) -> MlOutcomes] :
            LET Low(v) == v.confidence < Cascade!review_threshold(v.row) \/ v.confidence < MlMinConfidence
                verdcts == Cascade!JudgedAll(list, outcome)
                low == {i \in DOMAIN verdcts : Low(verdcts[i])}
                left == Cascade!Originals(AtPlaces(verdcts, low), list)
            IN  state' = [state EXCEPT !.ml_classified = verdcts, !.ml_escalated = left,
                                       !.remaining = left]
      BY <2>2, CascadeLists DEF Cascade!ml_classifier
    <3> DEFINE judged == Cascade!JudgedAll(list, outcome)
               low == {i \in DOMAIN judged :
                         \/ judged[i].confidence < Cascade!review_threshold(judged[i].row)
                         \/ judged[i].confidence < MlMinConfidence}
               unsure == AtPlaces(judged, low)
               left == Cascade!Originals(unsure, list)
    <3>2. /\ DOMAIN state' = Fields
          /\ state'.ml_classified = judged /\ state'.ml_escalated = left /\ state'.remaining = left
          /\ \A f \in Fields \ {"ml_classified", "ml_escalated", "remaining"} : state'[f] = state[f]
      BY <3>1 DEF CascadeInv, CascadeTyped, Fields
    <3>3. \A i \in DOMAIN list :
            outcome[list[i].n] \in [by: {"ml"}, unknown: BOOLEAN, confidence: 0 .. 100]
      BY CascadeConstants DEF Cascade!NumbersOf
    <3>4. /\ judged \in Seq(Cascade!Verdict) /\ VerdictIds(judged) = Cascade!IdsOf(list)
          /\ \A i \in DOMAIN judged : judged[i].by \in {"ml"} /\ Confident(judged[i])
      <4> HIDE DEF list
      <4> QED
        BY <1>2, <3>3, JudgedKeepsRows
    <3> HIDE DEF judged, list
    <3>5. unsure \in Seq(Cascade!Verdict) /\ Elements(unsure) = {judged[i] : i \in low}
      <4>1. low \in SUBSET DOMAIN judged
        OBVIOUS
      <4> HIDE DEF low
      <4> QED
        BY <3>4, <4>1, PartElements
    <3>6. VerdictIds(unsure) \subseteq VerdictIds(judged)
      <4>1. Elements(unsure) \subseteq Elements(judged)
        BY <3>5 DEF Elements
      <4> QED
        BY <4>1, IdsOfElements
    <3> HIDE DEF unsure
    <3>7. left \in Seq(Cascade!Row) /\ Cascade!IdsOf(left) = VerdictIds(unsure)
      BY <1>2, <3>4, <3>5, <3>6, OriginalsKeepIds
    <3>8. \A v \in Elements(judged) : v.by = "ml" /\ Confident(v)
      BY <3>4 DEF Elements
    <3>9. ASSUME NEW v \in Elements(judged), v.confidence < MlMinConfidence
          PROVE  v.row.id \in Cascade!IdsOf(left)
      <4>1. PICK i \in low : judged[i] = v
        BY <3>9 DEF Elements
      <4>2. v \in Elements(unsure)
        BY <3>5, <4>1
      <4> QED
        BY <3>7, <4>2, IdsOfElements
    <3> HIDE DEF left, low
    <3> QED
      BY <3>2, <3>4, <3>6, <3>7, <3>8, <3>9
  <2> QED
    BY <2>1, <2>2 DEF CascadeInv, CascadeTyped
<1>4. PICK judged, left :
        /\ DOMAIN state' = Fields
        /\ state'.ml_classified = judged /\ state'.ml_escalated = left /\ state'.remaining = left
        /\ \A f \in Fields \ {"ml_classified", "ml_escalated", "remaining"} : state'[f] = state[f]
        /\ judged \in Seq(Cascade!Verdict) /\ left \in Seq(Cascade!Row)
        /\ VerdictIds(judged) \cup Cascade!IdsOf(left) = Cascade!IdsOf(list)
        /\ \A v \in Elements(judged) :
             /\ v.by = "ml" /\ Confident(v)
             /\ v.confidence < MlMinConfidence => v.row.id \in Cascade!IdsOf(left)
  BY <1>3
<1> HIDE DEF list
<1>5. /\ state'.normalized = state.normalized /\ state'.mcc_classified = state.mcc_classified
      /\ state'.slm_escalated = state.slm_escalated
      /\ state'.routed_to_slm = state.routed_to_slm /\ state'.routed_to_llm = state.routed_to_llm
      /\ state'.slm_classified = state.slm_classified /\ state'.llm_classified = state.llm_classified
      /\ state'.classified = state.classified /\ state'.decisions = state.decisions
  BY <1>4 DEF Fields
<1>6. CascadeTyped'
  BY <1>1, <1>4, <1>5 DEF CascadeInv, CascadeTyped, Nodes
<1>7. StagesJudge'
  BY <1>4, <1>5 DEF CascadeInv, StagesJudge
<1>8. UnsureIsHandedOn'
  BY <1>1, <1>4, <1>5 DEF CascadeInv, UnsureIsHandedOn
<1>9. StillToCome' /\ Decided'
  BY <1>1, <1>5 DEF CascadeInv, StillToCome, Decided, Cascade!Final
<1>10. IdsGoOn'
  BY <1>1, <1>2, <1>4, <1>5 DEF CascadeInv, IdsGoOn
<1> QED
  BY <1>6, <1>7, <1>8, <1>9, <1>10 DEF CascadeInv

\* Whatever is routed where, both ways together have all the ids.
LEMMA RoutedElements ==
  ASSUME NEW list \in Seq(Cascade!Row), NEW numbers, NEW signal
  PROVE  /\ Cascade!Routed(list, numbers, signal) \in Seq(Cascade!Row)
         /\ Elements(Cascade!Routed(list, numbers, signal))
              = {e \in Elements(list) : e.n \in numbers}
<1> DEFINE first == {i \in DOMAIN list : list[i].n \in numbers \cap signal}
           second == {i \in DOMAIN list : list[i].n \in numbers \ signal}
           s == AtPlaces(list, first)
           t == AtPlaces(list, second)
<1>1. first \in SUBSET DOMAIN list /\ second \in SUBSET DOMAIN list
  OBVIOUS
<1>2. /\ s \in Seq(Cascade!Row) /\ Elements(s) = {list[i] : i \in first}
      /\ t \in Seq(Cascade!Row) /\ Elements(t) = {list[i] : i \in second}
  <2> HIDE DEF first, second
  <2> QED
    BY <1>1, PartElements
<1>3. s \o t \in Seq(Cascade!Row) /\ Elements(s \o t) = Elements(s) \cup Elements(t)
  <2> HIDE DEF s, t
  <2> QED
    BY <1>2, ConcatElements
<1>4. {list[i] : i \in first} \cup {list[i] : i \in second} = {e \in Elements(list) : e.n \in numbers}
  BY DEF Elements
<1>5. Elements(s \o t) = {e \in Elements(list) : e.n \in numbers}
  <2> HIDE DEF s, t, first, second
  <2> QED
    BY <1>2, <1>3, <1>4
<1>6. Cascade!Routed(list, numbers, signal) = s \o t
  BY CascadeLists DEF Cascade!Routed
<1> QED
  BY <1>3, <1>5, <1>6

LEMMA RoutingKeeps == CascadeInv /\ Cascade!routing_supervisor => CascadeInv'
<1> SUFFICES ASSUME CascadeInv, Cascade!routing_supervisor PROVE CascadeInv'
  OBVIOUS
<1> DEFINE list == state.remaining
           all == Cascade!NumbersOf(list)
<1>1. PICK signal \in SUBSET all, easy \in SUBSET all :
       LET sl == Cascade!Routed(list, easy, signal)
           ha == Cascade!Routed(list, all \ easy, signal)
           ad == {i \in DOMAIN ha : ha[i].id \notin Cascade!IdsOf(sl)}
           re == ha # << >> /\ ~llm
           ts == IF re THEN Cascade!LastById(sl) \o Cascade!FirstById(Cascade!AtPlaces(ha, ad)) ELSE sl
           tl == IF re THEN << >> ELSE ha
       IN  /\ state' = [state EXCEPT !.routed_to_slm = ts, !.routed_to_llm = tl]
           /\ cascade_node' = Cascade!AfterRouting(ts, tl)
  BY DEF Cascade!routing_supervisor
<1> DEFINE slm == Cascade!Routed(list, easy, signal)
           hard == Cascade!Routed(list, all \ easy, signal)
           added == {i \in DOMAIN hard : hard[i].id \notin Cascade!IdsOf(slm)}
           rest == Cascade!AtPlaces(hard, added)
           rerouted == hard # << >> /\ ~llm
           to_slm == IF rerouted THEN Cascade!LastById(slm) \o Cascade!FirstById(rest) ELSE slm
           to_llm == IF rerouted THEN << >> ELSE hard
<1>3. /\ state' = [state EXCEPT !.routed_to_slm = to_slm, !.routed_to_llm = to_llm]
      /\ cascade_node' = Cascade!AfterRouting(to_slm, to_llm)
  BY <1>1
<1>4. /\ cascade_node = "routing_supervisor" /\ UNCHANGED <<fast, llm, ml>>
  BY DEF Cascade!routing_supervisor, Cascade!flags
<1>5. list \in Seq(Cascade!Row)
  BY DEF CascadeInv, CascadeTyped
<1>6. \A e \in Elements(list) : e.n \in all
  BY DEF Elements, Cascade!NumbersOf
<1> HIDE DEF list, all
<1>7. /\ slm \in Seq(Cascade!Row) /\ Elements(slm) = {e \in Elements(list) : e.n \in easy}
      /\ hard \in Seq(Cascade!Row) /\ Elements(hard) = {e \in Elements(list) : e.n \in all \ easy}
  BY <1>5, RoutedElements
<1>8. Cascade!IdsOf(slm) \cup Cascade!IdsOf(hard) = Cascade!IdsOf(list)
  <2>1. Elements(slm) \cup Elements(hard) = Elements(list)
    <3> HIDE DEF slm, hard
    <3> QED
      BY <1>6, <1>7
  <2> HIDE DEF slm, hard
  <2> QED
    BY <2>1, IdsOfElements
<1> HIDE DEF slm, hard
<1>9. /\ rest \in Seq(Cascade!Row)
      /\ Cascade!IdsOf(slm) \cup Cascade!IdsOf(rest) = Cascade!IdsOf(slm) \cup Cascade!IdsOf(hard)
  <2>1. added \in SUBSET DOMAIN hard
    OBVIOUS
  <2>2. /\ rest \in Seq(Cascade!Row) /\ Elements(rest) = {hard[i] : i \in added}
    <3> HIDE DEF added
    <3> QED
      BY <1>7, <2>1, PartElements, CascadeLists
  <2>3. Cascade!IdsOf(rest) = {hard[i].id : i \in added}
    <3> HIDE DEF rest, added
    <3> QED
      BY <2>2, IdsOfElements
  <2>4. Cascade!IdsOf(slm) \cup {hard[i].id : i \in added} = Cascade!IdsOf(slm) \cup Cascade!IdsOf(hard)
    BY DEF Cascade!IdsOf
  <2> QED
    BY <2>2, <2>3, <2>4
<1> HIDE DEF rest
<1>10. /\ to_slm \in Seq(Cascade!Row) /\ to_llm \in Seq(Cascade!Row)
       /\ Cascade!IdsOf(to_slm) \cup Cascade!IdsOf(to_llm) = Cascade!IdsOf(list)
  <2>1. CASE ~rerouted
    BY <1>7, <1>8, <2>1
  <2>2. CASE rerouted
    <3> DEFINE s == Cascade!LastById(slm)
               t == Cascade!FirstById(rest)
    <3>1. /\ s \in Seq(Cascade!Row) /\ Cascade!IdsOf(s) = Cascade!IdsOf(slm)
          /\ t \in Seq(Cascade!Row) /\ Cascade!IdsOf(t) = Cascade!IdsOf(rest)
      BY <1>7, <1>9, LastByIdKeepsIds, FirstByIdKeepsIds
    <3> HIDE DEF s, t
    <3>2. s \o t \in Seq(Cascade!Row) /\ Elements(s \o t) = Elements(s) \cup Elements(t)
      BY <3>1, ConcatElements
    <3>3. Cascade!IdsOf(s \o t) = Cascade!IdsOf(s) \cup Cascade!IdsOf(t)
      BY <3>2, IdsOfElements
    <3>4. to_slm = s \o t /\ to_llm = << >>
      BY <2>2 DEF s, t
    <3> HIDE DEF to_slm, to_llm
    <3> QED
      BY <1>8, <1>9, <3>1, <3>2, <3>3, <3>4, EmptyList
  <2> QED
    BY <2>1, <2>2
<1> HIDE DEF to_slm, to_llm
<1>11. /\ DOMAIN state' = Fields /\ state'.routed_to_slm = to_slm /\ state'.routed_to_llm = to_llm
       /\ \A f \in Fields \ {"routed_to_slm", "routed_to_llm"} : state'[f] = state[f]
  BY <1>3 DEF CascadeInv, CascadeTyped, Fields
<1>12. /\ state'.normalized = state.normalized /\ state'.mcc_classified = state.mcc_classified
       /\ state'.remaining = state.remaining /\ state'.ml_classified = state.ml_classified
       /\ state'.ml_escalated = state.ml_escalated /\ state'.slm_escalated = state.slm_escalated
       /\ state'.slm_classified = state.slm_classified /\ state'.llm_classified = state.llm_classified
       /\ state'.classified = state.classified /\ state'.decisions = state.decisions
  BY <1>11 DEF Fields
<1>13. /\ cascade_node' \in {"slm_classifier", "llm_reasoner", "finalize_classification"}
       /\ cascade_node' # "slm_classifier" => to_slm = << >>
       /\ cascade_node' = "finalize_classification" => to_llm = << >>
  BY <1>3 DEF Cascade!AfterRouting
<1>14. CascadeTyped'
  BY <1>4, <1>10, <1>11, <1>12, <1>13 DEF CascadeInv, CascadeTyped, Nodes
<1>15. StagesJudge'
  BY <1>12 DEF CascadeInv, StagesJudge
<1>16. UnsureIsHandedOn'
  BY <1>4, <1>12 DEF CascadeInv, UnsureIsHandedOn
<1>17. StillToCome' /\ Decided'
  BY <1>4, <1>12, <1>13 DEF CascadeInv, StillToCome, Decided, Cascade!Final
<1>18. IdsGoOn'
  <2>1. /\ VerdictIds(state.slm_classified) = {} /\ Cascade!IdsOf(state.slm_escalated) = {}
        /\ VerdictIds(state.llm_classified) = {}
    BY <1>4, EmptyList DEF CascadeInv, StillToCome
  <2>2. /\ cascade_node' # "slm_classifier" => Cascade!IdsOf(to_slm) = {}
        /\ cascade_node' = "finalize_classification" => Cascade!IdsOf(to_llm) = {}
    BY <1>13, EmptyList
  <2> QED
    BY <1>4, <1>10, <1>11, <1>12, <1>13, <2>1, <2>2 DEF CascadeInv, IdsGoOn, list
<1> QED
  BY <1>14, <1>15, <1>16, <1>17, <1>18 DEF CascadeInv

LEMMA SlmKeeps == CascadeInv /\ Cascade!slm_classifier => CascadeInv'
<1> SUFFICES ASSUME CascadeInv, Cascade!slm_classifier PROVE CascadeInv'
  OBVIOUS
<1> DEFINE list == state.routed_to_slm
<1>1. PICK outcome \in [Cascade!NumbersOf(list) -> SlmOutcomes] :
        LET vs == Cascade!JudgedAll(list, outcome)
            un == {i \in DOMAIN vs : fast /\ Cascade!should_escalate_from_slm(vs[i])}
            fl == [i \in DOMAIN vs |-> [vs[i] EXCEPT !.review = @ \/ (i \in un /\ ~llm)]]
            le == IF llm THEN Cascade!AtPlaces(vs, un) ELSE << >>
            es == Cascade!Originals(le, list)
        IN  /\ state' = [state EXCEPT !.slm_classified = fl, !.slm_escalated = es]
            /\ cascade_node' = Cascade!AfterSlm(state.routed_to_llm, es)
  BY DEF Cascade!slm_classifier
<1> DEFINE judged == Cascade!JudgedAll(list, outcome)
           uncertain == {i \in DOMAIN judged : fast /\ Cascade!should_escalate_from_slm(judged[i])}
           flagged == [i \in DOMAIN judged |->
                         [judged[i] EXCEPT !.review = @ \/ (i \in uncertain /\ ~llm)]]
           left == IF llm THEN Cascade!AtPlaces(judged, uncertain) ELSE << >>
           escalated == Cascade!Originals(left, list)
<1>2. /\ state' = [state EXCEPT !.slm_classified = flagged, !.slm_escalated = escalated]
      /\ cascade_node' = Cascade!AfterSlm(state.routed_to_llm, escalated)
  BY <1>1
<1>3. /\ cascade_node = "slm_classifier" /\ UNCHANGED <<fast, llm, ml>>
      /\ fast \in BOOLEAN /\ llm \in BOOLEAN
  BY DEF Cascade!slm_classifier, Cascade!flags, CascadeInv, CascadeTyped
<1>4. list \in Seq(Cascade!Row)
  BY DEF CascadeInv, CascadeTyped
<1>5. /\ judged \in Seq(Cascade!Verdict) /\ DOMAIN judged = DOMAIN list
      /\ VerdictIds(judged) = Cascade!IdsOf(list)
      /\ \A i \in DOMAIN judged : judged[i].by \in {"slm"} /\ Confident(judged[i])
  <2>1. \A i \in DOMAIN list :
          outcome[list[i].n] \in [by: {"slm"}, unknown: BOOLEAN, confidence: 0 .. 100]
    BY CascadeConstants DEF Cascade!NumbersOf
  <2> HIDE DEF list
  <2> QED
    BY <1>4, <2>1, JudgedKeepsRows
<1> HIDE DEF judged, list
<1>6. /\ left \in Seq(Cascade!Verdict) /\ VerdictIds(left) \subseteq VerdictIds(judged)
      /\ llm => \A i \in uncertain : judged[i].row.id \in VerdictIds(left)
  <2>1. CASE ~llm
    BY <2>1, EmptyList
  <2>2. CASE llm
    <3>1. uncertain \in SUBSET DOMAIN judged /\ left = AtPlaces(judged, uncertain)
      BY <2>2, CascadeLists
    <3> HIDE DEF uncertain, left
    <3>2. left \in Seq(Cascade!Verdict) /\ Elements(left) = {judged[i] : i \in uncertain}
      BY <1>5, <3>1, PartElements
    <3>3. Elements(left) \subseteq Elements(judged)
      BY <3>1, <3>2 DEF Elements
    <3>4. VerdictIds(left) \subseteq VerdictIds(judged)
      BY <3>3, IdsOfElements
    <3>5. \A i \in uncertain : judged[i] \in Elements(left)
      BY <3>2
    <3> QED
      BY <3>2, <3>4, <3>5, IdsOfElements
  <2> QED
    BY <1>3, <2>1, <2>2
<1>7. escalated \in Seq(Cascade!Row) /\ Cascade!IdsOf(escalated) = VerdictIds(left)
  <2> HIDE DEF left
  <2> QED
    BY <1>4, <1>5, <1>6, OriginalsKeepIds
<1> HIDE DEF left, escalated
<1>8. ASSUME NEW i \in DOMAIN judged
      PROVE  /\ flagged[i] \in Cascade!Verdict
             /\ flagged[i].row = judged[i].row /\ flagged[i].by = "slm" /\ Confident(flagged[i])
             /\ fast /\ Cascade!should_escalate_from_slm(flagged[i]) =>
                  IF llm THEN flagged[i].row.id \in Cascade!IdsOf(escalated) ELSE flagged[i].review
  <2>1. PICK v \in Cascade!Verdict : v = judged[i] /\ v.by = "slm" /\ Confident(v)
    <3>1. judged[i] \in Cascade!Verdict
      BY <1>5, <1>8, LenProperties
    <3> QED
      BY <1>5, <1>8, <3>1
  <2>2. flagged[i] = [v EXCEPT !.review = v.review \/ (i \in uncertain /\ ~llm)]
    BY <1>8, <2>1
  <2>3. PICK r \in BOOLEAN : /\ r <=> (v.review \/ (i \in uncertain /\ ~llm))
                             /\ flagged[i] = [v EXCEPT !.review = r]
    <3>1. CASE v.review \/ (i \in uncertain /\ ~llm)
      <4>1. (v.review \/ (i \in uncertain /\ ~llm)) = TRUE
        BY <3>1
      <4> QED
        BY <2>2, <3>1, <4>1
    <3>2. CASE ~(v.review \/ (i \in uncertain /\ ~llm))
      <4>1. (v.review \/ (i \in uncertain /\ ~llm)) = FALSE
        BY <3>2
      <4> QED
        BY <2>2, <3>2, <4>1
    <3> QED
      BY <3>1, <3>2
  <2>4. fast /\ Cascade!should_escalate_from_slm(v) => i \in uncertain
    BY <1>8, <2>1
  <2>5. llm /\ i \in uncertain => v.row.id \in Cascade!IdsOf(escalated)
    BY <1>6, <1>7, <2>1
  <2> HIDE DEF flagged, uncertain
  <2>6. PICK w : w = flagged[i]
    OBVIOUS
  <2>7. /\ w \in Cascade!Verdict /\ w.row = v.row /\ w.by = "slm" /\ w.unknown = v.unknown
        /\ w.confidence = v.confidence /\ w.review = r
    BY <2>1, <2>3, <2>6 DEF Cascade!Verdict
  <2>8. Confident(w)
    BY <2>1, <2>3, <2>7 DEF Confident
  <2>9. Cascade!should_escalate_from_slm(w) => Cascade!should_escalate_from_slm(v)
    BY <2>7 DEF Cascade!should_escalate_from_slm
  <2> QED
    BY <2>1, <2>3, <2>4, <2>5, <2>6, <2>7, <2>8, <2>9
<1>9. flagged \in Seq(Cascade!Verdict) /\ DOMAIN flagged = DOMAIN judged
  <2>1. DOMAIN flagged = DOMAIN judged
    OBVIOUS
  <2>2. flagged = [i \in 1 .. Len(judged) |-> flagged[i]] /\ Len(judged) \in Nat
        /\ DOMAIN judged = 1 .. Len(judged)
    BY <1>5, LenProperties
  <2> HIDE DEF flagged
  <2> QED
    BY <1>8, <2>1, <2>2, SeqDef
<1> HIDE DEF flagged
<1>10. /\ VerdictIds(flagged) = Cascade!IdsOf(list)
       /\ \A v \in Elements(flagged) : v.by = "slm" /\ Confident(v)
       /\ \A v \in Elements(flagged) : fast /\ Cascade!should_escalate_from_slm(v) =>
            IF llm THEN v.row.id \in Cascade!IdsOf(escalated) ELSE v.review
  <2>1. VerdictIds(flagged) = VerdictIds(judged)
    BY <1>8, <1>9 DEF VerdictIds
  <2>2. \A v \in Elements(flagged) : v.by = "slm" /\ Confident(v)
    BY <1>8, <1>9 DEF Elements
  <2>3. ASSUME NEW v \in Elements(flagged), fast, Cascade!should_escalate_from_slm(v)
        PROVE  IF llm THEN v.row.id \in Cascade!IdsOf(escalated) ELSE v.review
    <3>1. PICK i \in DOMAIN judged : v = flagged[i]
      BY <1>9, <2>3 DEF Elements
    <3> QED
      BY <1>8, <2>3, <3>1
  <2> QED
    BY <1>5, <2>1, <2>2, <2>3
<1>11. /\ DOMAIN state' = Fields
       /\ state'.slm_classified = flagged /\ state'.slm_escalated = escalated
       /\ \A f \in Fields \ {"slm_classified", "slm_escalated"} : state'[f] = state[f]
  BY <1>2 DEF CascadeInv, CascadeTyped, Fields
<1>12. /\ state'.normalized = state.normalized /\ state'.mcc_classified = state.mcc_classified
       /\ state'.remaining = state.remaining /\ state'.ml_classified = state.ml_classified
       /\ state'.ml_escalated = state.ml_escalated /\ state'.llm_classified = state.llm_classified
       /\ state'.routed_to_slm = state.routed_to_slm /\ state'.routed_to_llm = state.routed_to_llm
       /\ state'.classified = state.classified /\ state'.decisions = state.decisions
  BY <1>11 DEF Fields
<1>13. /\ cascade_node' \in {"llm_reasoner", "finalize_classification"}
       /\ cascade_node' = "finalize_classification" =>
            state.routed_to_llm = << >> /\ escalated = << >>
  BY <1>2 DEF Cascade!AfterSlm
<1>14. CascadeTyped'
  BY <1>3, <1>7, <1>9, <1>11, <1>12, <1>13 DEF CascadeInv, CascadeTyped, Nodes
<1>15. StagesJudge'
  BY <1>10, <1>11, <1>12 DEF CascadeInv, StagesJudge
<1>16. UnsureIsHandedOn'
  BY <1>3, <1>10, <1>11, <1>12 DEF CascadeInv, UnsureIsHandedOn
<1>17. StillToCome' /\ Decided'
  BY <1>3, <1>12, <1>13 DEF CascadeInv, StillToCome, Decided, Cascade!Final
<1>18. IdsGoOn'
  <2>1. VerdictIds(state.llm_classified) = {}
    BY <1>3, EmptyList DEF CascadeInv, StillToCome
  <2>2. Cascade!IdsOf(escalated) \subseteq VerdictIds(flagged)
    BY <1>5, <1>6, <1>7, <1>10
  <2>3. cascade_node' = "finalize_classification" =>
          Cascade!IdsOf(state.routed_to_llm) = {} /\ Cascade!IdsOf(escalated) = {}
    BY <1>13, EmptyList
  <2> QED
    BY <1>3, <1>10, <1>11, <1>12, <1>13, <2>1, <2>2, <2>3 DEF CascadeInv, IdsGoOn, list
<1> QED
  BY <1>14, <1>15, <1>16, <1>17, <1>18 DEF CascadeInv

LEMMA LlmKeeps == CascadeInv /\ Cascade!llm_reasoner => CascadeInv'
<1> SUFFICES ASSUME CascadeInv, Cascade!llm_reasoner PROVE CascadeInv'
  OBVIOUS
<1> DEFINE both == state.routed_to_llm \o state.slm_escalated
           input == Cascade!LastById(both)
<1>1. PICK outcome \in [Cascade!NumbersOf(input) -> LlmOutcomes] :
        state' = [state EXCEPT !.llm_classified = Cascade!JudgedAll(input, outcome)]
  BY DEF Cascade!llm_reasoner
<1> DEFINE judged == Cascade!JudgedAll(input, outcome)
<1>2. /\ cascade_node = "llm_reasoner" /\ cascade_node' = "finalize_classification"
      /\ UNCHANGED <<fast, llm, ml>>
  BY DEF Cascade!llm_reasoner, Cascade!Visit, Cascade!flags
<1>3. /\ both \in Seq(Cascade!Row)
      /\ Cascade!IdsOf(both) = Cascade!IdsOf(state.routed_to_llm) \cup Cascade!IdsOf(state.slm_escalated)
  <2>1. /\ state.routed_to_llm \in Seq(Cascade!Row) /\ state.slm_escalated \in Seq(Cascade!Row)
    BY DEF CascadeInv, CascadeTyped
  <2> QED
    BY <2>1, ConcatElements, IdsOfElements
<1> HIDE DEF both
<1>4. input \in Seq(Cascade!Row) /\ Cascade!IdsOf(input) = Cascade!IdsOf(both)
  BY <1>3, LastByIdKeepsIds
<1> HIDE DEF input
<1>5. /\ judged \in Seq(Cascade!Verdict) /\ VerdictIds(judged) = Cascade!IdsOf(input)
      /\ \A i \in DOMAIN judged : judged[i].by \in {"llm", "rule"} /\ Confident(judged[i])
  <2>1. \A i \in DOMAIN input :
          outcome[input[i].n] \in [by: {"llm", "rule"}, unknown: BOOLEAN, confidence: 0 .. 100]
    BY CascadeConstants DEF Cascade!NumbersOf
  <2> QED
    BY <1>4, <2>1, JudgedKeepsRows
<1> HIDE DEF judged
<1>6. /\ DOMAIN state' = Fields /\ state'.llm_classified = judged
      /\ \A f \in Fields \ {"llm_classified"} : state'[f] = state[f]
  BY <1>1 DEF CascadeInv, CascadeTyped, Fields, judged
<1>7. /\ state'.normalized = state.normalized /\ state'.mcc_classified = state.mcc_classified
      /\ state'.remaining = state.remaining /\ state'.ml_classified = state.ml_classified
      /\ state'.ml_escalated = state.ml_escalated /\ state'.slm_classified = state.slm_classified
      /\ state'.slm_escalated = state.slm_escalated
      /\ state'.routed_to_slm = state.routed_to_slm /\ state'.routed_to_llm = state.routed_to_llm
      /\ state'.classified = state.classified /\ state'.decisions = state.decisions
  BY <1>6 DEF Fields
<1>8. CascadeTyped'
  BY <1>2, <1>5, <1>6, <1>7 DEF CascadeInv, CascadeTyped, Nodes
<1>9. StagesJudge'
  BY <1>5, <1>6, <1>7 DEF CascadeInv, StagesJudge, Elements
<1>10. UnsureIsHandedOn'
  BY <1>2, <1>7 DEF CascadeInv, UnsureIsHandedOn
<1>11. StillToCome' /\ Decided'
  BY <1>2, <1>7 DEF CascadeInv, StillToCome, Decided, Cascade!Final
<1>12. IdsGoOn'
  BY <1>2, <1>3, <1>4, <1>5, <1>6, <1>7 DEF CascadeInv, IdsGoOn
<1> QED
  BY <1>8, <1>9, <1>10, <1>11, <1>12 DEF CascadeInv

\* The verdicts on other ids.
LEMMA WithoutElements ==
  ASSUME NEW list \in Seq(Cascade!Verdict), NEW ids
  PROVE  /\ Cascade!Without(ids, list) \in Seq(Cascade!Verdict)
         /\ Elements(Cascade!Without(ids, list)) = {v \in Elements(list) : v.row.id \notin ids}
         /\ VerdictIds(Cascade!Without(ids, list)) = VerdictIds(list) \ ids
<1> DEFINE S == {i \in DOMAIN list : list[i].row.id \notin ids}
           rest == Cascade!Without(ids, list)
<1>1. S \in SUBSET DOMAIN list /\ rest = AtPlaces(list, S)
  BY CascadeLists DEF Cascade!Without
<1> HIDE DEF rest
<1>2. rest \in Seq(Cascade!Verdict) /\ Elements(rest) = {list[i] : i \in S}
  <2> HIDE DEF S
  <2> QED
    BY <1>1, PartElements
<1>3. Elements(rest) = {v \in Elements(list) : v.row.id \notin ids}
  BY <1>2 DEF Elements
<1> HIDE DEF S
<1>4. VerdictIds(rest) = VerdictIds(list) \ ids
  BY <1>3, IdsOfElements
<1> QED
  BY <1>2, <1>3, <1>4 DEF rest

LEMMA FinalizeKeeps == CascadeInv /\ Cascade!finalize_classification => CascadeInv'
<1> SUFFICES ASSUME CascadeInv, Cascade!finalize_classification PROVE CascadeInv'
  OBVIOUS
<1> DEFINE ml_ids == Cascade!IdsOf(state.ml_escalated)
           slm_ids == Cascade!IdsOf(state.slm_escalated)
           A == state.mcc_classified
           B == Cascade!Without(ml_ids, state.ml_classified)
           C == Cascade!Without(slm_ids, state.slm_classified)
           D == state.llm_classified
           merged == A \o B \o C \o D
           final == [id \in VerdictIds(merged) |-> Cascade!LastVerdict(merged, id)]
           decisions == [id \in DOMAIN final |-> Cascade!Route(final[id], ml_ids \cup slm_ids)]
<1>1. state' = [state EXCEPT !.classified = final, !.decisions = decisions]
  BY DEF Cascade!finalize_classification, VerdictIds
<1>2. /\ cascade_node = "finalize_classification" /\ cascade_node' = "leak_detector"
      /\ UNCHANGED <<fast, llm, ml>>
  BY DEF Cascade!finalize_classification, Cascade!Visit, Cascade!flags
<1>3. /\ A \in Seq(Cascade!Verdict) /\ D \in Seq(Cascade!Verdict)
      /\ B \in Seq(Cascade!Verdict)
      /\ Elements(B) = {v \in Elements(state.ml_classified) : v.row.id \notin ml_ids}
      /\ VerdictIds(B) = VerdictIds(state.ml_classified) \ ml_ids
      /\ C \in Seq(Cascade!Verdict)
      /\ Elements(C) = {v \in Elements(state.slm_classified) : v.row.id \notin slm_ids}
      /\ VerdictIds(C) = VerdictIds(state.slm_classified) \ slm_ids
  <2>1. /\ state.mcc_classified \in Seq(Cascade!Verdict) /\ state.ml_classified \in Seq(Cascade!Verdict)
        /\ state.slm_classified \in Seq(Cascade!Verdict) /\ state.llm_classified \in Seq(Cascade!Verdict)
    BY DEF CascadeInv, CascadeTyped
  <2> QED
    BY <2>1, WithoutElements
<1>4. /\ \A v \in Elements(A) : v.by = "mcc" /\ Confident(v)
      /\ \A v \in Elements(B) : /\ v.by = "ml" /\ Confident(v) /\ ~(v.confidence < MlMinConfidence)
      /\ \A v \in Elements(C) : /\ v.by = "slm" /\ Confident(v)
                                /\ fast /\ Cascade!should_escalate_from_slm(v) => ~llm /\ v.review
      /\ \A v \in Elements(D) : v.by \in {"llm", "rule"} /\ Confident(v)
  BY <1>3 DEF CascadeInv, StagesJudge, UnsureIsHandedOn
\* Every id that a verdict was put aside for has a later one.
<1>5. /\ VerdictIds(A) \cup VerdictIds(state.ml_classified) \cup ml_ids
           = Cascade!IdsOf(state.normalized)
      /\ ml_ids \subseteq VerdictIds(state.slm_classified) \cup VerdictIds(D)
      /\ VerdictIds(state.slm_classified) \subseteq ml_ids
      /\ slm_ids \subseteq VerdictIds(D) /\ VerdictIds(D) \subseteq ml_ids
  <2>1. /\ Cascade!IdsOf(state.normalized) = VerdictIds(A)
             \cup VerdictIds(state.ml_classified) \cup Cascade!IdsOf(state.remaining)
        /\ ml_ids = Cascade!IdsOf(state.remaining)
        /\ Cascade!IdsOf(state.routed_to_slm) \cup Cascade!IdsOf(state.routed_to_llm)
             = Cascade!IdsOf(state.remaining)
        /\ VerdictIds(state.slm_classified) = Cascade!IdsOf(state.routed_to_slm)
        /\ slm_ids \subseteq VerdictIds(state.slm_classified)
        /\ VerdictIds(D) = Cascade!IdsOf(state.routed_to_llm) \cup slm_ids
    BY <1>2 DEF CascadeInv, IdsGoOn
  <2> HIDE DEF ml_ids, slm_ids, A, D
  <2> QED
    BY <2>1
<1> HIDE DEF ml_ids, slm_ids, A, B, C, D
<1> DEFINE AB == A \o B
           ABC == AB \o C
<1>6. /\ AB \in Seq(Cascade!Verdict) /\ VerdictIds(AB) = VerdictIds(A) \cup VerdictIds(B)
      /\ Elements(AB) = Elements(A) \cup Elements(B)
  BY <1>3, ConcatElements, IdsOfElements
<1> HIDE DEF AB
<1>7. /\ ABC \in Seq(Cascade!Verdict) /\ VerdictIds(ABC) = VerdictIds(AB) \cup VerdictIds(C)
      /\ Elements(ABC) = Elements(AB) \cup Elements(C)
  BY <1>3, <1>6, ConcatElements, IdsOfElements
<1>8. merged = ABC \o D
  BY DEF AB
<1> HIDE DEF ABC, merged
<1>9. /\ merged \in Seq(Cascade!Verdict) /\ VerdictIds(merged) = VerdictIds(ABC) \cup VerdictIds(D)
      /\ Elements(merged) = Elements(ABC) \cup Elements(D)
  BY <1>3, <1>7, <1>8, ConcatElements, IdsOfElements
<1>10. VerdictIds(merged) = Cascade!IdsOf(state.normalized)
  BY <1>3, <1>5, <1>6, <1>7, <1>9
<1>11. ASSUME NEW id \in VerdictIds(merged)
       PROVE  /\ final[id] \in Cascade!Verdict /\ final[id].row.id = id
              /\ final[id] \in Elements(A) \cup Elements(B) \cup Elements(C) \cup Elements(D)
  <2>1. PICK i \in DOMAIN merged : final[id] = merged[i] /\ merged[i].row.id = id
    BY <1>9, LastVerdictHasId
  <2>2. merged[i] \in Cascade!Verdict
    BY <1>9, <2>1, LenProperties
  <2>3. merged[i] \in Elements(merged)
    BY <2>1 DEF Elements
  <2> QED
    BY <1>6, <1>7, <1>9, <2>1, <2>2, <2>3
\* An MCC verdict stands only where no later stage has said anything.
<1>12. ASSUME NEW id \in VerdictIds(merged), final[id].by = "mcc"
       PROVE  /\ id \notin VerdictIds(state.ml_classified)
              /\ id \notin VerdictIds(state.slm_classified) /\ id \notin VerdictIds(D)
  <2>1. final[id] = Cascade!LastVerdict(ABC \o D, id)
    BY <1>8, <1>12
  <2>2. id \notin VerdictIds(D)
    BY <1>3, <1>4, <1>7, <1>12, <2>1, SecondListWins
  <2>3. final[id] = Cascade!LastVerdict(ABC, id) /\ id \in VerdictIds(ABC)
    BY <1>3, <1>7, <1>9, <1>12, <2>1, <2>2, SecondListWins
  <2>4. id \notin VerdictIds(C)
    <3>1. id \in VerdictIds(C) => Cascade!LastVerdict(AB \o C, id) \in Elements(C)
      BY <1>3, <1>6, SecondListWins
    <3> QED
      BY <1>4, <1>12, <2>3, <3>1 DEF ABC
  <2>5. id \in VerdictIds(AB) /\ final[id] = Cascade!LastVerdict(AB, id)
    <3>1. id \in VerdictIds(AB) /\ id \notin VerdictIds(C) =>
            Cascade!LastVerdict(AB \o C, id) = Cascade!LastVerdict(AB, id)
      BY <1>3, <1>6, SecondListWins
    <3> QED
      BY <1>7, <2>3, <2>4, <3>1 DEF ABC
  <2>6. id \notin VerdictIds(B)
    <3>1. id \in VerdictIds(B) => Cascade!LastVerdict(A \o B, id) \in Elements(B)
      BY <1>3, SecondListWins
    <3> QED
      BY <1>4, <1>12, <2>5, <3>1 DEF AB
  <2>7. id \notin VerdictIds(state.slm_classified)
    BY <1>3, <1>5, <2>2, <2>4
  <2>8. id \notin VerdictIds(state.ml_classified)
    BY <1>3, <1>5, <2>2, <2>6, <2>7
  <2> QED
    BY <2>2, <2>7, <2>8
<1>13. /\ DOMAIN state' = Fields /\ state'.classified = final /\ state'.decisions = decisions
       /\ \A f \in Fields \ {"classified", "decisions"} : state'[f] = state[f]
  BY <1>1 DEF CascadeInv, CascadeTyped, Fields
<1>14. /\ state'.normalized = state.normalized /\ state'.mcc_classified = state.mcc_classified
       /\ state'.remaining = state.remaining /\ state'.ml_classified = state.ml_classified
       /\ state'.ml_escalated = state.ml_escalated /\ state'.slm_classified = state.slm_classified
       /\ state'.slm_escalated = state.slm_escalated /\ state'.llm_classified = state.llm_classified
       /\ state'.routed_to_slm = state.routed_to_slm /\ state'.routed_to_llm = state.routed_to_llm
  BY <1>13 DEF Fields
<1>15. \A id : Cascade!Voters(id)' = Cascade!Voters(id)
  BY <1>14 DEF Cascade!Voters, Cascade!Judgements
\* The voters on an id are the stages with a verdict on it.
<1>16. ASSUME NEW id
       PROVE  Cascade!Voters(id) = {v.by : v \in {v \in
                Elements(A) \cup Elements(state.ml_classified)
                  \cup Elements(state.slm_classified) \cup Elements(D) : v.row.id = id}}
  <2>1. /\ state.mcc_classified \in Seq(Cascade!Verdict) /\ state.ml_classified \in Seq(Cascade!Verdict)
        /\ state.slm_classified \in Seq(Cascade!Verdict) /\ state.llm_classified \in Seq(Cascade!Verdict)
    BY DEF CascadeInv, CascadeTyped
  <2> DEFINE s == state.mcc_classified \o state.ml_classified
             t == s \o state.slm_classified
             u == t \o state.llm_classified
  <2>2. /\ s \in Seq(Cascade!Verdict)
        /\ Elements(s) = Elements(state.mcc_classified) \cup Elements(state.ml_classified)
    BY <2>1, ConcatElements
  <2>3. Cascade!Judgements = u
    BY DEF Cascade!Judgements
  <2> HIDE DEF s
  <2>4. t \in Seq(Cascade!Verdict) /\ Elements(t) = Elements(s) \cup Elements(state.slm_classified)
    BY <2>1, <2>2, ConcatElements
  <2> HIDE DEF t
  <2>5. Elements(u) = Elements(t) \cup Elements(state.llm_classified)
    BY <2>1, <2>4, ConcatElements
  <2> HIDE DEF u
  <2>6. Cascade!Voters(id) = {v.by : v \in {v \in Elements(u) : v.row.id = id}}
    BY <2>3 DEF Cascade!Voters, Elements
  <2> QED
    BY <2>2, <2>4, <2>5, <2>6 DEF A, D
<1>17. ASSUME NEW id \in VerdictIds(merged)
       PROVE  /\ Confident(final[id])
              /\ final[id].by = "slm" /\ fast /\ Cascade!should_escalate_from_slm(final[id]) =>
                   ~llm /\ final[id].review
              /\ final[id].by = "ml" => final[id].confidence >= MlMinConfidence
  <2>1. PICK v \in Cascade!Verdict : v = final[id]
    BY <1>11
  <2>2. v.confidence \in 0 .. 100 /\ MlMinConfidence \in Int
    BY CascadeConstants DEF Cascade!Verdict, Cascade!Percent
  <2> HIDE DEF final
  <2>3. v \in Elements(A) \cup Elements(B) \cup Elements(C) \cup Elements(D)
    BY <1>11, <2>1
  <2>4. Confident(v) /\ (v.by = "slm" => v \in Elements(C)) /\ (v.by = "ml" => v \in Elements(B))
    BY <1>4, <2>3
  <2> QED
    BY <1>4, <2>1, <2>2, <2>4
<1>18. ASSUME NEW id \in VerdictIds(merged)
       PROVE  /\ decisions[id] \in {"mcc", "ml", "slm", "llm", "mixed"}
              /\ decisions[id] # "mixed" => Cascade!Voters(id) = {final[id].by}
  <2>1. PICK v \in Cascade!Verdict : v = final[id] /\ v.row.id = id
    BY <1>11
  <2>2. v \in Elements(A) \cup Elements(state.ml_classified)
                  \cup Elements(state.slm_classified) \cup Elements(D)
    BY <1>3, <1>11, <2>1
  <2>3. v.by \in Cascade!Voters(id)
    BY <1>16, <2>1, <2>2
  <2>4. decisions[id] = Cascade!Route(v, ml_ids \cup slm_ids)
    BY <1>18, <2>1
  <2>5. v.by \in {"mcc", "ml", "slm", "llm", "rule"}
    BY DEF Cascade!Verdict
  <2>6. CASE v.by = "mcc"
    <3>1. /\ id \notin VerdictIds(state.ml_classified)
          /\ id \notin VerdictIds(state.slm_classified) /\ id \notin VerdictIds(D)
      BY <1>12, <2>1, <2>6
    <3> HIDE DEF final, decisions
    <3>2. \A w \in Elements(state.ml_classified) \cup Elements(state.slm_classified) \cup Elements(D) :
            w.row.id # id
      BY <3>1, IdsOfElements
    <3>3. Cascade!Voters(id) \subseteq {"mcc"}
      BY <1>4, <1>16, <3>2
    <3>4. decisions[id] = "mcc"
      BY <2>4, <2>6 DEF Cascade!Route
    <3> QED
      BY <2>1, <2>3, <2>6, <3>3, <3>4
  <2>7. CASE v.by # "mcc"
    <3> HIDE DEF final, decisions
    <3>1. CASE v.row.id \in ml_ids \cup slm_ids \/ Cascade!Voters(id) \ {v.by} # {}
      <4>1. decisions[id] = "mixed"
        BY <2>1, <2>4, <2>7, <3>1 DEF Cascade!Route
      <4> QED
        BY <4>1
    <3>2. CASE ~(v.row.id \in ml_ids \cup slm_ids \/ Cascade!Voters(id) \ {v.by} # {})
      <4>1. decisions[id] = IF v.by = "rule" THEN "llm" ELSE v.by
        BY <2>1, <2>4, <2>7, <3>2 DEF Cascade!Route
      <4>2. Cascade!Voters(id) = {v.by}
        BY <2>3, <3>2
      <4> QED
        BY <2>1, <2>5, <2>7, <4>1, <4>2
    <3> QED
      BY <3>1, <3>2
  <2> QED
    BY <2>6, <2>7
<1>19. DOMAIN final = VerdictIds(merged) /\ DOMAIN decisions = VerdictIds(merged)
  OBVIOUS
<1> HIDE DEF final, decisions
<1>20. CascadeTyped'
  BY <1>2, <1>13, <1>14 DEF CascadeInv, CascadeTyped, Nodes
<1>21. StagesJudge'
  BY <1>14 DEF CascadeInv, StagesJudge
<1>22. UnsureIsHandedOn'
  BY <1>2, <1>14 DEF CascadeInv, UnsureIsHandedOn
<1>23. StillToCome'
  BY <1>2, <1>14 DEF CascadeInv, StillToCome
<1>24. IdsGoOn'
  BY <1>2, <1>14 DEF CascadeInv, IdsGoOn
<1>25. Decided'
  <2>1. /\ DOMAIN state'.classified = Cascade!IdsOf(state'.normalized)
        /\ DOMAIN state'.decisions = DOMAIN state'.classified
        /\ \A id \in DOMAIN state'.classified :
             /\ state'.classified[id] \in Cascade!Verdict
             /\ Confident(state'.classified[id])
             /\ state'.decisions[id] \in {"mcc", "ml", "slm", "llm", "mixed"}
    BY <1>10, <1>11, <1>13, <1>14, <1>17, <1>18, <1>19
  <2>2. Cascade!RouteTellsAll'
    BY <1>13, <1>15, <1>18, <1>19 DEF Cascade!RouteTellsAll
  <2>3. Cascade!UncertainGoesOn'
    <3> SUFFICES ASSUME NEW id \in VerdictIds(merged)
                 PROVE  LET v == final[id]
                            weak == \/ v.unknown
                                    \/ v.confidence < SlmEscalation
                                    \/ v.confidence < IF v.row.high THEN ReviewHighRisk ELSE ReviewDefault
                        IN  /\ v.by = "slm" /\ fast /\ weak => v.review /\ ~llm
                            /\ v.by = "ml" => v.confidence >= MlMinConfidence
      BY <1>2, <1>13, <1>19 DEF Cascade!UncertainGoesOn
    <3>1. PICK v : v = final[id]
      OBVIOUS
    <3>2. Cascade!review_threshold(v.row) = IF v.row.high THEN ReviewHighRisk ELSE ReviewDefault
      BY DEF Cascade!review_threshold
    <3> QED
      BY <1>17, <3>1, <3>2 DEF Cascade!should_escalate_from_slm
  <2> QED
    BY <2>1, <2>2, <2>3 DEF Decided
<1> QED
  BY <1>20, <1>21, <1>22, <1>23, <1>24, <1>25 DEF CascadeInv

LEMMA CascadeSteps == CascadeInv /\ [Cascade!Next]_(Cascade!vars) => CascadeInv'
<1> SUFFICES ASSUME CascadeInv, [Cascade!Next]_(Cascade!vars) PROVE CascadeInv'
  OBVIOUS
<1>1. CASE UNCHANGED Cascade!vars
  <2>1. UNCHANGED <<fast, llm, ml, cascade_node, state>>
    BY <1>1 DEF Cascade!vars
  <2>2. CascadeTyped' /\ StagesJudge' /\ StillToCome'
    BY <2>1 DEF CascadeInv, CascadeTyped, StagesJudge, StillToCome
  <2>3. IdsGoOn' /\ UnsureIsHandedOn'
    BY <2>1 DEF CascadeInv, IdsGoOn, UnsureIsHandedOn
  <2>4. \A id : Cascade!Voters(id)' = Cascade!Voters(id)
    BY <2>1 DEF Cascade!Voters, Cascade!Judgements
  <2>5. Decided'
    BY <2>1, <2>4 DEF CascadeInv, Decided, Cascade!Final, Cascade!UncertainGoesOn,
      Cascade!RouteTellsAll
  <2> QED
    BY <2>2, <2>3, <2>5 DEF CascadeInv
<1> QED
  BY <1>1, IngestKeeps, MccKeeps, MlKeeps, RoutingKeeps, SlmKeeps, LlmKeeps, FinalizeKeeps
    DEF Cascade!Next, Cascade!Terminated

LEMMA CascadeInvariant == Cascade!Spec => []CascadeInv
<1> QED
  BY CascadeStarts, CascadeSteps, PTL DEF Cascade!Spec

LEMMA CascadeInvTypes == CascadeInv => Cascade!TypeOK
<1> SUFFICES ASSUME CascadeInv PROVE Cascade!TypeOK
  OBVIOUS
<1>1. Cascade!IdsOf(state.normalized) \subseteq TxIds
  <2>1. \A i \in DOMAIN state.normalized : state.normalized[i] \in Cascade!Row
    BY LenProperties DEF CascadeInv, CascadeTyped
  <2> QED
    BY <2>1 DEF Cascade!IdsOf, Cascade!Row
<1>2. /\ DOMAIN state.classified \subseteq TxIds
      /\ \A id \in DOMAIN state.classified :
           /\ state.classified[id] \in Cascade!Verdict
           /\ state.decisions[id] \in {"mcc", "ml", "slm", "llm", "mixed"}
  <2>1. CASE cascade_node = "leak_detector"
    BY <1>1, <2>1 DEF CascadeInv, Decided, Cascade!Final
  <2>2. CASE cascade_node # "leak_detector"
    <3>1. DOMAIN state.classified = {}
      BY <2>2 DEF CascadeInv, StillToCome
    <3> QED
      BY <3>1
  <2> QED
    BY <2>1, <2>2
<1> QED
  BY <1>2 DEF CascadeInv, CascadeTyped, Nodes, Cascade!TypeOK

\* The stages of the cascade pass on rows of the statement and sign what they
\* say.
THEOREM CascadeTypeCorrect == Cascade!Spec => []Cascade!TypeOK
<1> QED
  BY CascadeInvariant, CascadeInvTypes, PTL

\* Whichever classifiers are there and whatever they say, no id of the
\* statement is lost and a route that is not "mixed" names the only stage
\* that gave a verdict.
THEOREM CascadeKeepsVerdicts == Cascade!Spec => []VerdictsAreKept
<1>1. CascadeInv => VerdictsAreKept
  BY DEF CascadeInv, Decided, Cascade!Final, VerdictsAreKept, Cascade!VerdictsAreKept,
    Cascade!EveryIdIsClassified, Cascade!RouteTellsAll
<1> QED
  BY <1>1, CascadeInvariant, PTL

\* Nothing unsure gets past the thresholds, for any thresholds: the two of the
\* review are settings of their own, and either may be the higher.
THEOREM CascadeHoldsThresholds == Cascade!Spec => []ThresholdsHold
<1>1. CascadeInv => ThresholdsHold
  <2> SUFFICES ASSUME CascadeInv PROVE ThresholdsHold
    OBVIOUS
  <2>1. Cascade!UncertainGoesOn
    BY DEF CascadeInv, Decided, Cascade!UncertainGoesOn
  <2>2. Cascade!AcceptedIsConfident
    <3> SUFFICES ASSUME Cascade!Final, NEW id \in DOMAIN state.classified,
                        ~state.classified[id].review
                 PROVE  state.classified[id].confidence
                          >= IF state.classified[id].row.high THEN ReviewHighRisk ELSE ReviewDefault
      BY DEF Cascade!AcceptedIsConfident
    <3>1. PICK v \in Cascade!Verdict : v = state.classified[id] /\ Confident(v)
      BY DEF CascadeInv, Decided
    <3>2. v.confidence >= Cascade!review_threshold(v.row)
      BY <3>1 DEF Confident
    <3> QED
      BY <3>1, <3>2, Zenon DEF Cascade!review_threshold
  <2> QED
    BY <2>1, <2>2 DEF ThresholdsHold, Cascade!ThresholdsHold
<1> QED
  BY <1>1, CascadeInvariant, PTL
-----------------------------------------------------------------------------
(* The rules: what they compute.                                            *)

LEMMA RuleConstants ==
  /\ Order \in Seq(Rules!Categories)
  /\ BasePropensity \in [Rules!Categories -> 0 .. 100]
  /\ None \notin Rules!Categories /\ None \notin Rules!Sides
  /\ None # "slm" /\ None # "llm"
  /\ None \notin [side: Rules!Sides, confidence: 0 .. Rules!One]
<1>1. None \notin Rules!Categories \cup Rules!Sides \cup {"slm", "llm"}
                   \cup [side: Rules!Sides, confidence: 0 .. Rules!One]
  BY RulesAssumption DEF Rules!ConstantsAssumption
<1>2. /\ Order \in Seq(Rules!Categories)
      /\ BasePropensity \in [Rules!Categories -> 0 .. 100]
  BY RulesAssumption DEF Rules!ConstantsAssumption
<1> QED
  BY <1>1, <1>2

LEMMA OverridesTyped ==
  ASSUME NEW file \in RuleOverrides, NEW c \in DOMAIN file.propensity
  PROVE  file.propensity[c] = None \/ file.propensity[c] \in Int
BY RulesAssumption DEF Rules!ConstantsAssumption

\* A row as the rules see it, of the statement or not.
RuleRow(r) ==
  /\ DOMAIN r = {"tokens", "matches", "words", "rules", "upi", "fast", "vote", "mcc", "digits"}
  /\ r.tokens \in Nat /\ r.matches \in [Rules!Categories -> Nat]
  /\ r.words \in [Rules!Sides -> Nat] /\ r.rules \in [Rules!Sides -> BOOLEAN]
  /\ r.vote = None \/ r.vote \in [side: Rules!Sides, confidence: 0 .. Rules!One]

LEMMA RuleRowsTyped == ASSUME NEW r \in RuleRows PROVE RuleRow(r)
BY RulesAssumption DEF Rules!ConstantsAssumption, RuleRow

\* The greatest and the least of some numbers.
LEMMA MaxIs ==
  ASSUME NEW S \in SUBSET Int, NEW m \in S, \A k \in S : k <= m
  PROVE  Rules!Max(S) = m
<1> DEFINE Q(x) == \A y \in S : x >= y
<1>1. Q(m)
  OBVIOUS
<1>2. PICK x \in S : x = Rules!Max(S) /\ Q(x)
  BY <1>1 DEF Rules!Max
<1> QED
  BY <1>1, <1>2

LEMMA MinIs ==
  ASSUME NEW S \in SUBSET Int, NEW m \in S, \A k \in S : m <= k
  PROVE  Rules!Min(S) = m
<1> DEFINE Q(x) == \A y \in S : x =< y
<1>1. Q(m)
  OBVIOUS
<1>2. PICK x \in S : x = Rules!Min(S) /\ Q(x)
  BY <1>1 DEF Rules!Min
<1> QED
  BY <1>1, <1>2

LEMMA OfTwo ==
  ASSUME NEW a \in Int, NEW b \in Int
  PROVE  /\ Rules!Max({a, b}) = IF a >= b THEN a ELSE b
         /\ Rules!Min({a, b}) = IF a <= b THEN a ELSE b
<1> DEFINE hi == IF a >= b THEN a ELSE b
           lo == IF a <= b THEN a ELSE b
<1>1. /\ {a, b} \in SUBSET Int /\ hi \in {a, b} /\ lo \in {a, b}
      /\ \A k \in {a, b} : k <= hi /\ lo <= k
  OBVIOUS
<1> HIDE DEF hi, lo
<1>2. Rules!Max({a, b}) = hi
  BY <1>1, MaxIs
<1>3. Rules!Min({a, b}) = lo
  BY <1>1, MinIs
<1> QED
  BY <1>2, <1>3 DEF hi, lo

\* A match is worth 315 at least.
LEMMA ScoreBounds ==
  ASSUME NEW hits \in Nat, NEW tokens \in Nat
  PROVE  /\ Rules!Score(hits, tokens) \in Nat
         /\ 210 <= Rules!Score(hits, tokens) /\ Rules!Score(hits, tokens) <= 840
         /\ hits > 0 => Rules!Score(hits, tokens) >= 315
<1> DEFINE m == Rules!Max({1, Rules!Min({8, tokens})})
           q == (840 * hits) \div m
<1>1. m \in 1 .. 8
  <2>1. PICK l \in Nat : l = Rules!Min({8, tokens}) /\ l <= 8
    BY OfTwo
  <2>2. m = IF 1 >= l THEN 1 ELSE l
    BY <2>1, OfTwo
  <2> QED
    BY <2>1, <2>2
<1> HIDE DEF m
<1>2. q \in Nat /\ (hits > 0 => q >= 105)
  <2>1. PICK h \in Nat : h = hits
    OBVIOUS
  <2>2. /\ (840 * h) \div 1 = 840 * h /\ (840 * h) \div 2 = 420 * h /\ (840 * h) \div 3 = 280 * h
        /\ (840 * h) \div 4 = 210 * h /\ (840 * h) \div 5 = 168 * h /\ (840 * h) \div 6 = 140 * h
        /\ (840 * h) \div 7 = 120 * h /\ (840 * h) \div 8 = 105 * h
    OBVIOUS
  <2>3. m \in {1, 2, 3, 4, 5, 6, 7, 8}
    BY <1>1
  <2>4. q \in {840 * h, 420 * h, 280 * h, 210 * h, 168 * h, 140 * h, 120 * h, 105 * h}
    BY <2>1, <2>2, <2>3
  <2> HIDE DEF q
  <2> QED
    BY <2>1, <2>4
<1> HIDE DEF q
<1>3. Rules!Score(hits, tokens) = Rules!Min({840, 210 + q})
  BY DEF Rules!Score, m, q
<1>4. PICK t \in Int : t = 210 + q
  BY <1>2
<1>5. Rules!Score(hits, tokens) = IF 840 <= t THEN 840 ELSE t
  <2>1. PICK top \in Int : top = 840
    OBVIOUS
  <2>2. Rules!Min({top, t}) = IF top <= t THEN top ELSE t
    BY OfTwo
  <2>3. Rules!Score(hits, tokens) = Rules!Min({top, t})
    BY <1>3, <1>4, <2>1
  <2> QED
    BY <2>1, <2>2, <2>3
<1> QED
  BY <1>2, <1>4, <1>5

ScoreOf(r, c) == Rules!Score(r.matches[c], r.tokens)

LEMMA ScoreOfBounds ==
  ASSUME NEW r, RuleRow(r), NEW c \in Rules!Categories
  PROVE  /\ ScoreOf(r, c) \in Nat /\ 210 <= ScoreOf(r, c) /\ ScoreOf(r, c) <= 840
         /\ r.matches[c] > 0 => ScoreOf(r, c) >= 315
<1>1. r.matches \in [Rules!Categories -> Nat] /\ r.tokens \in Nat
  BY DEF RuleRow
<1>2. r.matches[c] \in Nat
  BY <1>1
<1>3. LET score == Rules!Score(r.matches[c], r.tokens)
      IN  score \in Nat /\ 210 <= score /\ score <= 840
  BY <1>1, <1>2, ScoreBounds
<1>4. r.matches[c] > 0 => Rules!Score(r.matches[c], r.tokens) >= 315
  BY <1>1, <1>2, ScoreBounds
<1> QED
  BY <1>3, <1>4 DEF ScoreOf

\* The match is a category with keywords in the row and a score that no other
\* one exceeds.
LEMMA BestMatchIsBest ==
  ASSUME NEW r, RuleRow(r), NEW order \in Seq(Rules!Categories)
  PROVE  LET hit == {i \in DOMAIN order : r.matches[order[i]] > 0}
         IN  /\ hit = {} => Rules!BestMatch(r, order) = None
             /\ hit # {} => \E i \in hit :
                  /\ Rules!BestMatch(r, order) = order[i]
                  /\ \A j \in hit : ScoreOf(r, order[i]) >= ScoreOf(r, order[j])
<1> DEFINE hit == {i \in DOMAIN order : r.matches[order[i]] > 0}
           best == {i \in hit : \A j \in hit : ScoreOf(r, order[i]) >= ScoreOf(r, order[j])}
<1>1. /\ DOMAIN order = 1 .. Len(order) /\ Len(order) \in Nat
      /\ \A i \in DOMAIN order : order[i] \in Rules!Categories
  BY LenProperties
<1>2. \A i \in DOMAIN order : ScoreOf(r, order[i]) \in Nat /\ ScoreOf(r, order[i]) <= 840
  BY <1>1, ScoreOfBounds
<1>3. ASSUME hit = {} PROVE Rules!BestMatch(r, order) = None
  BY <1>3 DEF Rules!BestMatch
<1>4. ASSUME hit # {} PROVE Rules!BestMatch(r, order) = order[Rules!Min(best)]
  BY <1>4 DEF Rules!BestMatch, ScoreOf
<1>5. hit \subseteq DOMAIN order
  OBVIOUS
<1> HIDE DEF hit
<1>6. ASSUME hit # {} PROVE best # {}
  <2> DEFINE S == {ScoreOf(r, order[i]) : i \in hit}
  <2>1. S \in SUBSET Nat /\ S # {} /\ \A k \in S : k <= 840
    <3>1. PICK top \in Nat : top = 840
      OBVIOUS
    <3>2. ASSUME NEW k \in S PROVE k \in Nat /\ k <= top
      <4>1. PICK i \in hit : k = ScoreOf(r, order[i])
        BY <3>2
      <4>2. k \in Nat /\ k <= 840
        BY <1>2, <1>5, <4>1
      <4> QED
        BY <3>1, <4>2
    <3>3. S # {}
      BY <1>6
    <3> HIDE DEF S
    <3> QED
      BY <3>1, <3>2, <3>3
  <2>2. PICK m \in S : \A k \in S : k <= m
    <3>1. PICK n \in Nat : n = 840
      OBVIOUS
    <3> HIDE DEF S
    <3>2. \A k \in S : k <= n
      BY <2>1, <3>1
    <3> QED
      BY <2>1, <3>2, GreatestOf
  <2>3. PICK i \in hit : ScoreOf(r, order[i]) = m
    BY <2>2
  <2>4. \A j \in hit : ScoreOf(r, order[j]) <= m
    BY <2>2
  <2>5. \A j \in hit : ScoreOf(r, order[i]) >= ScoreOf(r, order[j])
    BY <1>2, <1>5, <2>3, <2>4
  <2> QED
    BY <2>5
<1>7. ASSUME hit # {} PROVE Rules!Min(best) \in best
  <2>1. best \in SUBSET Nat /\ best \in SUBSET Int /\ best # {}
    BY <1>1, <1>5, <1>6, <1>7
  <2> HIDE DEF best
  <2>2. PICK m \in best : \A k \in best : m <= k
    BY <2>1, LeastOf
  <2> QED
    BY <2>1, <2>2, MinIs
<1>8. ASSUME hit # {}
      PROVE  \E i \in hit : /\ Rules!BestMatch(r, order) = order[i]
                            /\ \A j \in hit : ScoreOf(r, order[i]) >= ScoreOf(r, order[j])
  BY <1>4, <1>7, <1>8
<1> QED
  BY <1>3, <1>8 DEF hit

\* A row matches no category or one that it has keywords of.
LEMMA MatchFacts ==
  ASSUME NEW r, RuleRow(r)
  PROVE  \/ Rules!Match_category(r) = None
         \/ /\ Rules!Match_category(r) \in Rules!Categories
            /\ Rules!MatchScore(r) \in Nat
            /\ 315 <= Rules!MatchScore(r) /\ Rules!MatchScore(r) <= 840
<1>1. Order \in Seq(Rules!Categories)
  BY RuleConstants
<1>2. CASE {i \in DOMAIN Order : r.matches[Order[i]] > 0} = {}
  BY <1>1, <1>2, BestMatchIsBest DEF Rules!Match_category
<1>3. CASE {i \in DOMAIN Order : r.matches[Order[i]] > 0} # {}
  <2>1. PICK i \in DOMAIN Order : r.matches[Order[i]] > 0 /\ Rules!Match_category(r) = Order[i]
    BY <1>1, <1>3, BestMatchIsBest DEF Rules!Match_category
  <2>2. PICK c \in Rules!Categories : c = Order[i]
    BY <1>1, LenProperties
  <2>3. ScoreOf(r, c) \in Nat /\ 315 <= ScoreOf(r, c) /\ ScoreOf(r, c) <= 840
    BY <2>1, <2>2, ScoreOfBounds
  <2> QED
    BY <2>1, <2>2, <2>3 DEF Rules!MatchScore, ScoreOf
<1> QED
  BY <1>2, <1>3

Propensities(p) == \A c \in DOMAIN p : p[c] \in 0 .. 100

\* A side the propensity stands for is the one on whose side of the middle it
\* lies, and as far from it as asked for.
LEMMA LeaningFacts ==
  ASSUME NEW q \in 0 .. 100
  PROVE  /\ Rules!Leaning(q, 5) = IF q >= 55 THEN "business" ELSE IF q <= 45 THEN "personal" ELSE None
         /\ Rules!Leaning(q, 10) = IF q >= 60 THEN "business" ELSE IF q <= 40 THEN "personal" ELSE None
         /\ Rules!Leaning(q, 15) = IF q >= 65 THEN "business" ELSE IF q <= 35 THEN "personal" ELSE None
         /\ Rules!Distance(q) = IF q >= 50 THEN q - 50 ELSE 50 - q
<1>1. Rules!Leaning(q, 5) = IF q >= 55 THEN "business" ELSE IF q <= 45 THEN "personal" ELSE None
  BY DEF Rules!Leaning
<1>2. Rules!Leaning(q, 10) = IF q >= 60 THEN "business" ELSE IF q <= 40 THEN "personal" ELSE None
  BY DEF Rules!Leaning
<1>3. Rules!Leaning(q, 15) = IF q >= 65 THEN "business" ELSE IF q <= 35 THEN "personal" ELSE None
  BY DEF Rules!Leaning
<1>4. Rules!Distance(q) = IF q >= 50 THEN q - 50 ELSE 50 - q
  BY DEF Rules!Distance
<1> QED
  BY <1>1, <1>2, <1>3, <1>4

\* Nothing is surer than 0.95.
LEMMA CappedAt95 ==
  ASSUME NEW sum \in Int
  PROVE  Rules!Min({Rules!Hundredths(95), sum}) = IF 79800 <= sum THEN 79800 ELSE sum
<1>1. PICK top \in Int : top = Rules!Hundredths(95)
  BY SMT DEF Rules!Hundredths
<1>2. Rules!Min({top, sum}) = IF top <= sum THEN top ELSE sum
  BY OfTwo, SMT
<1>3. top = 79800
  BY <1>1, SMT DEF Rules!Hundredths
<1> QED
  BY <1>1, <1>2, <1>3, SMT

\* How sure the taxonomy is of the match.
LEMMA StrengthIs ==
  ASSUME NEW score \in Int, NEW q, Rules!Distance(q) \in Int
  PROVE  Rules!TaxonomyConfidence(score, q)
           = IF 79800 <= 46200 + 35 * score + 252 * Rules!Distance(q)
             THEN 79800 ELSE 46200 + 35 * score + 252 * Rules!Distance(q)
<1>1. PICK sum \in Int : sum = Rules!Hundredths(55) + 35 * score + 252 * Rules!Distance(q)
  BY SMT DEF Rules!Hundredths
<1>2. Rules!TaxonomyConfidence(score, q) = Rules!Min({Rules!Hundredths(95), sum})
  BY <1>1, SMT DEF Rules!TaxonomyConfidence
<1>3. Rules!Min({Rules!Hundredths(95), sum}) = IF 79800 <= sum THEN 79800 ELSE sum
  BY CappedAt95, SMT
<1>4. sum = 46200 + 35 * score + 252 * Rules!Distance(q)
  BY <1>1, SMT DEF Rules!Hundredths
<1> QED
  BY <1>2, <1>3, <1>4, SMT

LEMMA StrengthArithmetic ==
  ASSUME NEW score \in Int, NEW d \in Int, 315 <= score, score <= 840, 0 <= d, d <= 50
  PROVE  LET sum == 46200 + 35 * score + 252 * d
         IN  sum \in Int /\ sum >= 57225 /\ (d >= 15 => sum >= 60480)
OBVIOUS

LEMMA StrengthBounds ==
  ASSUME NEW score \in Int, 315 <= score, score <= 840, NEW q \in 0 .. 100
  PROVE  LET conf == Rules!TaxonomyConfidence(score, q)
         IN  /\ conf \in Nat /\ conf <= Rules!One
             /\ Rules!Leaning(q, 15) # None => conf >= Rules!Hundredths(72)
<1>1. Rules!Distance(q) \in 0 .. 50 /\ (Rules!Leaning(q, 15) # None => Rules!Distance(q) >= 15)
  <2>1. Rules!Distance(q) = IF q >= 50 THEN q - 50 ELSE 50 - q
    BY LeaningFacts, SMT
  <2>2. Rules!Leaning(q, 15) # None => q >= 65 \/ q <= 35
    <3>1. Rules!Leaning(q, 15) = IF q >= 65 THEN "business" ELSE IF q <= 35 THEN "personal" ELSE None
      BY LeaningFacts, SMT
    <3> QED
      BY <3>1, SMT
  <2> QED
    BY <2>1, <2>2, SMT
<1> DEFINE sum == 46200 + 35 * score + 252 * Rules!Distance(q)
<1>3. sum \in Int /\ sum >= 57225 /\ (Rules!Distance(q) >= 15 => sum >= 60480)
  BY <1>1, StrengthArithmetic, SMT
<1>5. Rules!TaxonomyConfidence(score, q) = IF 79800 <= sum THEN 79800 ELSE sum
  BY <1>1, StrengthIs, SMT
<1>6. PICK total \in Int : total = sum
  BY <1>3, SMT
<1> HIDE DEF sum
<1>7. total >= 57225 /\ (Rules!Leaning(q, 15) # None => total >= 60480)
  BY <1>1, <1>3, <1>6, SMT
<1>8. Rules!TaxonomyConfidence(score, q) = IF 79800 <= total THEN 79800 ELSE total
  BY <1>5, <1>6, SMT
<1>9. PICK most \in Int, least \in Int : most = Rules!One /\ least = Rules!Hundredths(72)
  BY SMT DEF Rules!One, Rules!Hundredths
<1>10. most = 84000 /\ least = 60480
  BY <1>9, SMT DEF Rules!One, Rules!Hundredths
<1> QED
  BY <1>7, <1>8, <1>9, <1>10, SMT

\* How sure a majority is.
LEMMA MajorityBounds ==
  ASSUME NEW h \in Nat
  PROVE  Rules!MajorityConfidence(h) = IF 79800 <= 50400 + 5040 * h THEN 79800 ELSE 50400 + 5040 * h
<1>1. PICK sum \in Int : sum = 50400 + 5040 * h
  BY SMT
<1>2. Rules!MajorityConfidence(h) = Rules!Min({Rules!Hundredths(95), sum})
  BY <1>1, SMT DEF Rules!MajorityConfidence, Rules!Hundredths
<1>3. Rules!Min({Rules!Hundredths(95), sum}) = IF 79800 <= sum THEN 79800 ELSE sum
  BY CappedAt95, SMT
<1> QED
  BY <1>1, <1>2, <1>3, SMT

\* The propensity of the category a row matches, the side it stands for, how
\* sure that is, the side it votes for, and the votes of a side.
PropensityOf(r, p) == Rules!PropensityIn(p, Rules!Match_category(r))
StrongSide(r, p) ==
  IF Rules!Match_category(r) # None THEN Rules!Leaning(PropensityOf(r, p), 15) ELSE None
Strength(r, p) ==
  IF StrongSide(r, p) = None THEN 0
  ELSE Rules!TaxonomyConfidence(Rules!MatchScore(r), PropensityOf(r, p))
VotedSide(r, p) ==
  IF Rules!Match_category(r) # None THEN Rules!Leaning(PropensityOf(r, p), 5) ELSE None
HitsFor(r, p, side) == Rules!Hits(r, side, VotedSide(r, p), Rules!Boost(PropensityOf(r, p)))

LEMMA SlmDecides ==
  ASSUME NEW r, NEW p
  PROVE  Rules!SlmVerdict(r, p) =
           Rules!Decide(StrongSide(r, p), Strength(r, p), HitsFor(r, p, "business"),
                        HitsFor(r, p, "personal"), r.vote)
BY SMT DEF Rules!SlmVerdict, PropensityOf, StrongSide, Strength, VotedSide, HitsFor

LEMMA PropensityTyped ==
  ASSUME NEW p, Propensities(p), NEW c
  PROVE  Rules!PropensityIn(p, c) \in 0 .. 100
BY DEF Propensities, Rules!PropensityIn

\* The alternatives of the decision.
LEMMA DecideByMatch ==
  ASSUME NEW strong, NEW strength, NEW business, NEW personal, NEW vote,
         strong # None, strength >= Rules!Hundredths(70)
  PROVE  Rules!Decide(strong, strength, business, personal, vote) = Rules!Verdict(strong, strength)
BY Zenon DEF Rules!Decide

\* A strong match decides, above the threshold of escalation.
LEMMA StrongMatchDecides ==
  ASSUME NEW r, RuleRow(r), NEW p, Propensities(p), StrongSide(r, p) # None
  PROVE  /\ StrongSide(r, p) \in {"business", "personal"}
         /\ Strength(r, p) \in Nat /\ Strength(r, p) <= Rules!One
         /\ Strength(r, p) >= Rules!Hundredths(72)
         /\ Rules!SlmVerdict(r, p) = Rules!Verdict(StrongSide(r, p), Strength(r, p))
<1>1. Rules!Match_category(r) # None
  BY DEF StrongSide
<1>2. /\ Rules!MatchScore(r) \in Nat
      /\ 315 <= Rules!MatchScore(r) /\ Rules!MatchScore(r) <= 840
  BY <1>1, MatchFacts, SMT
<1>3. PropensityOf(r, p) \in 0 .. 100
  BY PropensityTyped, SMT DEF PropensityOf
<1>4. StrongSide(r, p) = Rules!Leaning(PropensityOf(r, p), 15)
  BY <1>1, SMT DEF StrongSide
<1>5. StrongSide(r, p) \in {"business", "personal"}
  <2>1. Rules!Leaning(PropensityOf(r, p), 15) \in {None, "business", "personal"}
    BY <1>3, LeaningFacts, SMT
  <2> QED
    BY <1>4, <2>1, SMT
<1>6. Strength(r, p) = Rules!TaxonomyConfidence(Rules!MatchScore(r), PropensityOf(r, p))
  BY Zenon DEF Strength
<1>7. /\ Strength(r, p) \in Nat /\ Strength(r, p) <= Rules!One
      /\ Strength(r, p) >= Rules!Hundredths(72)
  BY <1>2, <1>3, <1>4, <1>6, StrengthBounds, SMT
<1>8. Strength(r, p) >= Rules!Hundredths(70)
  <2>1. PICK st \in Nat : st = Strength(r, p) /\ st >= Rules!Hundredths(72)
    BY <1>7, SMT
  <2>2. st >= Rules!Hundredths(70)
    BY <2>1, SMT DEF Rules!Hundredths
  <2> QED
    BY <2>1, <2>2, SMT
<1>9. Rules!SlmVerdict(r, p) = Rules!Verdict(StrongSide(r, p), Strength(r, p))
  BY <1>8, SlmDecides, DecideByMatch, SMT
<1> QED
  BY <1>5, <1>7, <1>9, Zenon

-----------------------------------------------------------------------------
(* The rules: the votes.                                                    *)

\* A propensity boosts the votes by two at least.
LEMMA BoostTyped == ASSUME NEW q \in 0 .. 100 PROVE Rules!Boost(q) \in Nat
<1>1. Rules!Distance(q) \in Nat
  <2>1. Rules!Distance(q) = IF q >= 50 THEN q - 50 ELSE 50 - q
    BY LeaningFacts, SMT
  <2> QED
    BY <2>1, SMT
<1>2. PICK n \in Nat : n = Rules!Distance(q)
  BY <1>1, SMT
<1>3. PICK b \in Nat : b = (n + 5) \div 10
  BY SMT
<1>4. Rules!Max({2, b}) = IF 2 >= b THEN 2 ELSE b
  BY OfTwo, SMT
<1>5. Rules!Boost(q) = Rules!Max({2, b})
  BY <1>2, <1>3, SMT DEF Rules!Boost
<1> QED
  BY <1>4, <1>5, SMT

LEMMA HitsTyped ==
  ASSUME NEW r, RuleRow(r), NEW p, Propensities(p), NEW side \in Rules!Sides
  PROVE  HitsFor(r, p, side) \in Nat
<1>1. PropensityOf(r, p) \in 0 .. 100
  BY PropensityTyped, SMT DEF PropensityOf
<1>2. Rules!Boost(PropensityOf(r, p)) \in Nat
  BY <1>1, BoostTyped, SMT
<1>3. Rules!UpiHits(r, side) \in Nat
  BY SMT DEF Rules!UpiHits
<1>4. r.words[side] \in Nat
  BY SMT DEF RuleRow
<1> QED
  BY <1>2, <1>3, <1>4, SMT DEF HitsFor, Rules!Hits

Vote(vote) == vote = None \/ vote \in [side: Rules!Sides, confidence: 0 .. Rules!One]

LEMMA VoteTyped ==
  ASSUME NEW vote, Vote(vote), vote # None
  PROVE  /\ vote.side \in {"business", "personal"}
         /\ vote.confidence \in Nat /\ vote.confidence <= Rules!One
<1>1. Rules!One \in Nat
  BY SMT DEF Rules!One
<1>2. vote.side \in {"business", "personal"} /\ vote.confidence \in 0 .. Rules!One
  BY SMT DEF Vote, Rules!Sides
<1> QED
  BY <1>1, <1>2, SMT

\* What a side wins with when the taxonomy stands for neither.
WonWith(side, hits, vote) ==
  IF vote # None /\ vote.side = side /\ vote.confidence >= Rules!MajorityConfidence(hits)
  THEN vote.confidence ELSE Rules!MajorityConfidence(hits)

LEMMA MajorityTyped ==
  ASSUME NEW h \in Nat
  PROVE  /\ Rules!MajorityConfidence(h) \in Nat /\ Rules!MajorityConfidence(h) <= Rules!One
         /\ Rules!MajorityConfidence(h) <= Rules!MajorityConfidence(h + 1)
<1>1. Rules!MajorityConfidence(h) = IF 79800 <= 50400 + 5040 * h THEN 79800 ELSE 50400 + 5040 * h
  BY MajorityBounds, SMT
<1>2. PICK k \in Nat : k = h + 1
  BY SMT
<1>3. Rules!MajorityConfidence(k) = IF 79800 <= 50400 + 5040 * k THEN 79800 ELSE 50400 + 5040 * k
  BY MajorityBounds, SMT
<1>4. PICK most \in Nat : most = Rules!One /\ most = 84000
  BY SMT DEF Rules!One
<1>5. PICK m \in Nat, n \in Nat : m = Rules!MajorityConfidence(h) /\ n = Rules!MajorityConfidence(k)
  BY <1>1, <1>3, SMT
<1>6. m <= most /\ m <= n
  BY <1>1, <1>2, <1>3, <1>4, <1>5, SMT
<1> QED
  BY <1>2, <1>4, <1>5, <1>6, SMT

LEMMA WonTyped ==
  ASSUME NEW side, NEW h \in Nat, NEW vote, Vote(vote)
  PROVE  /\ WonWith(side, h, vote) \in Nat /\ WonWith(side, h, vote) <= Rules!One
         /\ WonWith(side, h, vote) <= WonWith(side, h + 1, vote)
         /\ vote # None /\ vote.side = side => WonWith(side, h, vote) >= vote.confidence
<1>1. /\ Rules!MajorityConfidence(h) \in Nat /\ Rules!MajorityConfidence(h) <= Rules!One
      /\ Rules!MajorityConfidence(h) <= Rules!MajorityConfidence(h + 1)
  BY MajorityTyped, SMT
<1>2. Rules!MajorityConfidence(h + 1) \in Nat
  <2>1. PICK k \in Nat : k = h + 1
    BY SMT
  <2>2. Rules!MajorityConfidence(k) \in Nat
    BY MajorityTyped, SMT
  <2> QED
    BY <2>1, <2>2, SMT
<1>3. vote # None => vote.confidence \in Nat /\ vote.confidence <= Rules!One
  BY VoteTyped, SMT
<1> QED
  BY <1>1, <1>2, <1>3, SMT DEF WonWith

LEMMA DecideByVotes ==
  ASSUME NEW business \in Nat, NEW personal \in Nat, NEW vote, Vote(vote)
  PROVE  /\ business > personal =>
              Rules!Decide(None, 0, business, personal, vote)
                = Rules!Verdict("business", WonWith("business", business, vote))
         /\ personal > business =>
              Rules!Decide(None, 0, business, personal, vote)
                = Rules!Verdict("personal", WonWith("personal", personal, vote))
         /\ business = personal =>
              Rules!Decide(None, 0, business, personal, vote)
                = IF vote # None THEN Rules!Verdict(vote.side, vote.confidence)
                  ELSE Rules!Verdict("unknown", Rules!Hundredths(45))
<1> DEFINE Values(side, hits) ==
             {Rules!MajorityConfidence(hits)}
               \cup (IF vote # None /\ vote.side = side THEN {vote.confidence} ELSE {})
               \cup (IF None = side THEN {0} ELSE {})
<1>1. ASSUME NEW side \in Rules!Sides, NEW h \in Nat
      PROVE  Rules!Max(Values(side, h)) = WonWith(side, h, vote)
  <2>1. None # side
    BY RuleConstants, SMT
  <2>2. Rules!MajorityConfidence(h) \in Nat
    BY MajorityTyped, SMT
  <2>3. vote # None => vote.confidence \in Nat
    BY VoteTyped, SMT
  <2>4. /\ Values(side, h) \in SUBSET Int
        /\ WonWith(side, h, vote) \in Values(side, h)
        /\ \A k \in Values(side, h) : k <= WonWith(side, h, vote)
    BY <2>1, <2>2, <2>3, SMT DEF WonWith
  <2> HIDE DEF Values
  <2> QED
    BY <2>4, MaxIs, SMT
<1>2. Rules!Max(Values("business", business)) = WonWith("business", business, vote)
  BY <1>1, SMT DEF Rules!Sides
<1>3. Rules!Max(Values("personal", personal)) = WonWith("personal", personal, vote)
  BY <1>1, SMT DEF Rules!Sides
<1>4. Rules!Decide(None, 0, business, personal, vote) =
        IF business > personal
        THEN Rules!Verdict("business", Rules!Max(Values("business", business)))
        ELSE IF personal > business
        THEN Rules!Verdict("personal", Rules!Max(Values("personal", personal)))
        ELSE IF vote # None THEN Rules!Verdict(vote.side, vote.confidence)
        ELSE Rules!Verdict("unknown", Rules!Hundredths(45))
  BY Zenon DEF Rules!Decide
<1> HIDE DEF Values
<1> QED
  BY <1>2, <1>3, <1>4, SMT

-----------------------------------------------------------------------------
(* The rules: what the verdicts of a row have in common with those of        *)
(* another.                                                                 *)

\* Without a strong match the votes decide.
LEMMA SlmByVotes ==
  ASSUME NEW r, RuleRow(r), NEW p, Propensities(p), StrongSide(r, p) = None,
         NEW b \in Nat, NEW n \in Nat, NEW vote,
         b = HitsFor(r, p, "business"), n = HitsFor(r, p, "personal"), vote = r.vote
  PROVE  /\ b > n => Rules!SlmVerdict(r, p) = Rules!Verdict("business", WonWith("business", b, vote))
         /\ n > b => Rules!SlmVerdict(r, p) = Rules!Verdict("personal", WonWith("personal", n, vote))
         /\ b = n => Rules!SlmVerdict(r, p) =
                       IF vote # None THEN Rules!Verdict(vote.side, vote.confidence)
                       ELSE Rules!Verdict("unknown", Rules!Hundredths(45))
<1>1. Strength(r, p) = 0
  BY Zenon DEF Strength
<1>2. Rules!SlmVerdict(r, p) = Rules!Decide(None, 0, b, n, vote)
  BY <1>1, SlmDecides, SMT
<1>3. Vote(vote)
  BY SMT DEF RuleRow, Vote
<1> QED
  BY <1>2, <1>3, DecideByVotes, SMT

LEMMA VerdictFields ==
  ASSUME NEW side, NEW confidence
  PROVE  /\ Rules!Verdict(side, confidence).side = side
         /\ Rules!Verdict(side, confidence).confidence = confidence
BY SMT DEF Rules!Verdict

\* The SLM's verdict is a side or none, and as sure as a number from 0 to 1.
LEMMA SlmTyped ==
  ASSUME NEW r, RuleRow(r), NEW p, Propensities(p)
  PROVE  Rules!SlmVerdict(r, p) \in [side: Rules!Sides \cup {"unknown"}, confidence: 0 .. Rules!One]
<1> DEFINE Good(v) == v \in [side: Rules!Sides \cup {"unknown"}, confidence: 0 .. Rules!One]
<1>1. Rules!One \in Nat
  BY SMT DEF Rules!One
<1>2. ASSUME NEW side \in {"business", "personal", "unknown"},
             NEW c, c \in Nat, c <= Rules!One
      PROVE  Good(Rules!Verdict(side, c))
  BY <1>1, <1>2, SMT DEF Rules!Verdict, Rules!Sides
<1> HIDE DEF Good
<1>3. CASE StrongSide(r, p) # None
  BY <1>2, <1>3, StrongMatchDecides, SMT DEF Good
<1>4. CASE StrongSide(r, p) = None
  <2>1. PICK b \in Nat, n \in Nat : b = HitsFor(r, p, "business") /\ n = HitsFor(r, p, "personal")
    BY HitsTyped, SMT DEF Rules!Sides
  <2>2. PICK vote : vote = r.vote
    BY SMT
  <2>3. Vote(vote)
    BY <2>2, SMT DEF RuleRow, Vote
  <2>8. b = n => Rules!SlmVerdict(r, p) =
                   IF vote # None THEN Rules!Verdict(vote.side, vote.confidence)
                   ELSE Rules!Verdict("unknown", Rules!Hundredths(45))
    BY <1>4, <2>1, <2>2, SlmByVotes, SMT
  <2>4. CASE b > n
    <3>1. Rules!SlmVerdict(r, p) = Rules!Verdict("business", WonWith("business", b, vote))
      BY <1>4, <2>1, <2>2, <2>4, SlmByVotes, SMT
    <3> QED
      BY <1>2, <2>3, <3>1, WonTyped, SMT DEF Good
  <2>5. CASE n > b
    <3>1. Rules!SlmVerdict(r, p) = Rules!Verdict("personal", WonWith("personal", n, vote))
      BY <1>4, <2>1, <2>2, <2>5, SlmByVotes, SMT
    <3> QED
      BY <1>2, <2>3, <3>1, WonTyped, SMT DEF Good
  <2>6. CASE b = n /\ vote # None
    <3>1. Rules!SlmVerdict(r, p) = Rules!Verdict(vote.side, vote.confidence)
      BY <1>4, <2>1, <2>2, <2>6, SlmByVotes, SMT
    <3> QED
      BY <1>2, <2>3, <2>6, <3>1, VoteTyped, SMT DEF Good
  <2>7. CASE b = n /\ vote = None
    <3>1. Rules!SlmVerdict(r, p) = Rules!Verdict("unknown", Rules!Hundredths(45))
      BY <2>7, <2>8, Zenon
    <3>2. PICK c \in Nat : c = Rules!Hundredths(45) /\ c <= Rules!One
      BY SMT DEF Rules!Hundredths, Rules!One
    <3> QED
      BY <1>2, <3>1, <3>2, SMT DEF Good
  <2> QED
    BY <2>4, <2>5, <2>6, <2>7, SMT
<1> QED
  BY <1>3, <1>4 DEF Good

\* The match looks at the keywords of the categories and the number of words.
LEMMA SameMatch ==
  ASSUME NEW r, NEW other, r.matches = other.matches, r.tokens = other.tokens
  PROVE  /\ Rules!Match_category(other) = Rules!Match_category(r)
         /\ Rules!MatchScore(other) = Rules!MatchScore(r)
<1>1. Rules!Match_category(other) = Rules!Match_category(r)
  BY Zenon DEF Rules!Match_category, Rules!BestMatch
<1> QED
  BY <1>1, Zenon DEF Rules!MatchScore

\* One more keyword for a side.
MoreFor(r, side) == [r EXCEPT !.words[side] = @ + 1]

LEMMA OneMoreKeyword ==
  ASSUME NEW r, RuleRow(r), NEW p, Propensities(p), NEW side \in Rules!Sides
  PROVE  /\ RuleRow(MoreFor(r, side))
         /\ MoreFor(r, side).vote = r.vote
         /\ StrongSide(MoreFor(r, side), p) = StrongSide(r, p)
         /\ Strength(MoreFor(r, side), p) = Strength(r, p)
         /\ \A s \in Rules!Sides :
              HitsFor(MoreFor(r, side), p, s)
                = IF s = side THEN HitsFor(r, p, s) + 1 ELSE HitsFor(r, p, s)
<1> DEFINE more == MoreFor(r, side)
<1>1. /\ DOMAIN r = {"tokens", "matches", "words", "rules", "upi", "fast", "vote", "mcc", "digits"}
      /\ r.words \in [Rules!Sides -> Nat]
  BY SMT DEF RuleRow
<1>2. /\ DOMAIN more = DOMAIN r
      /\ more.matches = r.matches /\ more.tokens = r.tokens /\ more.vote = r.vote
      /\ more.upi = r.upi /\ more.rules = r.rules
      /\ more.words = [r.words EXCEPT ![side] = @ + 1]
  BY <1>1, SMT DEF MoreFor
<1> HIDE DEF more
<1>3. more.words \in [Rules!Sides -> Nat]
  BY <1>1, <1>2, SMT
<1>4. RuleRow(more)
  BY <1>1, <1>2, <1>3, SMT DEF RuleRow
<1>5. /\ Rules!Match_category(more) = Rules!Match_category(r)
      /\ Rules!MatchScore(more) = Rules!MatchScore(r)
  BY <1>2, SameMatch
<1>6. PropensityOf(more, p) = PropensityOf(r, p)
  BY <1>5, SMT DEF PropensityOf
<1>7. StrongSide(more, p) = StrongSide(r, p) /\ VotedSide(more, p) = VotedSide(r, p)
  BY <1>5, <1>6, SMT DEF StrongSide, VotedSide
<1>8. Strength(more, p) = Strength(r, p)
  BY <1>5, <1>6, <1>7, SMT DEF Strength
<1>9. ASSUME NEW s \in Rules!Sides
      PROVE  HitsFor(more, p, s) = IF s = side THEN HitsFor(r, p, s) + 1 ELSE HitsFor(r, p, s)
  <2>1. Rules!UpiHits(more, s) = Rules!UpiHits(r, s)
    BY <1>2, SMT DEF Rules!UpiHits
  <2>2. Rules!UpiHits(r, s) \in Nat
    BY SMT DEF Rules!UpiHits
  <2>3. Rules!Boost(PropensityOf(r, p)) \in Nat
    <3>1. PropensityOf(r, p) \in 0 .. 100
      BY PropensityTyped, SMT DEF PropensityOf
    <3> QED
      BY <3>1, BoostTyped, SMT
  <2>4. r.words[s] \in Nat /\ more.words[s] = IF s = side THEN r.words[s] + 1 ELSE r.words[s]
    BY <1>1, <1>2, SMT
  <2> QED
    BY <1>2, <1>6, <1>7, <2>1, <2>2, <2>3, <2>4, SMT DEF HitsFor, Rules!Hits
<1> QED
  BY <1>2, <1>4, <1>7, <1>8, <1>9 DEF more

-----------------------------------------------------------------------------
(* The rules: what the runs check of a verdict, for every row.              *)

\* A keyword more never moves the verdict away from its side.
Monotone(r, p) ==
  \A side \in Rules!Sides :
    LET more == Rules!SlmVerdict(MoreFor(r, side), p) IN
      /\ Rules!SlmVerdict(r, p).side = side =>
           more.side = side /\ more.confidence >= Rules!SlmVerdict(r, p).confidence
      /\ Rules!SlmVerdict(r, p).side = "unknown" => more.side # Rules!Other(side)

LEMMA VerdictIsMonotone ==
  ASSUME NEW r, RuleRow(r), NEW p, Propensities(p)
  PROVE  Monotone(r, p)
<1> SUFFICES ASSUME NEW side \in Rules!Sides
             PROVE  LET more == Rules!SlmVerdict(MoreFor(r, side), p) IN
                      /\ Rules!SlmVerdict(r, p).side = side =>
                           more.side = side /\ more.confidence >= Rules!SlmVerdict(r, p).confidence
                      /\ Rules!SlmVerdict(r, p).side = "unknown" => more.side # Rules!Other(side)
  BY Zenon DEF Monotone
<1> DEFINE m == MoreFor(r, side)
<1>1. /\ RuleRow(m) /\ m.vote = r.vote
      /\ StrongSide(m, p) = StrongSide(r, p) /\ Strength(m, p) = Strength(r, p)
      /\ \A s \in Rules!Sides :
           HitsFor(m, p, s) = IF s = side THEN HitsFor(r, p, s) + 1 ELSE HitsFor(r, p, s)
  BY OneMoreKeyword, Zenon
<1> HIDE DEF m
<1>2. CASE StrongSide(r, p) # None
  <2>1. /\ StrongSide(r, p) \in {"business", "personal"}
        /\ Strength(r, p) \in Nat
        /\ Rules!SlmVerdict(r, p) = Rules!Verdict(StrongSide(r, p), Strength(r, p))
    BY <1>2, StrongMatchDecides, SMT
  <2>2. Rules!SlmVerdict(m, p) = Rules!Verdict(StrongSide(r, p), Strength(r, p))
    <3>1. Rules!SlmVerdict(m, p) = Rules!Verdict(StrongSide(m, p), Strength(m, p))
      BY <1>1, <1>2, StrongMatchDecides, SMT
    <3> QED
      BY <1>1, <3>1, SMT
  <2>3. /\ Rules!SlmVerdict(r, p).side \in {"business", "personal"}
        /\ Rules!SlmVerdict(r, p).confidence \in Nat
    BY <2>1, VerdictFields, SMT
  <2>4. Rules!SlmVerdict(m, p) = Rules!SlmVerdict(r, p)
    BY <2>1, <2>2, Zenon
  <2>5. PICK v : v = Rules!SlmVerdict(r, p)
    BY Zenon
  <2>6. v.side # "unknown" /\ v.confidence >= v.confidence
    BY <2>3, <2>5, SMT
  <2> QED
    BY <2>4, <2>5, <2>6, Zenon DEF m
<1>3. CASE StrongSide(r, p) = None
  <2>1. PICK b \in Nat, n \in Nat : b = HitsFor(r, p, "business") /\ n = HitsFor(r, p, "personal")
    BY HitsTyped, SMT DEF Rules!Sides
  <2>2. PICK vote : vote = r.vote /\ Vote(vote)
    BY SMT DEF RuleRow, Vote
  <2>3. vote # None => vote.side \in {"business", "personal"} /\ vote.confidence \in Nat
    BY <2>2, VoteTyped, SMT
  <2>4. /\ b > n => Rules!SlmVerdict(r, p) = Rules!Verdict("business", WonWith("business", b, vote))
        /\ n > b => Rules!SlmVerdict(r, p) = Rules!Verdict("personal", WonWith("personal", n, vote))
        /\ b = n => Rules!SlmVerdict(r, p) =
                      IF vote # None THEN Rules!Verdict(vote.side, vote.confidence)
                      ELSE Rules!Verdict("unknown", Rules!Hundredths(45))
    BY <1>3, <2>1, <2>2, SlmByVotes, SMT
  <2>5. PICK b1 \in Nat, n1 \in Nat :
          /\ b1 = IF side = "business" THEN b + 1 ELSE b
          /\ n1 = IF side = "personal" THEN n + 1 ELSE n
          /\ b1 = HitsFor(m, p, "business") /\ n1 = HitsFor(m, p, "personal")
    <3>1. /\ HitsFor(m, p, "business") = IF side = "business" THEN b + 1 ELSE b
          /\ HitsFor(m, p, "personal") = IF side = "personal" THEN n + 1 ELSE n
      BY <1>1, <2>1, SMT DEF Rules!Sides
    <3> QED
      BY <3>1, SMT
  <2>6. /\ b1 > n1 => Rules!SlmVerdict(m, p) = Rules!Verdict("business", WonWith("business", b1, vote))
        /\ n1 > b1 => Rules!SlmVerdict(m, p) = Rules!Verdict("personal", WonWith("personal", n1, vote))
        /\ b1 = n1 => Rules!SlmVerdict(m, p) =
                      IF vote # None THEN Rules!Verdict(vote.side, vote.confidence)
                      ELSE Rules!Verdict("unknown", Rules!Hundredths(45))
    BY <1>1, <1>3, <2>2, <2>5, SlmByVotes, SMT
  <2>7. side \in {"business", "personal"} /\ Rules!Other(side) # side
        /\ (side = "business" => Rules!Other(side) = "personal")
        /\ (side = "personal" => Rules!Other(side) = "business")
    BY SMT DEF Rules!Sides, Rules!Other
  <2> DEFINE v == Rules!SlmVerdict(r, p)
             more == Rules!SlmVerdict(m, p)
  <2>8. /\ b > n => v.side = "business" /\ v.confidence = WonWith("business", b, vote)
        /\ n > b => v.side = "personal" /\ v.confidence = WonWith("personal", n, vote)
        /\ b = n /\ vote # None => v.side = vote.side /\ v.confidence = vote.confidence
        /\ b = n /\ vote = None => v.side = "unknown"
    BY <2>4, VerdictFields, SMT
  <2>9. /\ b1 > n1 => more.side = "business" /\ more.confidence = WonWith("business", b1, vote)
        /\ n1 > b1 => more.side = "personal" /\ more.confidence = WonWith("personal", n1, vote)
        /\ b1 = n1 /\ vote # None => more.side = vote.side /\ more.confidence = vote.confidence
        /\ b1 = n1 /\ vote = None => more.side = "unknown"
    BY <2>6, VerdictFields, SMT
  <2> HIDE DEF v, more
  <2>10. CASE side = "business"
    <3>1. b1 = b + 1 /\ n1 = n
      BY <2>5, <2>10, SMT
    <3>2. /\ WonWith("business", b, vote) \in Nat /\ WonWith("business", b1, vote) \in Nat
          /\ WonWith("business", b1, vote) >= WonWith("business", b, vote)
          /\ vote # None /\ vote.side = "business" => WonWith("business", b1, vote) >= vote.confidence
      <4>1. WonWith("business", b, vote) \in Nat /\ WonWith("business", b1, vote) \in Nat
        BY <2>2, WonTyped, SMT
      <4>2. WonWith("business", b, vote) <= WonWith("business", b + 1, vote)
        BY <2>2, WonTyped, SMT
      <4>3. vote # None /\ vote.side = "business" => WonWith("business", b1, vote) >= vote.confidence
        BY <2>2, WonTyped, SMT
      <4> QED
        BY <3>1, <4>1, <4>2, <4>3, SMT
    <3>3. v.side = "business" => more.side = "business" /\ more.confidence >= v.confidence
      BY <2>3, <2>8, <2>9, <3>1, <3>2, SMT
    <3>4. v.side = "unknown" => more.side # "personal"
      BY <2>3, <2>8, <2>9, <3>1, SMT
    <3>5. Rules!Other(side) = "personal"
      BY <2>7, <2>10, Zenon
    <3> QED
      BY <2>10, <3>3, <3>4, <3>5, Zenon DEF v, more, m
  <2>11. CASE side = "personal"
    <3>1. n1 = n + 1 /\ b1 = b
      BY <2>5, <2>11, SMT
    <3>2. /\ WonWith("personal", n, vote) \in Nat /\ WonWith("personal", n1, vote) \in Nat
          /\ WonWith("personal", n1, vote) >= WonWith("personal", n, vote)
          /\ vote # None /\ vote.side = "personal" => WonWith("personal", n1, vote) >= vote.confidence
      <4>1. WonWith("personal", n, vote) \in Nat /\ WonWith("personal", n1, vote) \in Nat
        BY <2>2, WonTyped, SMT
      <4>2. WonWith("personal", n, vote) <= WonWith("personal", n + 1, vote)
        BY <2>2, WonTyped, SMT
      <4>3. vote # None /\ vote.side = "personal" => WonWith("personal", n1, vote) >= vote.confidence
        BY <2>2, WonTyped, SMT
      <4> QED
        BY <3>1, <4>1, <4>2, <4>3, SMT
    <3>3. v.side = "personal" => more.side = "personal" /\ more.confidence >= v.confidence
      BY <2>3, <2>8, <2>9, <3>1, <3>2, SMT
    <3>4. v.side = "unknown" => more.side # "business"
      BY <2>3, <2>8, <2>9, <3>1, SMT
    <3>5. Rules!Other(side) = "business"
      BY <2>7, <2>11, Zenon
    <3> QED
      BY <2>11, <3>3, <3>4, <3>5, Zenon DEF v, more, m
  <2> QED
    BY <2>7, <2>10, <2>11, Zenon
<1> QED
  BY <1>2, <1>3, Zenon DEF m


\* The row with the roles of the two sides exchanged.
Mirrored(r) == [r EXCEPT
  !.words = [s \in Rules!Sides |-> r.words[Rules!Other(s)]],
  !.upi = IF @ \in Rules!Sides THEN Rules!Other(@) ELSE @,
  !.vote = IF @ = None THEN None ELSE [@ EXCEPT !.side = Rules!Other(r.vote.side)]]
Reversed(p) == [c \in DOMAIN p |-> 100 - p[c]]

LEMMA OtherSides ==
  /\ Rules!Other("business") = "personal" /\ Rules!Other("personal") = "business"
  /\ \A s \in Rules!Sides : Rules!Other(s) \in Rules!Sides
BY SMT DEF Rules!Other, Rules!Sides

LEMMA ReversedPropensities ==
  ASSUME NEW p, Propensities(p), NEW c
  PROVE  /\ Propensities(Reversed(p))
         /\ Rules!PropensityIn(Reversed(p), c) = 100 - Rules!PropensityIn(p, c)
<1>1. /\ DOMAIN Reversed(p) = DOMAIN p
      /\ \A d \in DOMAIN p : Reversed(p)[d] = 100 - p[d] /\ p[d] \in 0 .. 100
  BY SMT DEF Reversed, Propensities
<1>2. Propensities(Reversed(p))
  BY <1>1, SMT DEF Propensities
<1>3. CASE c \in DOMAIN p
  BY <1>1, <1>2, <1>3, SMT DEF Rules!PropensityIn
<1>4. CASE c \notin DOMAIN p
  BY <1>1, <1>2, <1>4, SMT DEF Rules!PropensityIn
<1> QED
  BY <1>2, <1>3, <1>4

\* The other side, or none.
Opposite(side) == IF side = None THEN None ELSE Rules!Other(side)

LEMMA LeaningIsSymmetric ==
  ASSUME NEW q \in 0 .. 100, NEW n \in 0 .. 100, n = 100 - q
  PROVE  /\ Rules!Leaning(n, 5) = Opposite(Rules!Leaning(q, 5))
         /\ Rules!Leaning(n, 15) = Opposite(Rules!Leaning(q, 15))
         /\ Rules!Distance(n) = Rules!Distance(q)
<1>0. None # "business" /\ None # "personal"
  BY RuleConstants, SMT DEF Rules!Sides
<1>1. Rules!Leaning(q, 5) = IF q >= 55 THEN "business" ELSE IF q <= 45 THEN "personal" ELSE None
  BY LeaningFacts, SMT
<1>2. Rules!Leaning(q, 15) = IF q >= 65 THEN "business" ELSE IF q <= 35 THEN "personal" ELSE None
  BY LeaningFacts, SMT
<1>3. Rules!Distance(q) = IF q >= 50 THEN q - 50 ELSE 50 - q
  BY LeaningFacts, SMT
<1>4. Rules!Leaning(n, 5) = IF n >= 55 THEN "business" ELSE IF n <= 45 THEN "personal" ELSE None
  BY LeaningFacts, SMT
<1>5. Rules!Leaning(n, 15) = IF n >= 65 THEN "business" ELSE IF n <= 35 THEN "personal" ELSE None
  BY LeaningFacts, SMT
<1>6. Rules!Distance(n) = IF n >= 50 THEN n - 50 ELSE 50 - n
  BY LeaningFacts, SMT
<1>7. Rules!Leaning(n, 5) = Opposite(Rules!Leaning(q, 5))
  BY <1>0, <1>1, <1>4, OtherSides, SMT DEF Opposite
<1>8. Rules!Leaning(n, 15) = Opposite(Rules!Leaning(q, 15))
  BY <1>0, <1>2, <1>5, OtherSides, SMT DEF Opposite
<1>9. Rules!Distance(n) = Rules!Distance(q)
  BY <1>3, <1>6, SMT
<1> QED
  BY <1>7, <1>8, <1>9

LEMMA MirroredRow ==
  ASSUME NEW r, RuleRow(r)
  PROVE  /\ RuleRow(Mirrored(r))
         /\ Mirrored(r).matches = r.matches /\ Mirrored(r).tokens = r.tokens
         /\ Mirrored(r).words = [s \in Rules!Sides |-> r.words[Rules!Other(s)]]
         /\ Mirrored(r).upi = IF r.upi \in Rules!Sides THEN Rules!Other(r.upi) ELSE r.upi
         /\ r.vote = None => Mirrored(r).vote = None
         /\ r.vote # None => /\ Mirrored(r).vote # None
                             /\ Mirrored(r).vote.side = Rules!Other(r.vote.side)
                             /\ Mirrored(r).vote.confidence = r.vote.confidence
<1> DEFINE m == Mirrored(r)
<1>1. /\ DOMAIN r = {"tokens", "matches", "words", "rules", "upi", "fast", "vote", "mcc", "digits"}
      /\ r.words \in [Rules!Sides -> Nat]
      /\ r.vote = None \/ r.vote \in [side: Rules!Sides, confidence: 0 .. Rules!One]
  BY SMT DEF RuleRow
<1>2. /\ DOMAIN m = DOMAIN r
      /\ m.matches = r.matches /\ m.tokens = r.tokens /\ m.rules = r.rules
      /\ m.words = [s \in Rules!Sides |-> r.words[Rules!Other(s)]]
      /\ m.upi = IF r.upi \in Rules!Sides THEN Rules!Other(r.upi) ELSE r.upi
      /\ m.vote = IF r.vote = None THEN None ELSE [r.vote EXCEPT !.side = Rules!Other(r.vote.side)]
  BY <1>1, SMT DEF Mirrored
<1> HIDE DEF m
<1>3. m.words \in [Rules!Sides -> Nat]
  BY <1>1, <1>2, OtherSides, SMT
<1>4. ASSUME r.vote # None
      PROVE  /\ m.vote \in [side: Rules!Sides, confidence: 0 .. Rules!One]
             /\ m.vote.side = Rules!Other(r.vote.side)
             /\ m.vote.confidence = r.vote.confidence
  BY <1>1, <1>2, <1>4, OtherSides, SMT
<1>5. ASSUME r.vote # None PROVE m.vote # None
  BY <1>4, <1>5, RuleConstants, Zenon
<1>6. RuleRow(m)
  <2>1. m.vote = None \/ m.vote \in [side: Rules!Sides, confidence: 0 .. Rules!One]
    BY <1>2, <1>4, SMT
  <2> QED
    BY <1>1, <1>2, <1>3, <2>1, SMT DEF RuleRow
<1> QED
  BY <1>2, <1>4, <1>5, <1>6, SMT DEF m


LEMMA MirroredEvidence ==
  ASSUME NEW r, RuleRow(r), r.upi # "p2p", NEW p, Propensities(p)
  PROVE  /\ StrongSide(Mirrored(r), Reversed(p)) = Opposite(StrongSide(r, p))
         /\ Strength(Mirrored(r), Reversed(p)) = Strength(r, p)
         /\ HitsFor(Mirrored(r), Reversed(p), "personal") = HitsFor(r, p, "business")
         /\ HitsFor(Mirrored(r), Reversed(p), "business") = HitsFor(r, p, "personal")
<1> DEFINE m == Mirrored(r)
           rev == Reversed(p)
<1>1. /\ RuleRow(m) /\ m.matches = r.matches /\ m.tokens = r.tokens
      /\ m.words = [s \in Rules!Sides |-> r.words[Rules!Other(s)]]
      /\ m.upi = IF r.upi \in Rules!Sides THEN Rules!Other(r.upi) ELSE r.upi
      /\ r.vote = None => m.vote = None
      /\ r.vote # None => m.vote # None /\ m.vote.side = Rules!Other(r.vote.side)
  BY MirroredRow, SMT
<1>2. /\ Rules!Match_category(m) = Rules!Match_category(r)
      /\ Rules!MatchScore(m) = Rules!MatchScore(r)
  BY <1>1, SameMatch, SMT
<1> HIDE DEF m
<1>3. PropensityOf(r, p) \in 0 .. 100 /\ PropensityOf(m, rev) = 100 - PropensityOf(r, p)
  BY <1>2, PropensityTyped, ReversedPropensities, SMT DEF PropensityOf
<1> HIDE DEF rev
<1>4. PICK q \in 0 .. 100, n \in 0 .. 100 :
        q = PropensityOf(r, p) /\ n = PropensityOf(m, rev) /\ n = 100 - q
  BY <1>3, SMT
<1>5. /\ Rules!Leaning(n, 5) = Opposite(Rules!Leaning(q, 5))
      /\ Rules!Leaning(n, 15) = Opposite(Rules!Leaning(q, 15))
      /\ Rules!Distance(n) = Rules!Distance(q)
  BY <1>4, LeaningIsSymmetric, SMT
<1>6. /\ StrongSide(m, rev) = Opposite(StrongSide(r, p))
      /\ VotedSide(m, rev) = Opposite(VotedSide(r, p))
  BY <1>2, <1>4, <1>5, SMT DEF StrongSide, VotedSide, Opposite
<1>7. Rules!TaxonomyConfidence(Rules!MatchScore(m), n) = Rules!TaxonomyConfidence(Rules!MatchScore(r), q)
  BY <1>2, <1>5, Zenon DEF Rules!TaxonomyConfidence
<1>8. None # "business" /\ None # "personal"
  BY RuleConstants, SMT DEF Rules!Sides
<1>9. StrongSide(r, p) \in {None, "business", "personal"} /\ VotedSide(r, p) \in {None, "business", "personal"}
  <2>1. /\ Rules!Leaning(q, 15) \in {None, "business", "personal"}
        /\ Rules!Leaning(q, 5) \in {None, "business", "personal"}
    BY Zenon DEF Rules!Leaning
  <2> QED
    BY <1>4, <2>1, SMT DEF StrongSide, VotedSide
<1>10. StrongSide(m, rev) = None <=> StrongSide(r, p) = None
  BY <1>6, <1>8, <1>9, OtherSides, SMT DEF Opposite
<1>11. Strength(m, rev) = Strength(r, p)
  BY <1>4, <1>7, <1>10, SMT DEF Strength
<1>12. Rules!Boost(n) = Rules!Boost(q)
  BY <1>5, Zenon DEF Rules!Boost
<1>13. ASSUME NEW s \in Rules!Sides, NEW o \in Rules!Sides, o = Rules!Other(s), s = Rules!Other(o), s # o
       PROVE  HitsFor(m, rev, o) = HitsFor(r, p, s)
  <2>1. m.words[o] = r.words[s]
    BY <1>1, <1>13, SMT
  <2>2. Rules!UpiHits(m, o) = Rules!UpiHits(r, s)
    <3>1. {s, o} = {"business", "personal"}
      BY <1>13, SMT DEF Rules!Sides
    <3>2. CASE r.upi \in Rules!Sides
      BY <1>1, <1>13, <3>1, <3>2, OtherSides, SMT DEF Rules!UpiHits, Rules!Sides
    <3>3. CASE r.upi \notin Rules!Sides
      BY <1>1, <1>13, <3>1, <3>3, SMT DEF Rules!UpiHits, Rules!Sides
    <3> QED
      BY <3>2, <3>3
  <2>3. VotedSide(m, rev) = o <=> VotedSide(r, p) = s
    BY <1>6, <1>8, <1>9, <1>13, OtherSides, SMT DEF Opposite, Rules!Sides
  <2>4. (m.vote # None /\ m.vote.side = o) <=> (r.vote # None /\ r.vote.side = s)
    <3>1. r.vote # None => r.vote.side \in Rules!Sides
      BY SMT DEF RuleRow
    <3> QED
      BY <1>1, <1>13, <3>1, OtherSides, SMT DEF Rules!Sides
  <2> QED
    BY <1>4, <1>12, <2>1, <2>2, <2>3, <2>4, Zenon DEF HitsFor, Rules!Hits
<1>14. /\ HitsFor(m, rev, "personal") = HitsFor(r, p, "business")
       /\ HitsFor(m, rev, "business") = HitsFor(r, p, "personal")
  BY <1>13, OtherSides, SMT DEF Rules!Sides
<1> QED
  BY <1>6, <1>11, <1>14 DEF m, rev


\* The rules have no bias for a side.
LEMMA VerdictIsSymmetric ==
  ASSUME NEW r, RuleRow(r), r.upi # "p2p", NEW p, Propensities(p)
  PROVE  LET v == Rules!SlmVerdict(r, p)
             there == Rules!SlmVerdict(Mirrored(r), Reversed(p))
         IN  /\ there.confidence = v.confidence
             /\ there.side = IF v.side \in Rules!Sides THEN Rules!Other(v.side) ELSE "unknown"
<1> DEFINE m == Mirrored(r)
           rev == Reversed(p)
           v == Rules!SlmVerdict(r, p)
           there == Rules!SlmVerdict(m, rev)
<1>1. /\ RuleRow(m)
      /\ r.vote = None => m.vote = None
      /\ r.vote # None => /\ m.vote # None
                          /\ m.vote.side = Rules!Other(r.vote.side)
                          /\ m.vote.confidence = r.vote.confidence
  BY MirroredRow, Zenon
<1>2. Propensities(rev)
  BY ReversedPropensities, SMT
<1>3. /\ StrongSide(m, rev) = Opposite(StrongSide(r, p))
      /\ Strength(m, rev) = Strength(r, p)
      /\ HitsFor(m, rev, "personal") = HitsFor(r, p, "business")
      /\ HitsFor(m, rev, "business") = HitsFor(r, p, "personal")
  BY MirroredEvidence, SMT
<1> HIDE DEF m, rev
<1>4. None # "business" /\ None # "personal"
  BY RuleConstants, SMT DEF Rules!Sides
<1>5. CASE StrongSide(r, p) # None
  <2>1. /\ StrongSide(r, p) \in {"business", "personal"}
        /\ v = Rules!Verdict(StrongSide(r, p), Strength(r, p))
    BY <1>5, StrongMatchDecides, SMT
  <2>2. StrongSide(m, rev) = Rules!Other(StrongSide(r, p)) /\ StrongSide(m, rev) # None
    BY <1>3, <1>4, <1>5, <2>1, OtherSides, SMT DEF Opposite
  <2>3. there = Rules!Verdict(StrongSide(m, rev), Strength(m, rev))
    BY <1>1, <1>2, <2>2, StrongMatchDecides, SMT
  <2>4. /\ v.side = StrongSide(r, p) /\ v.confidence = Strength(r, p)
        /\ there.side = StrongSide(m, rev) /\ there.confidence = Strength(m, rev)
    BY <2>1, <2>3, VerdictFields, SMT
  <2>5. v.side \in Rules!Sides
    BY <2>1, <2>4, SMT DEF Rules!Sides
  <2> QED
    BY <1>3, <2>2, <2>4, <2>5, Zenon DEF m, rev
<1>6. CASE StrongSide(r, p) = None
  <2>1. PICK b \in Nat, n \in Nat : b = HitsFor(r, p, "business") /\ n = HitsFor(r, p, "personal")
    BY HitsTyped, SMT DEF Rules!Sides
  <2>2. PICK vote : vote = r.vote /\ Vote(vote)
    BY SMT DEF RuleRow, Vote
  <2>3. PICK other : other = m.vote /\ Vote(other)
    BY <1>1, SMT DEF RuleRow, Vote
  <2>4. vote # None => vote.side \in {"business", "personal"}
    BY <2>2, VoteTyped, SMT
  <2>5. /\ b > n => v = Rules!Verdict("business", WonWith("business", b, vote))
        /\ n > b => v = Rules!Verdict("personal", WonWith("personal", n, vote))
        /\ b = n => v = IF vote # None THEN Rules!Verdict(vote.side, vote.confidence)
                        ELSE Rules!Verdict("unknown", Rules!Hundredths(45))
    BY <1>6, <2>1, <2>2, SlmByVotes, SMT
  <2>6. StrongSide(m, rev) = None /\ n = HitsFor(m, rev, "business") /\ b = HitsFor(m, rev, "personal")
    BY <1>3, <1>6, <2>1, SMT DEF Opposite
  <2>7. /\ n > b => there = Rules!Verdict("business", WonWith("business", n, other))
        /\ b > n => there = Rules!Verdict("personal", WonWith("personal", b, other))
        /\ n = b => there = IF other # None THEN Rules!Verdict(other.side, other.confidence)
                            ELSE Rules!Verdict("unknown", Rules!Hundredths(45))
    BY <1>1, <1>2, <2>3, <2>6, SlmByVotes, SMT
  <2>8. /\ vote = None => other = None
        /\ vote # None => /\ other # None /\ other.side = Rules!Other(vote.side)
                          /\ other.confidence = vote.confidence
    BY <1>1, <2>2, <2>3, SMT
  <2>9. /\ WonWith("personal", b, other) = WonWith("business", b, vote)
        /\ WonWith("business", n, other) = WonWith("personal", n, vote)
    BY <2>4, <2>8, OtherSides, SMT DEF WonWith
  <2> HIDE DEF v, there
  <2>10. CASE b > n
    <3>1. v.side = "business" /\ v.confidence = WonWith("business", b, vote)
      BY <2>5, <2>10, VerdictFields, SMT
    <3>2. there.side = "personal" /\ there.confidence = WonWith("personal", b, other)
      BY <2>7, <2>10, VerdictFields, SMT
    <3> QED
      BY <2>9, <3>1, <3>2, OtherSides, SMT DEF v, there, m, rev, Rules!Sides
  <2>11. CASE n > b
    <3>1. v.side = "personal" /\ v.confidence = WonWith("personal", n, vote)
      BY <2>5, <2>11, VerdictFields, SMT
    <3>2. there.side = "business" /\ there.confidence = WonWith("business", n, other)
      BY <2>7, <2>11, VerdictFields, SMT
    <3> QED
      BY <2>9, <3>1, <3>2, OtherSides, SMT DEF v, there, m, rev, Rules!Sides
  <2>12. CASE b = n /\ vote # None
    <3>1. v.side = vote.side /\ v.confidence = vote.confidence
      BY <2>5, <2>12, VerdictFields, SMT
    <3>2. there.side = other.side /\ there.confidence = other.confidence
      BY <2>7, <2>8, <2>12, VerdictFields, SMT
    <3> QED
      BY <2>4, <2>8, <2>12, <3>1, <3>2, SMT DEF v, there, m, rev, Rules!Sides
  <2>13. CASE b = n /\ vote = None
    <3>1. v.side = "unknown" /\ v.confidence = Rules!Hundredths(45)
      BY <2>5, <2>13, VerdictFields, SMT
    <3>2. there.side = "unknown" /\ there.confidence = Rules!Hundredths(45)
      BY <2>7, <2>8, <2>13, VerdictFields, SMT
    <3>3. v.side \notin Rules!Sides
      BY <3>1, SMT DEF Rules!Sides
    <3> QED
      BY <3>1, <3>2, <3>3, Zenon DEF v, there, m, rev
  <2> QED
    BY <2>10, <2>11, <2>12, <2>13, SMT
<1> QED
  BY <1>5, <1>6, Zenon

\* Where the taxonomy has a marked opinion, the rules of the LLM's fallback
\* are of the SLM's.
LEMMA FallbackAgrees ==
  ASSUME NEW r, RuleRow(r), NEW p, Propensities(p), StrongSide(r, p) # None
  PROVE  Rules!RuleVerdict(r, p).side = Rules!SlmVerdict(r, p).side
<1>1. Rules!Match_category(r) # None
  BY DEF StrongSide
<1>2. Rules!MatchScore(r) \in Nat /\ 315 <= Rules!MatchScore(r)
  BY <1>1, MatchFacts, SMT
<1>3. PICK q \in 0 .. 100 : q = PropensityOf(r, p)
  BY PropensityTyped, SMT DEF PropensityOf
<1>4. None # "business" /\ None # "personal"
  BY RuleConstants, SMT DEF Rules!Sides
<1>5. StrongSide(r, p) = Rules!Leaning(q, 15)
  BY <1>1, <1>3, SMT DEF StrongSide
<1>6. Rules!Leaning(q, 15) = IF q >= 65 THEN "business" ELSE IF q <= 35 THEN "personal" ELSE None
  BY LeaningFacts, SMT
<1>7. Rules!Leaning(q, 10) = IF q >= 60 THEN "business" ELSE IF q <= 40 THEN "personal" ELSE None
  BY LeaningFacts, SMT
<1>8. Rules!Leaning(q, 10) = StrongSide(r, p)
  BY <1>5, <1>6, <1>7, SMT
<1>9. ~(Rules!MatchScore(r) < 210)
  BY <1>2, SMT
<1> DEFINE leaning == IF Rules!Match_category(r) = None \/ Rules!MatchScore(r) < 210 THEN None
                      ELSE Rules!Leaning(Rules!PropensityIn(p, Rules!Match_category(r)), 10)
<1>10. leaning = StrongSide(r, p)
  BY <1>1, <1>3, <1>8, <1>9, SMT DEF PropensityOf
<1>11. /\ leaning = "business" => Rules!RuleVerdict(r, p).side = "business"
       /\ leaning = "personal" => Rules!RuleVerdict(r, p).side = "personal"
  BY VerdictFields, SMT DEF Rules!RuleVerdict
<1> HIDE DEF leaning
<1>12. StrongSide(r, p) \in {"business", "personal"} /\ Rules!SlmVerdict(r, p).side = StrongSide(r, p)
  BY StrongMatchDecides, VerdictFields, SMT
<1> QED
  BY <1>10, <1>11, <1>12, SMT


\* Which order the categories come in makes no difference to the match, as
\* long as no two of them have the same score.
LEMMA OrderIsIgnored ==
  ASSUME NEW r, RuleRow(r),
         NEW order \in Seq(Rules!Categories), NEW other \in Seq(Rules!Categories),
         \A i \in DOMAIN order : \E j \in DOMAIN other : other[j] = order[i],
         \A j \in DOMAIN other : \E i \in DOMAIN order : order[i] = other[j],
         \A c, d \in Rules!Categories :
           r.matches[c] > 0 /\ r.matches[d] > 0 /\ ScoreOf(r, c) = ScoreOf(r, d) => c = d
  PROVE  Rules!BestMatch(r, other) = Rules!BestMatch(r, order)
<1> DEFINE Hit(list) == {i \in DOMAIN list : r.matches[list[i]] > 0}
<1>0. /\ \A i \in DOMAIN order : order[i] \in Rules!Categories
      /\ \A j \in DOMAIN other : other[j] \in Rules!Categories
  BY LenProperties
<1>1. /\ Hit(order) = {} => Rules!BestMatch(r, order) = None
      /\ Hit(order) # {} => \E i \in Hit(order) :
           /\ Rules!BestMatch(r, order) = order[i]
           /\ \A k \in Hit(order) : ScoreOf(r, order[i]) >= ScoreOf(r, order[k])
  BY BestMatchIsBest, Zenon
<1>2. /\ Hit(other) = {} => Rules!BestMatch(r, other) = None
      /\ Hit(other) # {} => \E j \in Hit(other) :
           /\ Rules!BestMatch(r, other) = other[j]
           /\ \A k \in Hit(other) : ScoreOf(r, other[j]) >= ScoreOf(r, other[k])
  BY BestMatchIsBest, Zenon
<1>3. /\ \A i \in Hit(order) : \E j \in Hit(other) : other[j] = order[i]
      /\ \A j \in Hit(other) : \E i \in Hit(order) : order[i] = other[j]
  BY Zenon
<1>4. CASE Hit(order) = {}
  BY <1>1, <1>2, <1>3, <1>4, Zenon
<1>5. CASE Hit(order) # {}
  <2>1. Hit(other) # {}
    BY <1>3, <1>5, Zenon
  <2>2. PICK i \in Hit(order) :
          /\ Rules!BestMatch(r, order) = order[i]
          /\ \A k \in Hit(order) : ScoreOf(r, order[i]) >= ScoreOf(r, order[k])
    BY <1>1, <1>5, Zenon
  <2>3. PICK j \in Hit(other) :
          /\ Rules!BestMatch(r, other) = other[j]
          /\ \A k \in Hit(other) : ScoreOf(r, other[j]) >= ScoreOf(r, other[k])
    BY <1>2, <2>1, Zenon
  <2>4. ScoreOf(r, order[i]) >= ScoreOf(r, other[j])
    BY <1>3, <2>2, <2>3, Zenon
  <2>5. ScoreOf(r, other[j]) >= ScoreOf(r, order[i])
    BY <1>3, <2>2, <2>3, Zenon
  <2>6. /\ order[i] \in Rules!Categories /\ other[j] \in Rules!Categories
        /\ r.matches[order[i]] > 0 /\ r.matches[other[j]] > 0
    BY <1>0, Zenon
  <2>7. ScoreOf(r, order[i]) \in Nat /\ ScoreOf(r, other[j]) \in Nat
    BY <2>6, ScoreOfBounds, SMT
  <2>8. ScoreOf(r, order[i]) = ScoreOf(r, other[j])
    BY <2>4, <2>5, <2>7, SMT
  <2>9. order[i] = other[j]
    BY <2>6, <2>8, Zenon
  <2> QED
    BY <2>2, <2>3, <2>9, Zenon
<1> QED
  BY <1>4, <1>5

LEMMA TurnedOrder ==
  ASSUME NEW r, RuleRow(r),
         \A c, d \in Rules!Categories :
           r.matches[c] > 0 /\ r.matches[d] > 0 /\ ScoreOf(r, c) = ScoreOf(r, d) => c = d
  PROVE  Rules!BestMatch(r, [i \in DOMAIN Order |-> Order[Len(Order) + 1 - i]])
           = Rules!Match_category(r)
<1> DEFINE turned == [i \in DOMAIN Order |-> Order[Len(Order) + 1 - i]]
<1>1. Order \in Seq(Rules!Categories)
  BY RuleConstants
<1>2. PICK len \in Nat : len = Len(Order) /\ DOMAIN Order = 1 .. len
  BY <1>1, LenProperties
<1>3. \A i \in 1 .. len : Order[i] \in Rules!Categories
  BY <1>1, <1>2, LenProperties
<1>4. /\ turned = [i \in 1 .. len |-> Order[len + 1 - i]]
      /\ \A i \in 1 .. len : len + 1 - i \in 1 .. len
  BY <1>2, SMT
<1>5. turned \in Seq(Rules!Categories)
  BY <1>3, <1>4, SMT
<1>6. DOMAIN turned = 1 .. len /\ \A i \in 1 .. len : turned[i] = Order[len + 1 - i]
  BY <1>4, SMT
<1> HIDE DEF turned
<1>7. \A i \in DOMAIN Order : \E j \in DOMAIN turned : turned[j] = Order[i]
  <2>1. SUFFICES ASSUME NEW i \in 1 .. len PROVE \E j \in 1 .. len : turned[j] = Order[i]
    BY <1>2, <1>6, Zenon
  <2>2. len + 1 - i \in 1 .. len /\ len + 1 - (len + 1 - i) = i
    BY SMT
  <2> QED
    BY <1>6, <2>2, SMT
<1>8. \A j \in DOMAIN turned : \E i \in DOMAIN Order : Order[i] = turned[j]
  BY <1>2, <1>4, <1>6, Zenon
<1>9. Rules!BestMatch(r, turned) = Rules!BestMatch(r, Order)
  BY <1>1, <1>5, <1>7, <1>8, OrderIsIgnored, Zenon
<1> QED
  BY <1>9 DEF turned, Rules!Match_category

-----------------------------------------------------------------------------
(* The rules: the other verdicts.                                            *)

RuleVerdicts == [side: Rules!Sides \cup {"unknown"}, confidence: 0 .. Rules!One]

LEMMA VerdictWellFormed ==
  ASSUME NEW side \in {"business", "personal", "unknown"}, NEW c, c \in Nat, c <= Rules!One
  PROVE  Rules!Verdict(side, c) \in RuleVerdicts
<1>1. Rules!One \in Nat
  BY SMT DEF Rules!One
<1> QED
  BY <1>1, SMT DEF Rules!Verdict, Rules!Sides, RuleVerdicts

LEMMA HundredthsTyped ==
  ASSUME NEW n \in 0 .. 100
  PROVE  Rules!Hundredths(n) \in Nat /\ Rules!Hundredths(n) <= Rules!One
BY SMT DEF Rules!Hundredths, Rules!One

LEMMA MccTyped == Rules!MccVerdict(row) \in {None} \cup RuleVerdicts
<1>1. /\ Rules!Verdict("business", Rules!Hundredths(92)) \in RuleVerdicts
      /\ Rules!Verdict("personal", Rules!Hundredths(90)) \in RuleVerdicts
      /\ Rules!Verdict("business", Rules!Hundredths(88)) \in RuleVerdicts
      /\ Rules!Verdict("personal", Rules!Hundredths(86)) \in RuleVerdicts
  <2>1. /\ Rules!Hundredths(92) \in Nat /\ Rules!Hundredths(92) <= Rules!One
        /\ Rules!Hundredths(90) \in Nat /\ Rules!Hundredths(90) <= Rules!One
        /\ Rules!Hundredths(88) \in Nat /\ Rules!Hundredths(88) <= Rules!One
        /\ Rules!Hundredths(86) \in Nat /\ Rules!Hundredths(86) <= Rules!One
    BY SMT DEF Rules!Hundredths, Rules!One
  <2> QED
    BY <2>1, VerdictWellFormed, SMT
<1> QED
  BY <1>1, Zenon DEF Rules!MccVerdict

LEMMA FallbackTyped ==
  ASSUME NEW r, RuleRow(r), NEW p, Propensities(p)
  PROVE  Rules!RuleVerdict(r, p) \in RuleVerdicts
<1> DEFINE category == Rules!Match_category(r)
           leaning == IF category = None \/ Rules!MatchScore(r) < 210 THEN None
                      ELSE Rules!Leaning(Rules!PropensityIn(p, category), 10)
           Capped(n) == Rules!Min({Rules!Hundredths(n), Rules!Hundredths(55) + 25 * Rules!MatchScore(r)})
<1>1. None # "business" /\ None # "personal"
  BY RuleConstants, SMT DEF Rules!Sides
<1>2. ASSUME leaning # None
      PROVE  /\ Capped(78) \in Nat /\ Capped(78) <= Rules!One
             /\ Capped(75) \in Nat /\ Capped(75) <= Rules!One
  <2>1. Rules!Match_category(r) # None
    BY <1>2
  <2>2. Rules!MatchScore(r) \in Nat
    BY <2>1, MatchFacts, SMT
  <2>3. PICK sum \in Int, hi \in Int, lo \in Int, most \in Int :
          /\ sum = Rules!Hundredths(55) + 25 * Rules!MatchScore(r)
          /\ hi = Rules!Hundredths(78) /\ lo = Rules!Hundredths(75) /\ most = Rules!One
          /\ sum >= 0 /\ hi >= 0 /\ lo >= 0 /\ hi <= most /\ lo <= most
    BY <2>2, SMT DEF Rules!Hundredths, Rules!One
  <2>4. /\ Rules!Min({hi, sum}) = IF hi <= sum THEN hi ELSE sum
        /\ Rules!Min({lo, sum}) = IF lo <= sum THEN lo ELSE sum
    BY OfTwo, SMT
  <2> QED
    BY <2>3, <2>4, SMT
<1>3. /\ leaning = "business" => Rules!RuleVerdict(r, p) = Rules!Verdict("business", Capped(78))
      /\ leaning = "personal" => Rules!RuleVerdict(r, p) = Rules!Verdict("personal", Capped(75))
  BY SMT DEF Rules!RuleVerdict
<1>4. /\ Rules!Verdict("business", Rules!Hundredths(68)) \in RuleVerdicts
      /\ Rules!Verdict("personal", Rules!Hundredths(65)) \in RuleVerdicts
      /\ Rules!Verdict("unknown", Rules!Hundredths(50)) \in RuleVerdicts
  <2>1. /\ Rules!Hundredths(68) \in Nat /\ Rules!Hundredths(68) <= Rules!One
        /\ Rules!Hundredths(65) \in Nat /\ Rules!Hundredths(65) <= Rules!One
        /\ Rules!Hundredths(50) \in Nat /\ Rules!Hundredths(50) <= Rules!One
    BY SMT DEF Rules!Hundredths, Rules!One
  <2> QED
    BY <2>1, VerdictWellFormed, SMT
<1>5. leaning # "business" /\ leaning # "personal" =>
        Rules!RuleVerdict(r, p) \in {Rules!Verdict("business", Rules!Hundredths(68)),
                                     Rules!Verdict("personal", Rules!Hundredths(65)),
                                     Rules!Verdict("unknown", Rules!Hundredths(50))}
  BY SMT DEF Rules!RuleVerdict
<1> HIDE DEF leaning, Capped
<1>6. CASE leaning = "business"
  BY <1>1, <1>2, <1>3, <1>6, VerdictWellFormed, SMT
<1>7. CASE leaning = "personal"
  BY <1>1, <1>2, <1>3, <1>7, VerdictWellFormed, SMT
<1>8. CASE leaning # "business" /\ leaning # "personal"
  BY <1>4, <1>5, <1>8, Zenon
<1> QED
  BY <1>6, <1>7, <1>8
-----------------------------------------------------------------------------
(* The rules: the invariant.                                                 *)

\* A verdict is the one that the row has by the propensities of now.
RulesInv ==
  /\ row \in RuleRows
  /\ node \in {"base", "overrides", "mcc", "route", "slm", "llm", "done"}
  /\ route \in {None, "slm", "llm"}
  /\ DOMAIN taxonomy = {"codes", "propensity"} /\ Propensities(taxonomy.propensity)
  /\ DOMAIN verdicts = {"mcc", "slm", "rule"}
  /\ node \in {"base", "overrides"} => verdicts.slm = None /\ verdicts.rule = None
  /\ verdicts.mcc \in {None} \cup RuleVerdicts
  /\ verdicts.slm \in {None, Rules!SlmVerdict(row, taxonomy.propensity)}
  /\ verdicts.rule \in {None, Rules!RuleVerdict(row, taxonomy.propensity)}

LEMMA RulesInit == Rules!Init => RulesInv
<1> SUFFICES ASSUME Rules!Init PROVE RulesInv
  OBVIOUS
<1>1. /\ row \in RuleRows /\ node = "base" /\ route = None
      /\ taxonomy = [codes |-> << >>, propensity |-> BasePropensity]
      /\ verdicts = [mcc |-> None, slm |-> None, rule |-> None]
  BY Zenon DEF Rules!Init
<1>2. Propensities(taxonomy.propensity)
  BY <1>1, RuleConstants, SMT DEF Propensities
<1> QED
  BY <1>1, <1>2, SMT DEF RulesInv

LEMMA ClampedBounds == ASSUME NEW score \in Int PROVE Rules!Clamped(score) \in 0 .. 100
<1>1. PICK l \in Int : l = Rules!Min({100, score}) /\ l <= 100
  <2>1. PICK hundred \in Int : hundred = 100
    BY SMT
  <2>2. Rules!Min({hundred, score}) = IF hundred <= score THEN hundred ELSE score
    BY OfTwo, SMT
  <2> QED
    BY <2>1, <2>2, SMT
<1>2. Rules!Max({0, l}) = IF 0 >= l THEN 0 ELSE l
  BY OfTwo, SMT
<1>3. Rules!Clamped(score) = Rules!Max({0, l})
  BY <1>1, SMT DEF Rules!Clamped
<1> QED
  BY <1>1, <1>2, <1>3, SMT

LEMMA LoadBaseKeeps == RulesInv /\ Rules!Load_base => RulesInv'
<1> SUFFICES ASSUME RulesInv, Rules!Load_base PROVE RulesInv'
  OBVIOUS
<1>1. /\ node = "base" /\ node' = "overrides"
      /\ taxonomy' = [taxonomy EXCEPT !.codes = BaseCodes]
      /\ row' = row /\ route' = route /\ verdicts' = verdicts
  BY Zenon DEF Rules!Load_base
<1>2. DOMAIN taxonomy' = DOMAIN taxonomy /\ taxonomy'.propensity = taxonomy.propensity
  BY <1>1, SMT DEF RulesInv
<1> QED
  BY <1>1, <1>2, SMT DEF RulesInv

LEMMA LoadOverridesKeeps == RulesInv /\ Rules!Load_overrides => RulesInv'
<1> SUFFICES ASSUME RulesInv, Rules!Load_overrides PROVE RulesInv'
  OBVIOUS
<1>0. PICK file \in RuleOverrides : \E numbers, codes :
        /\ node = "overrides" /\ node' = "mcc"
        /\ numbers = {c \in DOMAIN file.propensity : file.propensity[c] # None}
        /\ taxonomy' = [codes |-> codes,
                        propensity |-> Rules!Over(taxonomy.propensity,
                                         [c \in numbers |-> Rules!Clamped(file.propensity[c])])]
        /\ row' = row /\ route' = route /\ verdicts' = verdicts
  BY Zenon DEF Rules!Load_overrides
<1>1. PICK numbers, codes :
        /\ node = "overrides" /\ node' = "mcc"
        /\ numbers = {c \in DOMAIN file.propensity : file.propensity[c] # None}
        /\ taxonomy' = [codes |-> codes,
                        propensity |-> Rules!Over(taxonomy.propensity,
                                         [c \in numbers |-> Rules!Clamped(file.propensity[c])])]
        /\ row' = row /\ route' = route /\ verdicts' = verdicts
  BY <1>0, Zenon
<1>2. \A c \in numbers : Rules!Clamped(file.propensity[c]) \in 0 .. 100
  <2>1. ASSUME NEW c \in numbers PROVE file.propensity[c] \in Int
    BY <1>1, <2>1, OverridesTyped, SMT
  <2> QED
    BY <2>1, ClampedBounds, SMT
<1> DEFINE given == [c \in numbers |-> Rules!Clamped(file.propensity[c])]
<1>3. DOMAIN given = numbers /\ \A c \in numbers : given[c] \in 0 .. 100
  BY <1>2, SMT
<1> HIDE DEF given
<1>4. \A c \in DOMAIN taxonomy.propensity : taxonomy.propensity[c] \in 0 .. 100
  BY Zenon DEF RulesInv, Propensities
<1>5. Propensities(Rules!Over(taxonomy.propensity, given))
  BY <1>3, <1>4, SMT DEF Propensities, Rules!Over
<1>6. /\ DOMAIN taxonomy' = {"codes", "propensity"}
      /\ taxonomy'.propensity = Rules!Over(taxonomy.propensity, given)
  BY <1>1, SMT DEF given
<1> QED
  BY <1>1, <1>5, <1>6, SMT DEF RulesInv

LEMMA ClassifyKeeps ==
  RulesInv /\ (Rules!Mcc_classify \/ Rules!Slm_classify \/ Rules!Llm_fallback) => RulesInv'
<1> SUFFICES ASSUME RulesInv, Rules!Mcc_classify \/ Rules!Slm_classify \/ Rules!Llm_fallback
             PROVE  RulesInv'
  OBVIOUS
<1>1. CASE Rules!Mcc_classify
  <2>1. /\ node = "mcc" /\ node' \in {"route", "done"}
        /\ verdicts' = [verdicts EXCEPT !.mcc = Rules!MccVerdict(row)]
        /\ row' = row /\ taxonomy' = taxonomy /\ route' = route
    BY <1>1, SMT DEF Rules!Mcc_classify
  <2> QED
    BY <2>1, MccTyped, SMT DEF RulesInv
<1>2. CASE Rules!Slm_classify
  <2>1. /\ node = "slm" /\ node' \in {"llm", "done"}
        /\ verdicts' = [verdicts EXCEPT !.slm = Rules!SlmVerdict(row, taxonomy.propensity)]
        /\ row' = row /\ taxonomy' = taxonomy /\ route' = route
    BY <1>2, SMT DEF Rules!Slm_classify
  <2> QED
    BY <2>1, SMT DEF RulesInv
<1>3. CASE Rules!Llm_fallback
  <2>1. /\ node = "llm" /\ node' = "done"
        /\ verdicts' = [verdicts EXCEPT !.rule = Rules!RuleVerdict(row, taxonomy.propensity)]
        /\ row' = row /\ taxonomy' = taxonomy /\ route' = route
    BY <1>3, SMT DEF Rules!Llm_fallback
  <2> QED
    BY <2>1, SMT DEF RulesInv
<1> QED
  BY <1>1, <1>2, <1>3

LEMMA RouteKeeps == RulesInv /\ Rules!Route => RulesInv'
<1> SUFFICES ASSUME RulesInv, Rules!Route PROVE RulesInv'
  OBVIOUS
<1>1. /\ Rules!Route_by_upi_signals(row) \in {None, "slm", "llm"}
      /\ Rules!Route_by_taxonomy_signals(row, taxonomy.propensity) \in {None, "slm"}
  BY Zenon DEF Rules!Route_by_upi_signals, Rules!Route_by_taxonomy_signals
<1>2. /\ node = "route" /\ node' \in {"slm", "llm"} /\ route' \in {None, "slm", "llm"}
      /\ row' = row /\ taxonomy' = taxonomy /\ verdicts' = verdicts
  BY <1>1, SMT DEF Rules!Route
<1> QED
  BY <1>2, SMT DEF RulesInv

LEMMA RulesNext == RulesInv /\ [Rules!Next]_(Rules!vars) => RulesInv'
<1> SUFFICES ASSUME RulesInv, [Rules!Next]_(Rules!vars) PROVE RulesInv'
  OBVIOUS
<1>1. CASE UNCHANGED Rules!vars
  BY <1>1, SMT DEF RulesInv, Rules!vars
<1>2. CASE Rules!Next
  BY <1>1, <1>2, LoadBaseKeeps, LoadOverridesKeeps, ClassifyKeeps, RouteKeeps, Zenon
    DEF Rules!Next, Rules!Terminated
<1> QED
  BY <1>1, <1>2

LEMMA RulesInvTypes == RulesInv => Rules!TypeOK
<1> SUFFICES ASSUME RulesInv PROVE Rules!TypeOK
  OBVIOUS
<1>1. RuleRow(row) /\ Propensities(taxonomy.propensity)
  BY RuleRowsTyped, SMT DEF RulesInv
<1>2. /\ Rules!SlmVerdict(row, taxonomy.propensity) \in RuleVerdicts
      /\ Rules!RuleVerdict(row, taxonomy.propensity) \in RuleVerdicts
  BY <1>1, SlmTyped, FallbackTyped, SMT DEF RuleVerdicts
<1>3. /\ verdicts.mcc \in {None} \cup RuleVerdicts
      /\ verdicts.slm \in {None} \cup RuleVerdicts
      /\ verdicts.rule \in {None} \cup RuleVerdicts
      /\ DOMAIN verdicts = {"mcc", "slm", "rule"}
  BY <1>2, SMT DEF RulesInv
<1>4. \A stage \in DOMAIN verdicts : verdicts[stage] \in {None} \cup RuleVerdicts
  BY <1>3, SMT
<1> QED
  BY <1>1, <1>4, Zenon DEF RulesInv, Rules!TypeOK, Propensities, RuleVerdicts

LEMMA RulesInvariant == Rules!Spec => []RulesInv
BY RulesInit, RulesNext, PTL DEF Rules!Spec

\* For every taxonomy, override file and row: propensities and confidences stay
\* within 0 and 1.
THEOREM RulesTypeCorrect == Rules!Spec => []Rules!TypeOK
BY RulesInvariant, RulesInvTypes, PTL

\* For every taxonomy, override file and row: a marked propensity decides, above
\* the threshold of escalation and on both paths alike, the sides weigh the
\* same, a keyword never speaks against its side, and the order of the file
\* makes no difference.
THEOREM EvidenceDecidesAlways == Rules!Spec => []EvidenceDecides
<1>1. RulesInv => EvidenceDecides
  <2> SUFFICES ASSUME RulesInv PROVE Rules!EvidenceDecides
    BY DEF EvidenceDecides
  <2> DEFINE p == taxonomy.propensity
  <2>1. RuleRow(row) /\ Propensities(p)
    BY RuleRowsTyped, SMT DEF RulesInv
  <2>2. /\ verdicts.slm # None => verdicts.slm = Rules!SlmVerdict(row, p)
        /\ verdicts.rule # None => verdicts.rule = Rules!RuleVerdict(row, p)
    BY SMT DEF RulesInv
  <2>3. Rules!Match_category(row) # None =>
          StrongSide(row, p) = Rules!Leaning(Rules!PropensityIn(p, Rules!Match_category(row)), 15)
    BY Zenon DEF StrongSide, PropensityOf
  <2> HIDE DEF p
  <2>4. Rules!StrongPropensityDecides
    <3>1. StrongSide(row, p) # None => /\ Rules!SlmVerdict(row, p).side = StrongSide(row, p)
                                      /\ Rules!SlmVerdict(row, p).confidence >= Rules!Hundredths(72)
      BY <2>1, StrongMatchDecides, VerdictFields, SMT
    <3> QED
      BY <2>2, <2>3, <3>1, Zenon DEF Rules!StrongPropensityDecides, p
  <2>5. Rules!SidesAreSymmetric
    <3>1. row.upi # "p2p" =>
            LET v == Rules!SlmVerdict(row, p)
                there == Rules!SlmVerdict(Mirrored(row), Reversed(p))
            IN  /\ there.confidence = v.confidence
                /\ there.side = IF v.side \in Rules!Sides THEN Rules!Other(v.side) ELSE "unknown"
      BY <2>1, VerdictIsSymmetric, Zenon
    <3> QED
      BY <2>2, <3>1, Zenon DEF Rules!SidesAreSymmetric, Mirrored, Reversed, p
  <2>6. Rules!EvidenceIsMonotone
    <3>1. Monotone(row, p)
      BY <2>1, VerdictIsMonotone, Zenon
    <3> QED
      BY <2>2, <3>1, Zenon DEF Rules!EvidenceIsMonotone, Monotone, MoreFor, p
  <2>7. Rules!PathsAgree
    <3>1. StrongSide(row, p) # None => Rules!RuleVerdict(row, p).side = Rules!SlmVerdict(row, p).side
      BY <2>1, FallbackAgrees, Zenon
    <3> QED
      BY <2>2, <2>3, <3>1, Zenon DEF Rules!PathsAgree, p
  <2>8. Rules!MatchIgnoresOrder
    BY <2>1, TurnedOrder, Zenon DEF Rules!MatchIgnoresOrder, ScoreOf
  <2> QED
    BY <2>4, <2>5, <2>6, <2>7, <2>8, Zenon DEF Rules!EvidenceDecides
<1> QED
  BY <1>1, RulesInit, RulesNext, PTL DEF Rules!Spec
-----------------------------------------------------------------------------
(* The merchant resolver: the gazetteer.                                     *)

Entry == [merchant: Merchants!MerchantIds, names: Seq(Merchants!Names) \ {<< >>}]

LEMMA MerchantConstants ==
  /\ \A s \in Scores : s \in Nat /\ s <= 100
  /\ \A t \in Thresholds : t \in Int
  /\ \A k \in TopKs : k \in Int
  /\ Gazetteer \in Seq(Entry)
  /\ Len(Gazetteer) \in Nat /\ DOMAIN Gazetteer = 1 .. Len(Gazetteer)
<1>1. Gazetteer \in Seq(Entry)
  BY MerchantsAssumption, Zenon DEF Merchants!ConstantsAssumption, Entry
<1>2. Len(Gazetteer) \in Nat /\ DOMAIN Gazetteer = 1 .. Len(Gazetteer)
  BY <1>1, LenProperties, Zenon
<1>3. /\ \A s \in Scores : s \in Nat /\ s <= 100
      /\ \A t \in Thresholds : t \in Int
      /\ \A k \in TopKs : k \in Int
  <2>1. TopKs \subseteq Int /\ Scores \subseteq 0 .. 100 /\ Thresholds \subseteq Int
    BY MerchantsAssumption, Zenon DEF Merchants!ConstantsAssumption
  <2> QED
    BY <2>1, SMT
<1> QED
  BY <1>1, <1>2, <1>3, Zenon

LEMMA LastAndFirstOf ==
  ASSUME NEW n \in Nat, NEW S \in SUBSET (1 .. n), S # {}
  PROVE  /\ Merchants!Max(S) \in S /\ \A k \in S : k <= Merchants!Max(S)
         /\ Merchants!Min(S) \in S /\ \A k \in S : Merchants!Min(S) <= k
<1>1. S \in SUBSET Nat /\ \A k \in S : k <= n
  BY SMT
<1>2. PICK m \in S : \A k \in S : k <= m
  BY <1>1, GreatestOf
<1>3. PICK l \in S : \A k \in S : l <= k
  BY <1>1, LeastOf
<1> DEFINE Q(x) == \A y \in S : x >= y
           R(x) == \A y \in S : x =< y
<1>4. Q(m) /\ R(l)
  BY <1>1, <1>2, <1>3, SMT
<1>5. PICK x \in S : x = Merchants!Max(S) /\ Q(x)
  BY <1>4 DEF Merchants!Max
<1>6. PICK y \in S : y = Merchants!Min(S) /\ R(y)
  BY <1>4 DEF Merchants!Min
<1> QED
  BY <1>1, <1>5, <1>6, SMT

\* The rows in which a name or an id stands.
LEMMA RowsTypedIn ==
  /\ \A id \in Merchants!MerchantIds :
       Merchants!RowsOf(id) \in SUBSET (1 .. Len(Gazetteer)) /\ Merchants!RowsOf(id) # {}
  /\ \A name \in Merchants!Names :
       Merchants!RowsWith(name) \in SUBSET (1 .. Len(Gazetteer)) /\ Merchants!RowsWith(name) # {}
<1>1. ASSUME NEW id \in Merchants!MerchantIds
      PROVE  Merchants!RowsOf(id) \in SUBSET (1 .. Len(Gazetteer)) /\ Merchants!RowsOf(id) # {}
  <2>1. PICK r \in DOMAIN Gazetteer : Gazetteer[r].merchant = id
    BY <1>1, Zenon DEF Merchants!MerchantIds, Merchants!ToSet
  <2> QED
    BY <2>1, MerchantConstants, Zenon DEF Merchants!RowsOf
<1>2. ASSUME NEW name \in Merchants!Names
      PROVE  Merchants!RowsWith(name) \in SUBSET (1 .. Len(Gazetteer)) /\ Merchants!RowsWith(name) # {}
  <2>1. PICK entry \in Merchants!ToSet(Gazetteer) : name \in Merchants!ToSet(entry.names)
    BY <1>2, SMT DEF Merchants!Names
  <2>2. PICK r \in DOMAIN Gazetteer : entry = Gazetteer[r]
    BY <2>1, Zenon DEF Merchants!ToSet
  <2> QED
    BY <2>1, <2>2, MerchantConstants, Zenon DEF Merchants!RowsWith
<1> QED
  BY <1>1, <1>2, Zenon

LEMMA TakenByTyped ==
  ASSUME NEW name \in Merchants!Names PROVE Merchants!TakenBy(name) \in Merchants!MerchantIds
<1>1. Merchants!Max(Merchants!RowsWith(name)) \in DOMAIN Gazetteer
  BY RowsTypedIn, LastAndFirstOf, MerchantConstants, Zenon
<1> QED
  BY <1>1, Zenon DEF Merchants!TakenBy, Merchants!MerchantIds, Merchants!ToSet

\* The names that a merchant has are names, and there are some.
LEMMA NamesOfTyped ==
  ASSUME NEW id \in Merchants!MerchantIds
  PROVE  Merchants!NamesOf(id) \subseteq Merchants!Names /\ Merchants!NamesOf(id) # {}
<1>1. PICK r \in DOMAIN Gazetteer : r = Merchants!Max(Merchants!RowsOf(id))
  BY RowsTypedIn, LastAndFirstOf, MerchantConstants, Zenon
<1>2. Gazetteer[r] \in Entry
  BY MerchantConstants, ElementOfSeq, Zenon
<1>3. PICK list \in Seq(Merchants!Names) : list = Gazetteer[r].names /\ list # << >>
  BY <1>2, SMT DEF Entry
<1>4. 1 \in DOMAIN list
  BY <1>3, EmptySeq, LenProperties, SMT
<1>5. Merchants!NamesOf(id) = Merchants!ToSet(list)
  BY <1>1, <1>3, Zenon DEF Merchants!NamesOf
<1>6. Merchants!ToSet(list) \subseteq Merchants!Names
  <2>1. \A i \in 1 .. Len(list) : list[i] \in Merchants!Names
    BY <1>3, ElementOfSeq, Zenon
  <2>2. DOMAIN list = 1 .. Len(list)
    BY <1>3, LenProperties, Zenon
  <2> QED
    BY <2>1, <2>2, Zenon DEF Merchants!ToSet
<1>7. list[1] \in Merchants!ToSet(list)
  BY <1>4, Zenon DEF Merchants!ToSet
<1> QED
  BY <1>5, <1>6, <1>7, Zenon

\* Where a name stands first.
LEMMA FirstPlace ==
  ASSUME NEW name \in Merchants!Names
  PROVE  /\ Merchants!FirstRow(name) \in Nat /\ Merchants!FirstAt(name) \in Nat
         /\ Gazetteer[Merchants!FirstRow(name)].names[Merchants!FirstAt(name)] = name
<1> DEFINE row_ == Merchants!FirstRow(name)
           names == Gazetteer[row_].names
           at == {i \in DOMAIN names : names[i] = name}
<1>1. Merchants!RowsWith(name) \in SUBSET (1 .. Len(Gazetteer)) /\ Merchants!RowsWith(name) # {}
  BY RowsTypedIn, Zenon
<1>2. row_ \in Merchants!RowsWith(name)
  BY <1>1, LastAndFirstOf, MerchantConstants, Zenon DEF Merchants!FirstRow
<1>3. row_ \in 1 .. Len(Gazetteer) /\ row_ \in Nat
  BY <1>1, <1>2, MerchantConstants, SMT
<1>4. name \in Merchants!ToSet(names)
  BY <1>2, Zenon DEF Merchants!RowsWith
<1>5. names \in Seq(Merchants!Names)
  <2>1. Gazetteer[row_] \in Entry
    BY <1>3, MerchantConstants, ElementOfSeq, Zenon
  <2> HIDE DEF row_
  <2> QED
    BY <2>1, SMT DEF row_, Entry
<1>6. at # {} /\ Merchants!FirstAt(name) = Merchants!Min(at)
  BY <1>4, Zenon DEF Merchants!ToSet, Merchants!FirstAt
<1> HIDE DEF names
<1>7. Len(names) \in Nat /\ at \in SUBSET (1 .. Len(names))
  BY <1>5, LenProperties, Zenon
<1>8. Merchants!Min(at) \in at
  BY <1>6, <1>7, LastAndFirstOf, Zenon
<1> QED
  BY <1>3, <1>6, <1>7, <1>8, SMT DEF names

\* Of some names one comes first.
LEMMA FirstExists ==
  ASSUME NEW names, names \subseteq Merchants!Names, names # {}
  PROVE  \E a \in names : \A b \in names \ {a} : Merchants!Before(a, b)
<1> DEFINE firstRows == {Merchants!FirstRow(b) : b \in names}
<1>1. firstRows \in SUBSET Nat /\ firstRows # {}
  BY FirstPlace, Zenon
<1>2. PICK m \in firstRows : \A k \in firstRows : m <= k
  <2> HIDE DEF firstRows
  <2> QED BY <1>1, LeastOf
<1> DEFINE early == {b \in names : Merchants!FirstRow(b) = m}
           places == {Merchants!FirstAt(b) : b \in early}
<1>3. places \in SUBSET Nat /\ places # {}
  <2>1. early # {}
    BY <1>2, Zenon
  <2>2. \A b \in early : Merchants!FirstAt(b) \in Nat
    BY FirstPlace, Zenon
  <2> HIDE DEF early
  <2> QED
    BY <2>1, <2>2, Zenon
<1>4. PICK l \in places : \A k \in places : l <= k
  <2> HIDE DEF places
  <2> QED BY <1>3, LeastOf
<1>5. PICK a \in names : Merchants!FirstRow(a) = m /\ Merchants!FirstAt(a) = l
  BY <1>4, Zenon
<1>6. ASSUME NEW b \in names \ {a} PROVE Merchants!Before(a, b)
  <2>1. /\ Merchants!FirstRow(b) \in Nat /\ m \in Nat /\ m <= Merchants!FirstRow(b)
        /\ Merchants!FirstAt(b) \in Nat /\ l \in Nat
    BY <1>1, <1>2, <1>3, <1>4, FirstPlace, Zenon
  <2>2. CASE Merchants!FirstRow(b) = m
    <3>1. l <= Merchants!FirstAt(b)
      BY <1>4, <2>2, Zenon
    <3>2. Merchants!FirstAt(b) # l
      BY <1>5, <2>2, FirstPlace, Zenon
    <3> QED
      BY <1>5, <2>1, <2>2, <3>1, <3>2, SMT DEF Merchants!Before
  <2>3. CASE Merchants!FirstRow(b) # m
    BY <1>5, <2>1, <2>3, SMT DEF Merchants!Before
  <2> QED
    BY <2>2, <2>3
<1> QED
  BY <1>5, <1>6, Zenon
-----------------------------------------------------------------------------
(* The merchant resolver: matches.                                           *)

Similarities == [Merchants!Names -> Scores]

OneMatch(id, score, type) == <<Merchants!Match(id, score, type)>>

\* The matches are of one name that stands in the text, and who it is.
OneNamed(matches, words) ==
  \E winner \in Merchants!Named(words), s \in {100, 85}, type \in {"exact", "substring"} :
    /\ matches = OneMatch(Merchants!TakenBy(winner), s, type)
    /\ \A name \in Merchants!Named(words) :
         /\ winner = name \/ Merchants!Before(winner, name) \/ winner.words = words
         /\ name.words = words => winner.words = words /\ s = 100

\* Who wins among the names that are found as such.
LEMMA ExactIsNamed ==
  ASSUME NEW words
  PROVE  /\ Merchants!Named(words) = {} <=> Merchants!ExactMatch(words) = << >>
         /\ Merchants!Named(words) # {} => OneNamed(Merchants!ExactMatch(words), words)
<1> DEFINE same == {name \in Merchants!Names : ~name.marked /\ name.words = words}
           inside == {name \in Merchants!Names : Merchants!InAWord(name, words)}
           First(names) == CHOOSE a \in names : \A b \in names \ {a} : Merchants!Before(a, b)
           named == Merchants!Named(words)
           exact == Merchants!ExactMatch(words)
<1>1. /\ \A name : name \in named <=> name \in same \/ name \in inside
      /\ \A name \in named : name.words = words <=> name \in same
  BY Zenon DEF Merchants!Named, Merchants!InAWord
<1>2. ASSUME NEW names, names \subseteq Merchants!Names, names # {}
      PROVE  First(names) \in names /\ \A b \in names \ {First(names)} : Merchants!Before(First(names), b)
  BY <1>2, FirstExists, Zenon
<1>3. ASSUME NEW m PROVE <<m>> # << >>
  BY SMT
<1>4. CASE same # {}
  <2>1. exact = <<Merchants!Match(Merchants!TakenBy(First(same)), 100, "exact")>>
    BY <1>4, Zenon DEF Merchants!ExactMatch
  <2>2. same \subseteq Merchants!Names
    BY Zenon
  <2> HIDE DEF same, inside, First, exact, named
  <2>3. PICK winner \in same : winner = First(same)
    BY <1>2, <1>4, <2>2, Zenon
  <2>4. winner \in named /\ winner.words = words /\ named # {}
    BY <1>1, <2>3, Zenon
  <2>5. exact # << >>
    BY <1>3, <2>1, Zenon
  <2> QED
    BY <2>1, <2>3, <2>4, <2>5, Zenon DEF named, exact, OneNamed, OneMatch
<1>5. CASE same = {} /\ inside # {}
  <2>1. exact = <<Merchants!Match(Merchants!TakenBy(First(inside)), 85, "substring")>>
    BY <1>5, Zenon DEF Merchants!ExactMatch
  <2>2. inside \subseteq Merchants!Names
    BY Zenon
  <2> HIDE DEF same, inside, First, exact, named
  <2>3. PICK winner \in inside :
          winner = First(inside) /\ \A b \in inside \ {winner} : Merchants!Before(winner, b)
    BY <1>2, <1>5, <2>2, Zenon
  <2>4. winner \in named
    BY <1>1, <2>3, Zenon
  <2>5. \A name \in named : name \in inside /\ name.words # words
    BY <1>1, <1>5, Zenon
  <2>6. exact # << >>
    BY <1>3, <2>1, Zenon
  <2> QED
    BY <2>1, <2>3, <2>4, <2>5, <2>6, Zenon DEF named, exact, OneNamed, OneMatch
<1>6. CASE same = {} /\ inside = {}
  <2>1. exact = << >>
    BY <1>6, Zenon DEF Merchants!ExactMatch
  <2> HIDE DEF same, inside, exact, named
  <2> QED
    BY <1>1, <1>6, <2>1, Zenon DEF named, exact
<1> QED
  BY <1>4, <1>5, <1>6

Fuzzy == Merchants!FuzzyAliasMatch \cup Merchants!TrigramMatch

\* Where a match comes from.
LEMMA FuzzyMatches ==
  ASSUME NEW m
  PROVE  m \in Fuzzy <=>
           \/ \E name \in Merchants!Names :
                ratio[name] >= threshold /\ m = Merchants!Match(Merchants!TakenBy(name), ratio[name], "alias")
           \/ \E id \in Merchants!Candidates : \E name \in Merchants!NamesOf(id) :
                /\ jaccard[name] >= threshold
                /\ \A other \in Merchants!NamesOf(id) : jaccard[other] <= jaccard[name]
                /\ m = Merchants!Match(id, jaccard[name], "trigram")
<1>1. m \in Merchants!FuzzyAliasMatch <=>
        \E name \in Merchants!Names :
          ratio[name] >= threshold /\ m = Merchants!Match(Merchants!TakenBy(name), ratio[name], "alias")
  BY Zenon DEF Merchants!FuzzyAliasMatch
<1>2. m \in Merchants!TrigramMatch <=>
        \E id \in Merchants!Candidates : \E name \in Merchants!NamesOf(id) :
          /\ jaccard[name] >= threshold
          /\ \A other \in Merchants!NamesOf(id) : jaccard[other] <= jaccard[name]
          /\ m = Merchants!Match(id, jaccard[name], "trigram")
  BY SMT DEF Merchants!TrigramMatch
<1> QED
  BY <1>1, <1>2, Zenon DEF Fuzzy

\* The scores of a merchant.
Own(id) ==
  {ratio[name] : name \in {name \in Merchants!Names : Merchants!TakenBy(name) = id}}
    \cup {jaccard[name] : name \in Merchants!NamesOf(id)}

LEMMA OwnScores ==
  ASSUME ratio \in Similarities, jaccard \in Similarities, NEW id \in Merchants!MerchantIds
  PROVE  \A s \in Own(id) : s \in Scores /\ s \in Nat /\ s <= 100
<1>1. ASSUME NEW s \in Own(id) PROVE s \in Scores
  BY NamesOfTyped, SMT DEF Own, Similarities
<1> QED
  BY <1>1, MerchantConstants, Zenon

LEMMA BestOwnScore ==
  ASSUME ratio \in Similarities, jaccard \in Similarities,
         NEW id \in Merchants!MerchantIds
  PROVE  /\ Merchants!BestScore(id) \in Own(id)
         /\ \A s \in Own(id) : s <= Merchants!BestScore(id)
<1>1. Own(id) # {}
  BY NamesOfTyped, Zenon DEF Own
<1>2. Own(id) \in SUBSET Nat /\ \A s \in Own(id) : s <= 100
  BY OwnScores, Zenon
<1>3. \E s \in Own(id) : \A t \in Own(id) : t <= s
  <2>1. PICK n \in Nat : n = 100
    BY SMT
  <2> QED
    BY <1>1, <1>2, <2>1, GreatestOf, Zenon
<1>4. Merchants!BestScore(id) = CHOOSE s \in Own(id) : \A t \in Own(id) : t <= s
  BY Zenon DEF Own, Merchants!BestScore
<1> QED
  BY <1>3, <1>4, Zenon

LEMMA FuzzyTyped ==
  ASSUME ratio \in Similarities, jaccard \in Similarities, threshold \in Thresholds, NEW m \in Fuzzy
  PROVE  /\ m = Merchants!Match(m.merchant, m.score, m.type)
         /\ m.merchant \in Merchants!MerchantIds /\ m.score \in Own(m.merchant)
         /\ m.score \in Nat /\ threshold <= m.score /\ m.score <= 100
         /\ m.type = "alias" \/ m.type = "trigram"
<1>1. \E id, s, type : m = Merchants!Match(id, s, type) /\ type \in {"alias", "trigram"}
                      /\ id \in Merchants!MerchantIds /\ s \in Own(id) /\ s >= threshold
  <2>1. CASE \E name \in Merchants!Names :
               ratio[name] >= threshold /\ m = Merchants!Match(Merchants!TakenBy(name), ratio[name], "alias")
    BY <2>1, TakenByTyped, Zenon DEF Own
  <2>2. CASE \E id \in Merchants!Candidates : \E name \in Merchants!NamesOf(id) :
               jaccard[name] >= threshold /\ m = Merchants!Match(id, jaccard[name], "trigram")
    BY <2>2, Zenon DEF Own, Merchants!Candidates
  <2> QED
    BY <2>1, <2>2, FuzzyMatches, Zenon
<1>2. PICK id, s, type : m = Merchants!Match(id, s, type) /\ type \in {"alias", "trigram"}
                        /\ id \in Merchants!MerchantIds /\ s \in Own(id) /\ s >= threshold
  BY <1>1, Zenon
<1>3. m.merchant = id /\ m.score = s /\ m.type = type
  BY <1>2, SMT DEF Merchants!Match
<1>4. s \in Nat /\ s <= 100
  BY <1>2, OwnScores, Zenon
<1>5. threshold \in Int
  BY MerchantConstants, Zenon
<1> QED
  BY <1>2, <1>3, <1>4, <1>5, SMT

BestFuzzy == Merchants!BestPerMerchant(Fuzzy)

\* A merchant with a name close enough has its best match.
LEMMA BestMatchExists ==
  ASSUME ratio \in Similarities, jaccard \in Similarities, threshold \in Thresholds,
         NEW id \in Merchants!MerchantIds,
         Merchants!BestScore(id) >= threshold, Merchants!BestScore(id) # 0
  PROVE  \E m \in BestFuzzy : m.merchant = id /\ m.score = Merchants!BestScore(id)
<1> DEFINE best == Merchants!BestScore(id)
<1>1. /\ best \in Own(id) /\ \A s \in Own(id) : s <= best
      /\ best \in Nat /\ \A s \in Own(id) : s \in Nat
  BY BestOwnScore, OwnScores, Zenon
<1>2. best >= threshold /\ best > 0
  <2>1. PICK b \in Nat : b = best
    BY <1>1, Zenon
  <2>2. b # 0
    BY <2>1
  <2>3. b > 0
    BY <2>2, SMT
  <2> QED
    BY <2>1, <2>3, Zenon
<1>3. ASSUME NEW n \in Fuzzy, n.merchant = id PROVE n.score \in Nat /\ n.score <= best
  BY <1>1, <1>3, FuzzyTyped, Zenon
<1> HIDE DEF best
<1>4. CASE \E name \in Merchants!Names : Merchants!TakenBy(name) = id /\ ratio[name] = best
  <2> DEFINE m == Merchants!Match(id, best, "alias")
  <2>1. m \in Fuzzy
    BY <1>2, <1>4, FuzzyMatches, Zenon
  <2>2. m.merchant = id /\ m.score = best /\ m.type = "alias"
    BY SMT DEF Merchants!Match
  <2> HIDE DEF m
  <2>3. \A n \in Fuzzy : n.merchant = m.merchant => n.score < m.score \/ n.score = m.score
    BY <1>1, <1>3, <2>2, SMT
  <2>4. m \in BestFuzzy
    BY <2>1, <2>2, <2>3, Zenon DEF BestFuzzy, Merchants!BestPerMerchant
  <2> QED
    BY <2>2, <2>4, Zenon DEF best
<1>5. CASE ~ \E name \in Merchants!Names : Merchants!TakenBy(name) = id /\ ratio[name] = best
  <2> DEFINE m == Merchants!Match(id, best, "trigram")
  <2>1. PICK name \in Merchants!NamesOf(id) : jaccard[name] = best
    BY <1>1, <1>5, Zenon DEF Own
  <2>2. \A other \in Merchants!NamesOf(id) : jaccard[other] <= jaccard[name]
    BY <1>1, <2>1, Zenon DEF Own
  <2>3. m \in Fuzzy
    <3>1. PICK r : r = Merchants!Max(Merchants!RowsOf(id))
      OBVIOUS
    <3>2. r \in Merchants!RowsOf(id) /\ name \in Merchants!ToSet(Gazetteer[r].names)
      BY <2>1, <3>1, RowsTypedIn, LastAndFirstOf, MerchantConstants, Zenon DEF Merchants!NamesOf
    <3>3. id \in Merchants!Candidates
      BY <1>2, <2>1, <3>2, Zenon DEF Merchants!Candidates
    <3> QED
      BY <1>2, <2>1, <2>2, <3>3, FuzzyMatches, Zenon
  <2>4. m.merchant = id /\ m.score = best /\ m.type = "trigram"
    BY SMT DEF Merchants!Match
  <2> HIDE DEF m
  <2>5. ASSUME NEW n \in Fuzzy, n.merchant = id, n.score = best PROVE n.type = "trigram"
    <3>1. ASSUME NEW name2 \in Merchants!Names,
                 n = Merchants!Match(Merchants!TakenBy(name2), ratio[name2], "alias")
          PROVE  FALSE
      <4>1. n.merchant = Merchants!TakenBy(name2) /\ n.score = ratio[name2]
        BY <3>1, SMT DEF Merchants!Match
      <4> QED
        BY <1>5, <2>5, <4>1, Zenon
    <3>2. PICK other, s : n = Merchants!Match(other, s, "trigram")
      BY <3>1, FuzzyMatches, Zenon
    <3> QED
      BY <3>2, SMT DEF Merchants!Match
  <2>6. ASSUME NEW n \in Fuzzy, n.merchant = m.merchant
        PROVE  n.score < m.score \/ (n.score = m.score /\ n.type = m.type)
    <3>1. n.score \in Nat /\ n.score <= best /\ best \in Nat
      BY <1>1, <1>3, <2>4, <2>6, Zenon
    <3>2. n.score < best \/ n.score = best
      BY <3>1, SMT
    <3> QED
      BY <2>4, <2>5, <2>6, <3>2, Zenon
  <2>7. m \in BestFuzzy
    BY <2>3, <2>6, Zenon DEF BestFuzzy, Merchants!BestPerMerchant
  <2> QED
    BY <2>4, <2>7, Zenon DEF best
<1> QED
  BY <1>4, <1>5
-----------------------------------------------------------------------------
(* The merchant resolver: the words of a text.                               *)

Part == [mark: {" ", "*", " *"}, word: Words]
Done == [words: Seq(Words), open: BOOLEAN]

LEMMA TextTyped ==
  ASSUME NEW t \in Texts
  PROVE  t \in Seq(Part) /\ t # << >> /\ Len(t) \in Nat /\ Len(t) >= 1
<1>1. t \in Seq(Part) /\ t # << >>
  BY MerchantsAssumption, Zenon DEF Merchants!ConstantsAssumption, Part
<1>2. Len(t) \in Nat \ {0}
  BY <1>1, EmptySeq, Zenon
<1>3. Len(t) \in Nat /\ Len(t) >= 1
  BY <1>2, SMT
<1> QED
  BY <1>1, <1>3, Zenon

LEMMA CleanPartTyped ==
  ASSUME NEW done \in Done, NEW part \in Part
  PROVE  Merchants!CleanPart(done, part) \in Done
<1> DEFINE rest == PayRest[part.word]
           meets == part.mark = "*" /\ done.open /\ done.words # << >>
<1>1. PICK list \in Seq(Words), open \in BOOLEAN : list = done.words /\ open = done.open
  BY Zenon DEF Done
<1>2. part.word \in Words
  BY Zenon DEF Part
<1>3. ASSUME NEW w \in Words PROVE Append(list, w) \in Seq(Words)
  BY AppendProperties
<1>4. ASSUME NEW l \in Seq(Words), NEW o \in BOOLEAN PROVE [words |-> l, open |-> o] \in Done
  BY Zenon DEF Done
<1>5. CASE part.mark = " " \/ part.word \notin DOMAIN PayRest
  <2>1. Merchants!CleanPart(done, part) = [words |-> Append(list, part.word), open |-> TRUE]
    BY <1>1, <1>5, Zenon DEF Merchants!CleanPart
  <2> QED
    BY <1>2, <1>3, <1>4, <2>1, Zenon
<1>6. CASE ~(part.mark = " " \/ part.word \notin DOMAIN PayRest) /\ rest = ""
  <2>1. Merchants!CleanPart(done, part) = [words |-> list, open |-> meets]
    BY <1>1, <1>6, Zenon DEF Merchants!CleanPart
  <2>2. meets \in BOOLEAN
    BY <1>1, Zenon
  <2> HIDE DEF meets
  <2> QED
    BY <1>4, <2>1, <2>2, Zenon
<1>7. CASE ~(part.mark = " " \/ part.word \notin DOMAIN PayRest) /\ rest # ""
  <2>1. rest \in Words
    BY <1>7, MerchantsAssumption, Zenon DEF Merchants!ConstantsAssumption
  <2>2. CASE ~meets
    <3>1. Merchants!CleanPart(done, part) = [words |-> Append(list, rest), open |-> TRUE]
      BY <1>1, <1>7, <2>2, Zenon DEF Merchants!CleanPart
    <3> QED
      BY <1>3, <1>4, <2>1, <3>1, Zenon
  <2>3. CASE meets
    <3>1. Merchants!CleanPart(done, part) =
            [words |-> Append(Merchants!Front(list), Glue[<<Merchants!Last(list), rest>>]), open |-> TRUE]
      BY <1>1, <1>7, <2>3, Zenon DEF Merchants!CleanPart
    <3>2. list # << >>
      BY <1>1, <2>3, Zenon
    <3> HIDE DEF rest
    <3>3. Len(list) \in Nat /\ Len(list) >= 1 /\ list \in [1 .. Len(list) -> Words]
      BY <3>2, EmptySeq, LenProperties, SMT
    <3>4. Merchants!Last(list) \in Words
      BY <3>3, SMT DEF Merchants!Last
    <3>5. Glue[<<Merchants!Last(list), rest>>] \in Words
      <4>1. <<Merchants!Last(list), rest>> \in Words \X Words
        BY <2>1, <3>4
      <4>2. Glue \in [Words \X Words -> Words]
        BY MerchantsAssumption, Zenon DEF Merchants!ConstantsAssumption
      <4> QED
        BY <4>1, <4>2, Zenon
    <3>6. \A i \in 1 .. Len(list) - 1 : list[i] \in Words
      BY <3>3, SMT
    <3>7. Len(list) - 1 \in Int
      BY <3>3, SMT
    <3>8. Merchants!Front(list) \in Seq(Words)
      BY <3>6, <3>7, SubSeqProperties, SMT DEF Merchants!Front
    <3>9. Append(Merchants!Front(list), Glue[<<Merchants!Last(list), rest>>]) \in Seq(Words)
      BY <3>5, <3>8, AppendProperties, Zenon
    <3> QED
      BY <1>4, <3>1, <3>9, Zenon
  <2> QED
    BY <2>2, <2>3, Zenon
<1> QED
  BY <1>5, <1>6, <1>7, Zenon

\* Before the first part.
Began == [words |-> << >>, open |-> FALSE]

\* The words after each part of the text.
LEMMA CleanIs ==
  ASSUME NEW parts \in Seq(Part)
  PROVE  \E f : /\ Merchants!Clean(parts) = f[Len(parts)].words /\ f[0] = Began
               /\ \A n \in 1 .. Len(parts) : f[n] = Merchants!CleanPart(f[n - 1], parts[n])
<1> DEFINE T == Done
           N == Len(parts)
           step == [n \in 1 .. N |-> [done \in T |-> Merchants!CleanPart(done, parts[n])]]
           Def(f) == f = [n \in 0 .. N |-> IF n = 0 THEN Began ELSE Merchants!CleanPart(f[n - 1], parts[n])]
<1>1. N \in Nat /\ \A n \in 1 .. N : parts[n] \in Part
  BY LenProperties, ElementOfSeq, Zenon
<1>2. step \in [1 .. N -> [T -> T]]
  BY <1>1, CleanPartTyped, Zenon
<1>3. Began \in T
  BY EmptySeq, Zenon DEF Began, Done
<1>4. PICK f : Solves(f, T, N, Began, step)
  <2> HIDE DEF step, T, N
  <2> QED
    BY <1>1, <1>2, <1>3, RecursionExists, Zenon
<1> USE DEF Solves
<1> DEFINE whole == [n \in 0 .. N |-> IF n = 0 THEN Began ELSE Merchants!CleanPart(f[n - 1], parts[n])]
<1>5. ASSUME NEW n \in 0 .. N PROVE f[n] = whole[n]
  <2>1. CASE n = 0
    BY <1>4, <2>1, SMT
  <2>2. CASE n # 0
    <3>1. n \in 1 .. N /\ n - 1 \in 0 .. N
      BY <1>1, <2>2, SMT
    <3>2. f[n - 1] \in T
      BY <1>4, <3>1, Zenon
    <3>3. step[n][f[n - 1]] = Merchants!CleanPart(f[n - 1], parts[n])
      BY <3>1, <3>2, Zenon
    <3>4. f[n] = step[n][f[n - 1]]
      BY <1>4, <3>1, Zenon
    <3> QED
      BY <2>2, <3>3, <3>4, Zenon
  <2> QED
    BY <2>1, <2>2
<1>6. DOMAIN f = 0 .. N /\ f = [n \in 0 .. N |-> f[n]]
  BY <1>4, Zenon
<1>7. Def(f)
  BY <1>5, <1>6, Zenon
<1>8. PICK g : Def(g) /\ Merchants!Clean(parts) = g[N].words
  BY <1>7, Zenon DEF Merchants!Clean, Began
<1>9. g[0] = Began /\ \A n \in 1 .. N : g[n] = Merchants!CleanPart(g[n - 1], parts[n])
  BY <1>1, <1>8, SMT
<1> QED
  BY <1>8, <1>9, Zenon

EndsInPay(t) == Merchants!Last(t).mark # " " /\ Merchants!Last(t).word = "PAY"

\* A last "*PAY" adds no word.
LEMMA PayAddsNothing ==
  ASSUME NEW t \in Texts, EndsInPay(t)
  PROVE  Merchants!Clean(Merchants!Front(t)) = Merchants!Clean(t)
<1> DEFINE N == Len(t)
           front == Merchants!Front(t)
<1>1. t \in Seq(Part) /\ N \in Nat /\ N >= 1
  BY TextTyped, Zenon
<1>2. front \in Seq(Part) /\ Len(front) = N - 1 /\ \A i \in 1 .. N - 1 : front[i] = t[i]
  <2>1. \A i \in 1 .. N - 1 : t[i] \in Part
    BY <1>1, ElementOfSeq, SMT
  <2>2. PICK one \in Int, last \in Int : one = 1 /\ last = N - 1
    BY <1>1, SMT
  <2>3. /\ SubSeq(t, one, last) \in Seq(Part)
        /\ Len(SubSeq(t, one, last)) = IF one <= last THEN last - one + 1 ELSE 0
        /\ \A i \in 1 .. last - one + 1 : SubSeq(t, one, last)[i] = t[one + i - 1]
    BY <2>1, <2>2, SubSeqProperties
  <2>4. front = SubSeq(t, one, last) /\ Len(front) = N - 1
    <3>1. front = SubSeq(t, one, last)
      BY <2>2, Zenon DEF Merchants!Front
    <3>2. (IF one <= last THEN last - one + 1 ELSE 0) = N - 1
      BY <1>1, <2>2, SMT
    <3> QED
      BY <2>3, <3>1, <3>2, Zenon
  <2>5. ASSUME NEW i \in 1 .. N - 1 PROVE front[i] = t[i]
    <3>1. i \in 1 .. last - one + 1 /\ one + i - 1 = i
      BY <1>1, <2>2, SMT
    <3> QED
      BY <2>3, <2>4, <3>1, Zenon
  <2> QED
    BY <2>3, <2>4, <2>5, Zenon
<1> HIDE DEF front, N
<1>3. PICK f : /\ Merchants!Clean(t) = f[N].words /\ f[0] = Began
               /\ \A n \in 1 .. N : f[n] = Merchants!CleanPart(f[n - 1], t[n])
  BY <1>1, CleanIs, Zenon DEF N
<1>4. PICK g : /\ Merchants!Clean(front) = g[N - 1].words /\ g[0] = Began
               /\ \A n \in 1 .. N - 1 : g[n] = Merchants!CleanPart(g[n - 1], front[n])
  <2>1. PICK g : /\ Merchants!Clean(front) = g[Len(front)].words /\ g[0] = Began
                 /\ \A n \in 1 .. Len(front) : g[n] = Merchants!CleanPart(g[n - 1], front[n])
    <3>1. front \in Seq(Part)
      BY <1>2, Zenon
    <3> QED
      BY <3>1, CleanIs, Zenon
  <2>2. Len(front) = N - 1
    BY <1>2, Zenon
  <2> QED
    BY <2>1, <2>2, Zenon
<1> DEFINE bad == {n \in 0 .. N - 1 : f[n] # g[n]}
<1>5. ASSUME bad # {} PROVE FALSE
  <2>1. bad \in SUBSET Nat
    BY <1>1, SMT
  <2>2. PICK m \in bad : \A k \in bad : m <= k
    <3> HIDE DEF bad
    <3> QED BY <1>5, <2>1, LeastOf
  <2>3. m # 0
    BY <1>3, <1>4, <2>2, Zenon
  <2>4. m \in 1 .. N /\ m \in 1 .. N - 1 /\ m - 1 \in 0 .. N - 1 /\ ~(m <= m - 1)
    BY <1>1, <2>2, <2>3, SMT
  <2>5. f[m - 1] = g[m - 1]
    BY <2>2, <2>4, Zenon
  <2>6. f[m] = Merchants!CleanPart(f[m - 1], t[m]) /\ g[m] = Merchants!CleanPart(g[m - 1], front[m])
    BY <1>3, <1>4, <2>4, Zenon
  <2> QED
    BY <1>2, <2>2, <2>4, <2>5, <2>6, Zenon
<1>6. f[N - 1] = g[N - 1]
  <2>1. N - 1 \in 0 .. N - 1
    BY <1>1, SMT
  <2> QED
    BY <1>5, <2>1, Zenon
<1>7. f[N].words = f[N - 1].words
  <2>1. ~(t[N].mark = " ") /\ t[N].word = "PAY"
    BY Zenon DEF EndsInPay, Merchants!Last, N
  <2>2. "PAY" \in DOMAIN PayRest /\ PayRest["PAY"] = ""
    BY MerchantsAssumption, Zenon DEF Merchants!ConstantsAssumption
  <2>3. t[N].word \in DOMAIN PayRest /\ PayRest[t[N].word] = ""
    BY <2>1, <2>2, Zenon
  <2>4. \E open : Merchants!CleanPart(f[N - 1], t[N]) = [words |-> f[N - 1].words, open |-> open]
    BY <2>1, <2>3, Zenon DEF Merchants!CleanPart
  <2>5. N \in 1 .. N
    BY <1>1, SMT
  <2>6. f[N] = Merchants!CleanPart(f[N - 1], t[N])
    BY <1>3, <2>5, Zenon
  <2> QED
    BY <2>4, <2>6
<1> QED
  BY <1>3, <1>4, <1>6, <1>7, Zenon DEF front
-----------------------------------------------------------------------------
(* The merchant resolver: the invariant.                                     *)

Answered ==
  LET exact == Merchants!ExactMatch(Merchants!Clean(text)) IN
    \/ exact # << >> /\ answer = exact
    \/ exact = << >> /\ \E all \in Merchants!Rankings(BestFuzzy) : answer = Merchants!FirstOf(all)

\* The answer is the one that the query has.
MerchantsInv ==
  /\ text \in Texts /\ threshold \in Thresholds /\ top_k \in TopKs
  /\ ratio \in Similarities /\ jaccard \in Similarities
  /\ answered \in BOOLEAN
  /\ answered => Answered

LEMMA MerchantsStart == Merchants!Init => MerchantsInv
BY Zenon DEF Merchants!Init, MerchantsInv, Similarities

LEMMA SameMatches ==
  ASSUME UNCHANGED <<text, threshold, top_k, ratio, jaccard>> PROVE BestFuzzy' = BestFuzzy
<1>1. Merchants!FuzzyAliasMatch' = Merchants!FuzzyAliasMatch
  BY Zenon DEF Merchants!FuzzyAliasMatch
<1>2. Merchants!TrigramMatch' = Merchants!TrigramMatch
  BY SMT DEF Merchants!TrigramMatch, Merchants!Candidates
<1>3. Fuzzy' = Fuzzy
  BY <1>1, <1>2, Zenon DEF Fuzzy
<1> QED
  BY <1>3, Zenon DEF BestFuzzy, Merchants!BestPerMerchant

LEMMA MerchantsSteps == MerchantsInv /\ [Merchants!Next]_(Merchants!vars) => MerchantsInv'
<1> SUFFICES ASSUME MerchantsInv, [Merchants!Next]_(Merchants!vars) PROVE MerchantsInv'
  OBVIOUS
<1>1. CASE UNCHANGED Merchants!vars
  <2>1. BestFuzzy' = BestFuzzy
    BY <1>1, SameMatches, Zenon DEF Merchants!vars
  <2>2. Answered' = Answered
    BY <1>1, <2>1, Zenon DEF Answered, Merchants!FirstOf, Merchants!vars
  <2> QED
    BY <1>1, <2>2, Zenon DEF MerchantsInv, Merchants!vars
<1>2. CASE Merchants!Resolve
  <2>1. /\ answered' = TRUE /\ text' = text /\ threshold' = threshold /\ top_k' = top_k
        /\ ratio' = ratio /\ jaccard' = jaccard
    BY <1>2, Zenon DEF Merchants!Resolve
  <2>2. \/ /\ Merchants!ExactMatch(Merchants!Clean(text)) # << >>
           /\ answer' = Merchants!ExactMatch(Merchants!Clean(text))
        \/ /\ Merchants!ExactMatch(Merchants!Clean(text)) = << >>
           /\ \E all \in Merchants!Rankings(BestFuzzy) : answer' = Merchants!FirstOf(all)
    BY <1>2, Zenon DEF Merchants!Resolve, BestFuzzy, Fuzzy
  <2>3. BestFuzzy' = BestFuzzy
    BY <2>1, SameMatches, Zenon
  <2>4. Answered'
    BY <2>1, <2>2, <2>3, Zenon DEF Answered, Merchants!FirstOf
  <2> QED
    BY <2>1, <2>4, Zenon DEF MerchantsInv
<1> QED
  BY <1>1, <1>2, Zenon DEF Merchants!Next, Merchants!Terminated, Merchants!vars

LEMMA MerchantsInvariant == Merchants!Spec => []MerchantsInv
BY MerchantsStart, MerchantsSteps, PTL DEF Merchants!Spec

\* What is in the first places of a ranking.
LEMMA RankedAnswer ==
  ASSUME top_k \in Int, NEW all \in Merchants!Rankings(BestFuzzy),
         NEW best, best = Merchants!FirstOf(all)
  PROVE  /\ Len(best) \in Nat /\ (top_k >= 0 => Len(best) <= top_k)
         /\ \A i \in DOMAIN best : best[i] \in BestFuzzy
         /\ \A i, j \in DOMAIN best : i < j => best[i] # best[j] /\ best[i].score >= best[j].score
         /\ \A m \in BestFuzzy :
              \/ \E i \in DOMAIN best : best[i] = m
              \/ Len(best) >= top_k /\ \A i \in DOMAIN best : best[i].score >= m.score
<1> DEFINE N == Len(all)
           n == IF top_k < 0 THEN N + top_k ELSE Merchants!Min({top_k, N})
<1>1. /\ all \in Merchants!SeqOf(BestFuzzy, Len(Gazetteer))
      /\ \A m \in BestFuzzy : \E j \in DOMAIN all : all[j] = m
      /\ \A i, j \in DOMAIN all : i < j => all[i] # all[j] /\ all[i].score >= all[j].score
  BY Zenon DEF Merchants!Rankings, Merchants!ToSet
<1>2. all \in Seq(BestFuzzy)
  <2>1. PICK m \in 0 .. Len(Gazetteer) : all \in [1 .. m -> BestFuzzy]
    BY <1>1, SMT DEF Merchants!SeqOf
  <2>2. m \in Nat
    BY <2>1, MerchantConstants, SMT
  <2> QED
    BY <2>1, <2>2, SeqDef, Zenon
<1>3. N \in Nat /\ DOMAIN all = 1 .. N
  BY <1>2, LenProperties, Zenon
<1>4. /\ n \in Int /\ n <= N /\ (top_k >= 0 => n >= 0)
      /\ top_k >= 0 => n <= top_k
      /\ top_k >= 0 /\ n < N => n = top_k
  <2>1. CASE top_k < 0
    BY <1>3, <2>1, SMT
  <2>2. CASE ~(top_k < 0)
    <3>1. PICK l \in {top_k, N} : \A k \in {top_k, N} : l <= k
      BY <1>3, SMT
    <3>2. PICK x \in {top_k, N} : x = Merchants!Min({top_k, N}) /\ \A k \in {top_k, N} : x <= k
      BY <3>1, Zenon DEF Merchants!Min
    <3>3. n = x
      BY <2>2, <3>2, Zenon
    <3> HIDE DEF n, N
    <3> QED
      BY <1>3, <2>2, <3>2, <3>3, SMT
  <2> QED
    BY <2>1, <2>2, Zenon
<1> HIDE DEF n, N
<1>5. PICK one \in Int, last \in Int : one = 1 /\ last = n
  BY <1>4, SMT
<1>6. best = SubSeq(all, one, last)
  BY <1>5, Zenon DEF Merchants!FirstOf, n, N
<1>7. \A i \in one .. last : all[i] \in BestFuzzy /\ i \in DOMAIN all
  BY <1>2, <1>3, <1>4, <1>5, ElementOfSeq, SMT DEF N
<1>8. /\ SubSeq(all, one, last) \in Seq(BestFuzzy)
      /\ Len(SubSeq(all, one, last)) = IF one <= last THEN last - one + 1 ELSE 0
      /\ \A i \in 1 .. last - one + 1 : SubSeq(all, one, last)[i] = all[one + i - 1]
  BY <1>7, SubSeqProperties
<1>9. best \in Seq(BestFuzzy) /\ Len(best) = IF one <= last THEN last - one + 1 ELSE 0
  BY <1>6, <1>8, Zenon
<1>10. DOMAIN best = 1 .. Len(best) /\ Len(best) \in Nat
  BY <1>9, LenProperties, Zenon
<1>11. ASSUME NEW i \in DOMAIN best PROVE i \in 1 .. N /\ i <= n /\ i \in Int /\ best[i] = all[i]
  <2>1. i \in 1 .. last - one + 1 /\ one + i - 1 = i /\ i \in 1 .. N /\ i <= n /\ i \in Int
    BY <1>3, <1>4, <1>5, <1>9, <1>10, SMT
  <2> QED
    BY <1>6, <1>8, <2>1, Zenon
<1>12. Len(best) \in Nat /\ (top_k >= 0 => Len(best) <= top_k)
  BY <1>4, <1>5, <1>9, <1>10, SMT
<1>13. \A i \in DOMAIN best : best[i] \in BestFuzzy
  BY <1>9, <1>10, ElementOfSeq, Zenon
<1>14. ASSUME NEW i \in DOMAIN best, NEW j \in DOMAIN best, i < j
       PROVE  best[i] # best[j] /\ best[i].score >= best[j].score
  <2>1. i \in DOMAIN all /\ j \in DOMAIN all /\ best[i] = all[i] /\ best[j] = all[j]
    BY <1>3, <1>11, Zenon
  <2> QED
    BY <1>1, <1>14, <2>1, Zenon
<1>15. ASSUME NEW m \in BestFuzzy, ~ \E i \in DOMAIN best : best[i] = m
       PROVE  Len(best) >= top_k /\ \A i \in DOMAIN best : best[i].score >= m.score
  <2>1. PICK j \in 1 .. N : all[j] = m
    BY <1>1, <1>3, Zenon
  <2>2. ~(j <= n)
    <3>1. ASSUME j <= n PROVE j \in DOMAIN best
      BY <1>3, <1>4, <1>5, <1>9, <1>10, <2>1, <3>1, SMT
    <3> QED
      BY <1>11, <1>15, <2>1, <3>1, Zenon
  <2>3. n < N /\ j \in Int
    BY <1>3, <1>4, <2>1, <2>2, SMT
  <2>4. Len(best) >= top_k
    BY <1>4, <1>5, <1>9, <1>10, <2>3, SMT
  <2>5. ASSUME NEW i \in DOMAIN best PROVE i < j
    BY <1>4, <1>11, <2>2, <2>3, SMT
  <2> QED
    BY <1>1, <1>3, <1>11, <2>1, <2>4, <2>5, Zenon
<1> QED
  BY <1>12, <1>13, <1>14, <1>15, Zenon
-----------------------------------------------------------------------------
(* The merchant resolver: the results.                                       *)

\* The answer to a text that names a merchant.
LEMMA NamedAnswer ==
  ASSUME MerchantsInv, answered, Merchants!Named(Merchants!Clean(text)) # {}
  PROVE  OneNamed(answer, Merchants!Clean(text))
<1>1. PICK words : words = Merchants!Clean(text)
  OBVIOUS
<1>2. Merchants!ExactMatch(words) # << >> /\ OneNamed(Merchants!ExactMatch(words), words)
  BY <1>1, ExactIsNamed, Zenon
<1>3. answer = Merchants!ExactMatch(words)
  BY <1>1, <1>2, Zenon DEF MerchantsInv, Answered
<1> QED
  BY <1>1, <1>2, <1>3, Zenon

\* The one match in it.
LEMMA OneMatchIs ==
  ASSUME NEW id, NEW s, NEW type, answer = OneMatch(id, s, type)
  PROVE  /\ Len(answer) = 1 /\ 1 \in DOMAIN answer
         /\ \A i \in DOMAIN answer : answer[i].merchant = id /\ answer[i].score = s /\ answer[i].type = type
<1>1. PICK m : m = Merchants!Match(id, s, type)
  OBVIOUS
<1>2. m.merchant = id /\ m.score = s /\ m.type = type
  BY <1>1, SMT DEF Merchants!Match
<1>3. answer = <<m>>
  BY <1>1, Zenon DEF OneMatch
<1>4. Len(answer) = 1 /\ 1 \in DOMAIN answer /\ \A i \in DOMAIN answer : answer[i] = m
  BY <1>3, SMT
<1> QED
  BY <1>2, <1>4, Zenon

LEMMA AnswerTyped == MerchantsInv => Merchants!TypeOK
<1> SUFFICES ASSUME MerchantsInv, answered PROVE Merchants!TypeOK
  BY Zenon DEF Merchants!TypeOK
<1>1. /\ ratio \in Similarities /\ jaccard \in Similarities /\ threshold \in Thresholds /\ Answered
      /\ top_k \in Int /\ threshold \in Int
  BY MerchantConstants, Zenon DEF MerchantsInv
<1>2. CASE Merchants!Named(Merchants!Clean(text)) # {}
  <2>1. PICK winner \in Merchants!Named(Merchants!Clean(text)),
             s \in {100, 85}, type \in {"exact", "substring"} :
          answer = OneMatch(Merchants!TakenBy(winner), s, type)
    BY <1>2, NamedAnswer, Zenon DEF OneNamed
  <2>2. PICK id \in Merchants!MerchantIds : id = Merchants!TakenBy(winner)
    BY <2>1, TakenByTyped, Zenon DEF Merchants!Named
  <2>3. type # "alias" /\ type # "trigram"
    BY <2>1, SMT
  <2>4. answer = OneMatch(id, s, type)
    BY <2>1, <2>2, Zenon
  <2>5. /\ Len(answer) = 1
        /\ \A i \in DOMAIN answer : answer[i].merchant = id /\ answer[i].type = type
    BY <2>4, OneMatchIs, SMT
  <2>6. type = "exact" \/ type = "substring"
    BY <2>1, Zenon
  <2> QED
    BY <2>2, <2>3, <2>5, <2>6, Zenon DEF Merchants!TypeOK
<1>3. CASE Merchants!Named(Merchants!Clean(text)) = {}
  <2>1. PICK all \in Merchants!Rankings(BestFuzzy) : answer = Merchants!FirstOf(all)
    BY <1>1, <1>3, ExactIsNamed, Zenon DEF Answered
  <2>2. (top_k >= 0 => Len(answer) <= top_k) /\ \A i \in DOMAIN answer : answer[i] \in BestFuzzy
    BY <1>1, <2>1, RankedAnswer, Zenon
  <2>3. BestFuzzy \subseteq Fuzzy
    BY Zenon DEF BestFuzzy, Merchants!BestPerMerchant
  <2>4. ASSUME NEW i \in DOMAIN answer
        PROVE  /\ answer[i].merchant \in Merchants!MerchantIds
               /\ answer[i].score \in 0 .. 100 /\ answer[i].score >= threshold
    <3>1. answer[i] \in Fuzzy
      BY <2>2, <2>3, Zenon
    <3>2. /\ answer[i].merchant \in Merchants!MerchantIds
          /\ answer[i].score \in Nat /\ threshold <= answer[i].score /\ answer[i].score <= 100
      BY <1>1, <3>1, FuzzyTyped, Zenon
    <3> QED
      BY <1>1, <3>2, SMT
  <2> QED
    BY <2>2, <2>4, Zenon DEF Merchants!TypeOK
<1> QED
  BY <1>2, <1>3

\* For every gazetteer, query and measure: an answer has merchants that are in the
\* gazetteer, the one that was found by its name or at most top_k similar ones, none
\* of them below the threshold.
THEOREM MerchantsTypeCorrect == Merchants!Spec => []Merchants!TypeOK
BY MerchantsInvariant, AnswerTyped, PTL

\* Two matches of a merchant are the same match.
LEMMA OneMatchEach ==
  ASSUME ratio \in Similarities, jaccard \in Similarities, threshold \in Thresholds,
         NEW m \in BestFuzzy, NEW n \in BestFuzzy, m.merchant = n.merchant
  PROVE  m = n
<1>1. m \in Fuzzy /\ n \in Fuzzy
  BY Zenon DEF BestFuzzy, Merchants!BestPerMerchant
<1>2. /\ m = Merchants!Match(m.merchant, m.score, m.type) /\ m.score \in Nat
      /\ n = Merchants!Match(n.merchant, n.score, n.type) /\ n.score \in Nat
  BY <1>1, FuzzyTyped, Zenon
<1>3. /\ n.score < m.score \/ (n.score = m.score /\ (n.type = m.type \/ m.type = "alias"))
      /\ m.score < n.score \/ (m.score = n.score /\ (m.type = n.type \/ n.type = "alias"))
  BY <1>1, Zenon DEF BestFuzzy, Merchants!BestPerMerchant
<1>4. m.score = n.score /\ m.type = n.type
  BY <1>2, <1>3, SMT
<1> QED
  BY <1>2, <1>4, Zenon

LEMMA AnswerRanked == MerchantsInv => Merchants!AnswerIsRanked
<1> SUFFICES ASSUME MerchantsInv, answered, Merchants!Named(Merchants!Clean(text)) = {}
             PROVE  Merchants!AnswerIsRanked
  BY Zenon DEF Merchants!AnswerIsRanked
<1>1. /\ ratio \in Similarities /\ jaccard \in Similarities /\ threshold \in Thresholds
      /\ threshold \in Int /\ top_k \in Int
  BY MerchantConstants, Zenon DEF MerchantsInv
<1>2. PICK all \in Merchants!Rankings(BestFuzzy) : answer = Merchants!FirstOf(all)
  BY ExactIsNamed, Zenon DEF MerchantsInv, Answered
<1>3. /\ \A i \in DOMAIN answer : answer[i] \in BestFuzzy
      /\ \A i, j \in DOMAIN answer : i < j => answer[i] # answer[j] /\ answer[i].score >= answer[j].score
      /\ \A m \in BestFuzzy :
           \/ \E i \in DOMAIN answer : answer[i] = m
           \/ Len(answer) >= top_k /\ \A i \in DOMAIN answer : answer[i].score >= m.score
  BY <1>1, <1>2, RankedAnswer, Zenon
<1>4. \A i, j \in DOMAIN answer : i < j =>
        answer[i].merchant # answer[j].merchant /\ answer[i].score >= answer[j].score
  BY <1>1, <1>3, OneMatchEach, Zenon
<1>5. ASSUME NEW id \in Merchants!MerchantIds,
             ~(Merchants!BestScore(id) < threshold), Merchants!BestScore(id) # 0
      PROVE  \/ \E i \in DOMAIN answer :
                  answer[i].merchant = id /\ answer[i].score = Merchants!BestScore(id)
             \/ /\ Len(answer) >= top_k
                /\ \A i \in DOMAIN answer : answer[i].score >= Merchants!BestScore(id)
  <2>1. Merchants!BestScore(id) \in Nat
    BY <1>1, <1>5, BestOwnScore, OwnScores, Zenon
  <2>2. Merchants!BestScore(id) >= threshold
    BY <1>1, <1>5, <2>1, SMT
  <2>3. PICK m \in BestFuzzy : m.merchant = id /\ m.score = Merchants!BestScore(id)
    BY <1>1, <1>5, <2>2, BestMatchExists, Zenon
  <2> QED
    BY <1>3, <2>3, Zenon
<1> QED
  BY <1>4, <1>5, Zenon DEF Merchants!AnswerIsRanked

LEMMA NamedAnswered == MerchantsInv => Merchants!NamedIsAnswered
<1> SUFFICES ASSUME MerchantsInv, answered, NEW name \in Merchants!Named(Merchants!Clean(text))
             PROVE  /\ Len(answer) = 1 /\ answer[1].score >= 85
                    /\ \E winner \in Merchants!Named(Merchants!Clean(text)) :
                         /\ answer[1].merchant = Merchants!TakenBy(winner)
                         /\ \/ winner = name \/ Merchants!Before(winner, name)
                            \/ winner.words = Merchants!Clean(text)
                         /\ name.words = Merchants!Clean(text) =>
                              winner.words = Merchants!Clean(text) /\ answer[1].score = 100
  BY Zenon DEF Merchants!NamedIsAnswered
<1>1. OneNamed(answer, Merchants!Clean(text))
  BY NamedAnswer, Zenon
<1>2. PICK winner \in Merchants!Named(Merchants!Clean(text)),
           s \in {100, 85}, type \in {"exact", "substring"} :
        /\ answer = OneMatch(Merchants!TakenBy(winner), s, type)
        /\ \A other \in Merchants!Named(Merchants!Clean(text)) :
             /\ winner = other \/ Merchants!Before(winner, other) \/ winner.words = Merchants!Clean(text)
             /\ other.words = Merchants!Clean(text) => winner.words = Merchants!Clean(text) /\ s = 100
  BY <1>1, Zenon DEF OneNamed
<1>3. /\ winner = name \/ Merchants!Before(winner, name) \/ winner.words = Merchants!Clean(text)
      /\ name.words = Merchants!Clean(text) => winner.words = Merchants!Clean(text) /\ s = 100
  BY <1>2, Zenon
<1>4. Len(answer) = 1 /\ answer[1].merchant = Merchants!TakenBy(winner) /\ answer[1].score = s
  <2>1. PICK id : id = Merchants!TakenBy(winner)
    OBVIOUS
  <2>2. answer = OneMatch(id, s, type)
    BY <1>2, <2>1, Zenon
  <2>3. /\ Len(answer) = 1 /\ 1 \in DOMAIN answer
        /\ \A i \in DOMAIN answer : answer[i].merchant = id /\ answer[i].score = s
    BY <2>2, OneMatchIs, SMT
  <2> QED
    BY <2>1, <2>3, Zenon
<1>5. s >= 85
  BY SMT
<1> QED
  BY <1>3, <1>4, <1>5, Zenon

\* For every gazetteer, query and measure.  A text in which a name stands, whole or
\* in a word, is answered with one merchant that it names, the first of the dict,
\* and with a whole one before a part.  For any other text the matches come best
\* first, one for each merchant and with the better of its scores, and none that is
\* left out would come before them.  A last "*PAY" does not change who is named.
THEOREM ResolvesInOrder == Merchants!Spec => []ResolvedInOrder
<1>1. MerchantsInv => Merchants!PaySuffixIgnored
  <2>1. MerchantsInv => text \in Texts
    BY Zenon DEF MerchantsInv
  <2> QED
    BY <2>1, PayAddsNothing, Zenon DEF Merchants!PaySuffixIgnored, EndsInPay
<1>2. MerchantsInv => ResolvedInOrder
  BY <1>1, AnswerRanked, NamedAnswered, Zenon DEF ResolvedInOrder, Merchants!ResolvedInOrder
<1> QED
  BY <1>2, MerchantsInvariant, PTL
-----------------------------------------------------------------------------
(* The four together.                                                        *)

\* The component that has work keeps its invariant, the others stand still.
ClassifiersInv ==
  /\ IInv /\ RulesInv /\ CascadeInv
  /\ answered => component = "merchants"
  /\ component = "merchants" => MerchantsInv

LEMMA ClassifiersStart == ClassifiersInit => ClassifiersInv
<1>1. LlmIdle => IInv
  BY InitIInv, Zenon DEF LlmIdle
<1>2. RulesIdle => RulesInv
  BY RulesInit, Zenon DEF RulesIdle
<1>3. CascadeIdle => CascadeInv
  BY CascadeStarts, Zenon DEF CascadeIdle
<1>4. /\ MerchantsIdle => ~answered
      /\ Merchants!Init => MerchantsInv
  BY MerchantsStart, Zenon DEF MerchantsIdle
<1> QED
  BY <1>1, <1>2, <1>3, <1>4, InitIInv, RulesInit, CascadeStarts, SMT
    DEF ClassifiersInit, ClassifiersInv

LEMMA ClassifiersKeep ==
  /\ ClassifiersInv
  /\ [ClassifiersNext]_<<component, cascade_vars, vars, rule_vars, merchant_vars>>
  => ClassifiersInv'
<1> SUFFICES ASSUME ClassifiersInv,
                    [ClassifiersNext]_<<component, cascade_vars, vars, rule_vars, merchant_vars>>
             PROVE  ClassifiersInv'
  OBVIOUS
<1>1. IInv'
  <2>1. [Next \/ Terminated]_vars
    BY Zenon DEF ClassifiersNext
  <2> QED
    BY <2>1, NextIInv, Zenon DEF ClassifiersInv
<1>2. RulesInv'
  <2>1. [Rules!Next]_(Rules!vars)
    BY Zenon DEF ClassifiersNext, rule_vars, Rules!vars
  <2> QED
    BY <2>1, RulesNext, Zenon DEF ClassifiersInv
<1>3. CascadeInv'
  <2>1. [Cascade!Next]_(Cascade!vars)
    BY Zenon DEF ClassifiersNext, cascade_vars, Cascade!vars
  <2> QED
    BY <2>1, CascadeSteps, Zenon DEF ClassifiersInv
<1>4. component' = component /\ (component # "merchants" => UNCHANGED merchant_vars)
  BY Zenon DEF ClassifiersNext
<1>5. component = "merchants" => MerchantsInv'
  <2>1. component = "merchants" => [Merchants!Next]_(Merchants!vars)
    BY Zenon DEF ClassifiersNext, merchant_vars, Merchants!vars
  <2> QED
    BY <2>1, MerchantsSteps, Zenon DEF ClassifiersInv
<1>6. component # "merchants" => ~answered'
  BY <1>4, SMT DEF ClassifiersInv, merchant_vars
<1> QED
  BY <1>1, <1>2, <1>3, <1>4, <1>5, <1>6, Zenon DEF ClassifiersInv

LEMMA ClassifiersInvariant == ClassifiersSpec => []ClassifiersInv
BY ClassifiersStart, ClassifiersKeep, PTL DEF ClassifiersSpec

\* The four ways to a verdict are typed.
THEOREM ClassifiersTypeCorrect == ClassifiersSpec => []ClassifiersTypeOK
<1>1. ClassifiersInv => Merchants!TypeOK
  BY AnswerTyped, Zenon DEF ClassifiersInv, Merchants!TypeOK
<1>2. ClassifiersInv => ClassifiersTypeOK
  BY <1>1, InvariantTypes, RulesInvTypes, CascadeInvTypes, Zenon DEF ClassifiersInv, ClassifiersTypeOK
<1> QED
  BY <1>2, ClassifiersInvariant, PTL
=============================================================================
