----------------------------- MODULE JobLedger -----------------------------
(***************************************************************************)
(* What the callers of one idempotency key may count on, whichever entry   *)
(* points they come through and however often the server stops: a key is   *)
(* accepted once, executed once and answered for good, with an audit that  *)
(* was stored for it.  Two things end that promise, and each has an action *)
(* of its own: a key whose execution fails may be tried again, and a key   *)
(* that a restart requeues may be executed again.                          *)
(***************************************************************************)
EXTENDS Naturals

CONSTANTS Keys,
          Unreliable  \* the keys whose execution may fail

VARIABLES job,     \* of each key: how far it is, and the audit it refers to
          stored,  \* the audits there are of each key
          once     \* the keys that are executed at most once

vars == <<job, stored, once>>

Job(status, result) == [status |-> status, result |-> result]

Init ==
  /\ job = [k \in Keys |-> Job("absent", 0)]
  /\ stored = [k \in Keys |-> {}]
  /\ once = Keys \ Unreliable

Accepted(k) == job[k].status # "absent"

Put(k, one) == job' = [job EXCEPT ![k] = one] /\ UNCHANGED <<stored, once>>

Accept(k) == ~ Accepted(k) /\ Put(k, Job("open", 0))

\* The one audit, of a key that is executed once.
Store(k) ==
  /\ Accepted(k)
  /\ k \in once => job[k].status = "open" /\ stored[k] = {}
  /\ \E id \in stored'[k] \ stored[k] : stored' = [stored EXCEPT ![k] = @ \cup {id}]
  /\ UNCHANGED <<job, once>>

Succeed(k) ==
  /\ Accepted(k)
  /\ k \in once => job[k].status = "open"
  /\ \E id \in stored[k] : Put(k, Job("succeeded", id))

Fail(k) == k \in Unreliable /\ Accepted(k) /\ Put(k, Job("failed", 0))

Reopen(k) == k \notin once /\ Accepted(k) /\ Put(k, Job("open", 0))

\* A restart takes the keys S up again, of which those in T are open from now on.
Requeue(S, T) ==
  /\ \A k \in S : Accepted(k)
  /\ once' = once \ S
  /\ job' = [k \in Keys |-> IF k \in T THEN Job("open", 0) ELSE job[k]]
  /\ UNCHANGED stored

Next ==
  \/ \E k \in Keys : Accept(k) \/ Store(k) \/ Succeed(k) \/ Fail(k) \/ Reopen(k)
  \/ \E S \in SUBSET Keys : \E T \in SUBSET S : Requeue(S, T)

Spec == Init /\ [][Next]_vars
=============================================================================
