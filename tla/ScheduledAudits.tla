-------------------------- MODULE ScheduledAudits --------------------------
(***************************************************************************)
(* Scheduled audits of Sentinel-Fi: rows of scheduled_audits, the requests *)
(* that create, pause and resume them, and the daemon thread whose tick    *)
(* lists the schedules that are due, submits the audit of each and writes  *)
(* back when it is due again.  What submit does is the business of         *)
(* AuditJobs; here it returns or raises.                                   *)
(*                                                                         *)
(* next_run_at is kept as the time that is left; schedules with none left  *)
(* stand in the sequence overdue in the order of their next_run_at, so     *)
(* that time may pass without bound.                                       *)
(***************************************************************************)
EXTENDS Naturals, Sequences, SequencesExt, Lists

CONSTANTS Schedules,  \* schedule ids
          Interval,   \* interval_minutes of each
          Limit,      \* of list_due
          MaxTick,    \* bound on the duration of a tick
          MaxStops    \* bound on the crashes of the process

\* What the constants have to be.
ConstantsAssumption ==
  /\ Limit \in Nat \ {0}
  /\ MaxTick \in Nat
  /\ MaxStops \in Nat
  /\ Interval \in [Schedules -> Nat \ {0}]
  /\ \A s \in Schedules : MaxTick < Interval[s]
  /\ IsFiniteSet(Schedules)

VARIABLES
  status,   \* of each row
  left,     \* time until next_run_at
  overdue,  \* the rows whose next_run_at has passed, oldest first
  due,      \* the tick: the rows it listed and has not finished with
  at,       \* the tick: "waiting", or what it does to the first of due
  since,    \* time since the tick began
  stops,    \* crashes so far
  asked,    \* what the last request about the schedule asked for
  late      \* dispatches of the schedule since it was paused

vars == <<status, left, overdue, due, at, since, stops, asked, late>>
-----------------------------------------------------------------------------
Without(q, s) == AtPlaces(q, {i \in DOMAIN q : q[i] # s})

Init ==
  /\ status = [s \in Schedules |-> "absent"]
  /\ left = [s \in Schedules |-> 0]
  /\ overdue = << >>
  /\ due = << >>
  /\ at = "waiting"
  /\ since = 0
  /\ stops = 0
  /\ asked = [s \in Schedules |-> "absent"]
  /\ late = [s \in Schedules |-> 0]
-----------------------------------------------------------------------------
(* Requests.                                                               *)

Create_schedule(s) ==
  /\ status[s] = "absent"
  /\ status' = [status EXCEPT ![s] = "active"]
  /\ asked' = [asked EXCEPT ![s] = "active"]
  /\ left' = [left EXCEPT ![s] = Interval[s]]
  /\ UNCHANGED <<overdue, due, at, since, stops, late>>

\* pause and resume leave next_run_at alone.
Set_status(s) ==
  /\ status[s] # "absent"
  /\ \E to \in {"paused", "active"} :
       /\ status' = [status EXCEPT ![s] = to]
       /\ asked' = [asked EXCEPT ![s] = to]
       /\ late' = [late EXCEPT ![s] = IF status[s] = to THEN @ ELSE 0]
  /\ UNCHANGED <<left, overdue, due, at, since, stops>>
-----------------------------------------------------------------------------
(* tick                                                                    *)

\* The first rows of a list, as many as LIMIT lets through.
Limited(q) == SubSeq(q, 1, IF Len(q) < Limit THEN Len(q) ELSE Limit)

\* The rows of overdue that are active, in its order.
ActiveOverdue == AtPlaces(overdue, {i \in DOMAIN overdue : status[overdue[i]] = "active"})

\* Variant: newest first.
ListNewest == Limited(Reverse(ActiveOverdue))

\* list_due: active, due, the longest overdue first.
List_due == Limited(ActiveOverdue)

BeginTick ==
  /\ at = "waiting"
  /\ List_due # << >>
  /\ due' = List_due
  /\ at' = "submit"
  /\ since' = 0
  /\ UNCHANGED <<status, left, overdue, stops, asked, late>>

\* audit_jobs.submit returns or raises; neither looks at the row again.
Dispatch ==
  /\ at = "submit"
  /\ at' = "mark"
  /\ late' = [late EXCEPT ![Head(due)] =
                IF status[Head(due)] = "paused" THEN @ + 1 ELSE @]
  /\ UNCHANGED <<status, left, overdue, due, since, stops, asked>>

\* The tick goes on with the next row, or waits for the next tick.
NextDue ==
  /\ due' = Tail(due)
  /\ at' = IF Tail(due) = << >> THEN "waiting" ELSE "submit"

\* Variant: the row read by list_due is written back as a whole.
MarkWholeRow ==
  /\ at = "mark"
  /\ status' = [status EXCEPT ![Head(due)] = "active"]
  /\ left' = [left EXCEPT ![Head(due)] = Interval[Head(due)] - since]
  /\ overdue' = Without(overdue, Head(due))
  /\ NextDue
  /\ UNCHANGED <<since, stops, asked, late>>

\* mark_dispatched counts the interval from the beginning of the tick, and
\* writes every column but the status.
Mark_dispatched ==
  /\ at = "mark"
  /\ left' = [left EXCEPT ![Head(due)] = Interval[Head(due)] - since]
  /\ overdue' = Without(overdue, Head(due))
  /\ NextDue
  /\ UNCHANGED <<status, since, stops, asked, late>>

Tick == BeginTick \/ Dispatch \/ Mark_dispatched
-----------------------------------------------------------------------------
(* Time, and the process.                                                  *)

Ticking(s) == status[s] # "absent" /\ left[s] > 0

\* A unit of time; the schedules that become due together do so in any
\* order.
Pass ==
  /\ at # "waiting" => since < MaxTick
  /\ since' = IF at = "waiting" THEN 0 ELSE since + 1
  /\ \E s \in Schedules : Ticking(s)
  /\ left' = [s \in Schedules |-> IF Ticking(s) THEN left[s] - 1 ELSE left[s]]
  /\ \E q \in SetToSeqs({s \in Schedules : Ticking(s) /\ left[s] = 1}) :
       overdue' = overdue \o q
  /\ UNCHANGED <<status, due, at, stops, asked, late>>

\* The process dies and a new one starts to tick.
Crash ==
  /\ stops < MaxStops
  /\ stops' = stops + 1
  /\ due' = << >>
  /\ at' = "waiting"
  /\ since' = 0
  /\ UNCHANGED <<status, left, overdue, asked, late>>

Next ==
  \/ \E s \in Schedules : Create_schedule(s) \/ Set_status(s)
  \/ Tick
  \/ Pass
  \/ Crash

Spec == Init /\ [][Next]_vars

\* The thread runs until the process ends: tick's exceptions are caught in
\* the loop.
Fairness == WF_vars(Tick) /\ WF_vars(Pass)
FairSpec == Spec /\ Fairness
-----------------------------------------------------------------------------
(* Properties.                                                             *)

\* Type invariant: a schedule is active or paused, the tick at one of its
\* steps.
TypeOK ==
  /\ status \in [Schedules -> {"absent", "active", "paused"}]
  /\ \A s \in Schedules : left[s] \in 0 .. Interval[s]
  /\ overdue \in Seq(Schedules)
  /\ due \in Seq(Schedules)
  /\ at \in {"waiting", "submit", "mark"}
  /\ since \in 0 .. MaxTick
  /\ stops \in 0 .. MaxStops
  /\ asked \in [Schedules -> {"absent", "active", "paused"}]
  /\ late \in [Schedules -> Nat]

\* A pause is not lost to a tick that listed the schedule before it, nor a
\* resume: the row says what the last request asked for.
PauseHolds == status = asked

\* A tick at work may still dispatch a schedule once after it was paused,
\* no more, also when the process restarts in between.
PausedRunsAtMostOnce == \A s \in Schedules : late[s] <= 1

\* However many schedules compete for the places of a tick, one that is
\* overdue gets its turn unless it is paused.
DueGetsDispatched ==
  \A s \in Schedules :
    (left[s] = 0 /\ status[s] = "active") ~> (left[s] > 0 \/ status[s] = "paused")

\* A pause is neither undone nor evaded.
PausesHold == PauseHolds /\ PausedRunsAtMostOnce
=============================================================================
