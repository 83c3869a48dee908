---------------------------- MODULE AlertWebhook ----------------------------
(***************************************************************************)
(* The alert an audit with P1 findings sends to the configured webhook     *)
(* (src/src/sentinelfi/services/notification_service.py), over a network   *)
(* that may lose the request or the reply, to a receiver that takes two    *)
(* requests with one x-idempotency-key for one alert.  Each attempt has a  *)
(* signature and a time stamp of its own, which are left out.              *)
(*                                                                         *)
(* The thread that sends is the thread of the audit: of the request's      *)
(* thread pool or of the job executor.  What an attempt takes has no bound *)
(* in the code (see Post) and is not counted; what is slept between them   *)
(* counts in quarters of a second, the random part being at most one.      *)
(***************************************************************************)
EXTENDS Integers, FiniteSets, FiniteSetsExt

CONSTANTS
    Attempts,   \* values of alert_webhook_max_attempts
    Waits       \* values of alert_webhook_retry_base_seconds and .._max_seconds

\* What the constants have to be.  Beyond 1025 attempts the power of two in
\* Pause does not fit a float any more.
WebhookAssumption == Attempts \subseteq {n \in Int : n <= 1025} /\ Waits \subseteq Nat

VARIABLES
    configured,  \* [attempts, base, max, url]: the settings while the alert is sent
    findings,    \* the audit has P1 findings
    pc,          \* where notify_audit is
    attempt,     \* requests made so far
    slept,       \* time spent in pauses
    received,    \* numbers of the attempts whose requests the receiver has got
    alerts,      \* keys under which the receiver has raised an alert
    heard        \* the sender has had an answer that settles the matter

vars == << configured, findings, pc, attempt, slept, received, alerts, heard >>

Init ==
    /\ configured \in [attempts : Attempts, base : Waits, max : Waits, url : BOOLEAN]
    /\ findings \in BOOLEAN
    /\ pc       = "called"
    /\ attempt  = 0
    /\ slept    = 0
    /\ received = {}
    /\ alerts   = {}
    /\ heard    = FALSE

\* VARIANT: the setting is taken as it is.
AttemptsAsSet == configured.attempts

MaxAttempts == Max({1, configured.attempts})
BaseWait    == configured.base
MaxWait     == Max({BaseWait, configured.max})

\* No webhook, or nothing severe: there is nothing to tell.
Notify_audit ==
    /\ pc = "called"
    /\ pc' = IF configured.url /\ findings THEN "sending" ELSE "returned"
    /\ UNCHANGED << configured, findings, attempt, slept, received, alerts, heard >>

\* VARIANT: each attempt has a key of its own.
KeyOfAttempt(n) == n

\* One key for the audit, whatever the attempt.
Key(n) == 1

\* After a failure that may be retried.
Retry(n) == IF n >= MaxAttempts THEN "exhausted" ELSE "pausing"

\* One attempt.  The client's timeout is one for connecting, one for sending
\* and one for each piece of the reply: a reply that keeps coming in pieces
\* holds the thread for as long as it does ("stalled").  An exception that is
\* neither a timeout nor one of the transport, for a URL that is none or for a
\* reply that cannot be decoded, leaves the loop and notify_audit ("raised").
Post ==
    LET n == attempt + 1
    IN  /\ pc = "sending"
        /\ attempt' = n
        /\ \/ \* not sent, or lost on the way
              /\ pc' \in {Retry(n), "raised"}
              /\ UNCHANGED << received, alerts, heard >>
           \/ \* arrived, acted on or not; no reply, or one that settles nothing
              /\ received' = received \cup {n}
              /\ alerts'   \in {alerts, alerts \cup {Key(n)}}
              /\ pc'       \in {Retry(n), "raised", "stalled"}
              /\ UNCHANGED heard
           \/ \* arrived, acted on or not, and answered: a status below 400, a
              \* redirect included, or one that is not worth a retry
              /\ received' = received \cup {n}
              /\ alerts'   \in {alerts, alerts \cup {Key(n)}}
              /\ heard'    = TRUE
              /\ pc'       = "returned"
        /\ UNCHANGED << configured, findings, slept >>

\* min(max_wait, base_wait * 2 ** (attempt - 1)), and a quarter of a second at most.
Pause ==
    /\ pc = "pausing"
    /\ LET wait == Min({MaxWait, BaseWait * 2 ^ (attempt - 1)})
       IN  \E jitter \in 0..Min({1, wait}) : slept' = slept + wait + jitter
    /\ pc' = "sending"
    /\ UNCHANGED << configured, findings, attempt, received, alerts, heard >>

\* Nothing about the alert is stored: with the process it is gone.
Crash ==
    /\ pc \in {"called", "sending", "pausing", "stalled"}
    /\ pc' = "dead"
    /\ UNCHANGED << configured, findings, attempt, slept, received, alerts, heard >>

\* How notify_audit ends, or ends up.
Ends == {"returned", "exhausted", "raised", "dead"}

Terminated == pc \in Ends \cup {"stalled"} /\ UNCHANGED vars

Next == Notify_audit \/ Post \/ Pause \/ Crash \/ Terminated

Spec == Init /\ [][Next]_vars

\* An attempt ends or stalls, and the sleep ends every pause.
Fairness == WF_vars(Notify_audit) /\ WF_vars(Post) /\ WF_vars(Pause)
FairSpec == Spec /\ Fairness

----------------------------------------------------------------------------
(* Properties *)

\* Type invariant.
TypeOK ==
    /\ pc \in {"called", "sending", "pausing", "stalled"} \cup Ends
    /\ attempt \in 0..MaxAttempts
    /\ slept \in Nat
    /\ alerts \subseteq 1..MaxAttempts

\* Replies get lost and requests are repeated, and still the receiver raises one
\* alert for one audit.
OneAlertPerAudit == Cardinality(alerts) <= 1

\* There is a pause between two attempts and none after the last, and however
\* often the wait is doubled it is capped: the audit's thread sleeps no longer
\* than that comes to.
PausesAreBounded == slept <= (MaxAttempts - 1) * (MaxWait + 1)

\* After an answer that settles the matter, good or bad, the receiver is left alone.
SettledIsSettled == [][heard => received' = received]_vars

\* Nothing in the code makes an audit wait for its alert for ever:
\* notify_audit returns or raises, or its process dies, or the receiver keeps
\* the reply coming.
NotifyEnds == <>(pc \in Ends \cup {"stalled"})

\* The alert is given once, the pauses add up to what the settings allow, and
\* the receiver is left alone once it has answered.
AlertedOnce ==
    [](OneAlertPerAudit /\ PausesAreBounded) /\ SettledIsSettled /\ NotifyEnds
=============================================================================
