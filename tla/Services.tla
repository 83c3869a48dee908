------------------------------ MODULE Services ------------------------------
(* The services around the audits: RuntimeSettings, AlertWebhook and          *)
(* ScheduledAudits.  They share a specification and not a state: each        *)
(* behaviour has work for one of them and leaves the others where they start. *)
EXTENDS RuntimeSettings, Integers

SettingsIdle ==
  /\ stored = [k \in Keys |-> None] /\ redis = TRUE
  /\ phase = "up" /\ env = (CHOOSE e \in Envs : TRUE)
  /\ memory = env /\ built = [k \in BuiltKeys |-> env[k]]
  /\ update = Off /\ refused = FALSE
  /\ bounds = [updates |-> MaxUpdates, stops |-> MaxStops, outages |-> MaxOutages]
-----------------------------------------------------------------------------
(* Alerts.                                                                  *)

CONSTANTS Attempts, Waits

VARIABLES configured, findings, pc, attempt, slept, received, alerts, heard
alert_vars == <<configured, findings, pc, attempt, slept, received, alerts, heard>>

Webhook == INSTANCE AlertWebhook

ASSUME WebhooksAssumption == Webhook!WebhookAssumption

WebhookIdle ==
  /\ configured = [attempts |-> 1, base |-> 0, max |-> 0, url |-> FALSE] /\ findings = FALSE
  /\ pc = "returned" /\ attempt = 0 /\ slept = 0 /\ received = {} /\ alerts = {} /\ heard = FALSE
-----------------------------------------------------------------------------
(* Schedules.                                                               *)

CONSTANTS Schedules, Interval, Limit, MaxTick, MaxCrashes

VARIABLES status, left, overdue, due, at, since, stops, asked, late
schedule_vars == <<status, left, overdue, due, at, since, stops, asked, late>>

Scheduler == INSTANCE ScheduledAudits WITH MaxStops <- MaxCrashes

ASSUME SchedulesAssumption == Scheduler!ConstantsAssumption
-----------------------------------------------------------------------------
VARIABLE component  \* the one that has work

\* ScheduledAudits starts without schedules, which is idle enough.
ServicesInit ==
  /\ Scheduler!Init
  /\ \/ component = "settings" /\ WebhookIdle /\ Init
     \/ component = "webhook" /\ SettingsIdle /\ Webhook!Init
     \/ component = "scheduler" /\ SettingsIdle /\ WebhookIdle

ServicesNext ==
  \/ component = "settings" /\ Next /\ UNCHANGED <<component, alert_vars, schedule_vars>>
  \/ component = "webhook" /\ Webhook!Next /\ UNCHANGED <<component, vars, schedule_vars>>
  \/ component = "scheduler" /\ Scheduler!Next /\ UNCHANGED <<component, vars, alert_vars>>

ServicesSpec ==
  /\ ServicesInit
  /\ [][ServicesNext]_<<component, vars, alert_vars, schedule_vars>>
  /\ Fairness /\ Webhook!Fairness
  /\ Scheduler!Fairness

\* The type invariants of the three modules.
ServicesTypeOK == TypeOK /\ Webhook!TypeOK /\ Scheduler!TypeOK

\* An alert is given once, with pauses that are bounded, and done with then.
AlertedOnce == Webhook!AlertedOnce

\* A pause is neither undone nor evaded.
PausesHold == Scheduler!PausesHold

\* Every schedule that is due gets its turn.
DueGetsDispatched == Scheduler!DueGetsDispatched
=============================================================================
