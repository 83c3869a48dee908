--------------------------- MODULE RuntimeSettings ---------------------------
(***************************************************************************)
(* The runtime settings of Sentinel-Fi.  PUT /v1/admin/settings assigns    *)
(* each key to the settings object and commits it to the app_settings      *)
(* table, one key after the other, and then rebuilds what was built from   *)
(* the settings: the lists of API keys, the rate limiter, the audit and    *)
(* notification services.  A restart starts from the environment and loads *)
(* the table's rows over it.                                               *)
(*                                                                         *)
(* The handler has no await: no other request sees its steps, but worker   *)
(* threads do, and a crash may come between them.                          *)
(***************************************************************************)
EXTENDS Naturals, Sequences

CONSTANTS AuthKeys,      \* settings the lists of API keys are built from
          LimiterKeys,   \* ... the rate limiter is built from
          ServiceKeys,   \* ... audit_execution and notifier are built from
          LiveKeys,      \* settings read where they are needed
          ImportedKeys,  \* settings read once, when the module is imported
          Backend,       \* rate_limit_backend
          Strict,        \* its value "redis"
          Values,
          Bad,           \* a value that the type of the setting refuses
          None,
          Envs,          \* the environments the program may be started in
          OldKeys,       \* settings of which an earlier release may have left
                         \* rows that no longer fit
          MaxPayload,    \* bound on the keys of one update
          MaxUpdates, MaxStops, MaxOutages  \* bounds

Keys == AuthKeys \cup LimiterKeys \cup ServiceKeys \cup LiveKeys \cup ImportedKeys
BuiltKeys == Keys \ LiveKeys

ASSUME ConstantsAssumption ==
  /\ LiveKeys \cap (AuthKeys \cup LimiterKeys \cup ServiceKeys \cup ImportedKeys) = {}
  /\ ImportedKeys \cap (AuthKeys \cup LimiterKeys \cup ServiceKeys) = {}
  /\ Backend \in LimiterKeys
  /\ OldKeys \subseteq Keys
  /\ Bad \notin Values /\ None \notin Values \cup {Bad}
  /\ Envs \subseteq [Keys -> Values] /\ Envs # {}
  /\ {MaxPayload, MaxUpdates, MaxStops, MaxOutages} \subseteq Nat

VARIABLES
  env,      \* the values of the environment
  phase,    \* of the process: "down", "loading", "up"
  memory,   \* the settings object
  built,    \* the values that what is built from settings was built from
  stored,   \* the app_settings table
  update,   \* the update under way: where it is and the keys it has to do
  refused,  \* an update ended before its last step since the last one that did not
  redis,    \* is Redis reachable
  bounds    \* how many updates, stops and outages there have been

vars == <<env, phase, memory, built, stored, update, refused, redis, bounds>>

Off == [pc |-> "off", todo |-> << >>]

\* With the backend "redis" build_rate_limiter raises if Redis does not
\* answer; with "auto" it falls back to the limiter in memory.
LimiterFails(settings) == settings[Backend] = Strict /\ ~redis

\* The application has been imported.
Init ==
  /\ redis \in BOOLEAN
  /\ env \in Envs /\ ~LimiterFails(env)
  /\ phase = "loading"
  /\ memory = env
  /\ built = [k \in BuiltKeys |-> env[k]]
  /\ \E old \in SUBSET OldKeys : stored = [k \in Keys |-> IF k \in old THEN Bad ELSE None]
  /\ update = Off
  /\ refused = FALSE
  /\ bounds = [updates |-> 0, stops |-> 0, outages |-> 0]

Count(what) == bounds' = [bounds EXCEPT ![what] = @ + 1]

Rebuilt(keys) == [k \in BuiltKeys |-> IF k \in keys THEN memory[k] ELSE built[k]]
-----------------------------------------------------------------------------
(* admin_update_settings.                                                  *)

BeginUpdate(payload) ==
  /\ phase = "up" /\ update = Off
  /\ bounds.updates < MaxUpdates
  /\ payload # << >>
  /\ update' = [pc |-> "apply", todo |-> payload]
  /\ Count("updates")
  /\ UNCHANGED <<env, phase, memory, built, stored, refused, redis>>

\* _apply_runtime_setting raises: 400, with the keys before it done.
Refuse ==
  /\ update.pc = "apply"
  /\ Head(update.todo).value = Bad
  /\ update' = Off
  /\ refused' = TRUE
  /\ UNCHANGED <<env, phase, memory, built, stored, redis, bounds>>

Apply_runtime_setting ==
  /\ update.pc = "apply"
  /\ Head(update.todo).value # Bad
  /\ memory' = [memory EXCEPT ![Head(update.todo).key] = Head(update.todo).value]
  /\ update' = [update EXCEPT !.pc = "store"]
  /\ UNCHANGED <<env, phase, built, stored, refused, redis, bounds>>

\* Variant: one commit after the loop, of its last key.
Upsert_last ==
  /\ update.pc = "store"
  /\ stored' = IF Len(update.todo) = 1
               THEN [stored EXCEPT ![Head(update.todo).key] = Head(update.todo).value]
               ELSE stored
  /\ update' = [pc |-> IF Len(update.todo) = 1 THEN "auth" ELSE "apply",
                todo |-> Tail(update.todo)]
  /\ UNCHANGED <<env, phase, memory, built, refused, redis, bounds>>

\* upsert_setting commits each key.
Upsert_setting ==
  /\ update.pc = "store"
  /\ stored' = [stored EXCEPT ![Head(update.todo).key] = Head(update.todo).value]
  /\ update' = [pc |-> IF Len(update.todo) = 1 THEN "auth" ELSE "apply",
                todo |-> Tail(update.todo)]
  /\ UNCHANGED <<env, phase, memory, built, refused, redis, bounds>>

\* _refresh_security_runtime: the lists of keys, then the limiter, whose
\* exception is no ValueError: 500.
RefreshAuth ==
  /\ update.pc = "auth"
  /\ built' = Rebuilt(AuthKeys)
  /\ update' = [update EXCEPT !.pc = "limiter"]
  /\ UNCHANGED <<env, phase, memory, stored, refused, redis, bounds>>

RefreshLimiter ==
  /\ update.pc = "limiter"
  /\ IF LimiterFails(memory)
     THEN update' = Off /\ refused' = TRUE /\ UNCHANGED built
     ELSE /\ built' = Rebuilt(LimiterKeys)
          /\ update' = [update EXCEPT !.pc = "services"]
          /\ UNCHANGED refused
  /\ UNCHANGED <<env, phase, memory, stored, redis, bounds>>

\* _refresh_runtime_services, and the answer.
RefreshServices ==
  /\ update.pc = "services"
  /\ built' = Rebuilt(ServiceKeys)
  /\ update' = Off
  /\ refused' = FALSE
  /\ UNCHANGED <<env, phase, memory, stored, redis, bounds>>

Admin_update_settings ==
  \/ Refuse \/ Apply_runtime_setting \/ Upsert_setting
  \/ RefreshAuth \/ RefreshLimiter \/ RefreshServices
-----------------------------------------------------------------------------
(* The process.                                                            *)

Crash ==
  /\ phase = "up"
  /\ bounds.stops < MaxStops
  /\ phase' = "down"
  /\ update' = Off
  /\ Count("stops")
  /\ UNCHANGED <<env, memory, built, stored, refused, redis>>

\* Import: everything is built from the environment, and fails with a
\* limiter that cannot be built.
Boot ==
  /\ phase = "down" /\ ~LimiterFails(env)
  /\ phase' = "loading"
  /\ memory' = env
  /\ built' = [k \in BuiltKeys |-> env[k]]
  /\ refused' = FALSE
  /\ UNCHANGED <<env, stored, update, redis, bounds>>

\* What the rows make of the environment: those that do not fit are skipped.
Overridden(k) == IF stored[k] \in {None, Bad} THEN env[k] ELSE stored[k]

\* Variant: a row that does not fit ends the startup.
Load_overrides_or_die ==
  /\ phase = "loading"
  /\ memory' = [k \in Keys |-> Overridden(k)]
  /\ IF LimiterFails(memory') \/ Bad \in {stored[k] : k \in Keys}
     THEN phase' = "down" /\ UNCHANGED built
     ELSE phase' = "up" /\ built' = [k \in BuiltKeys |->
                                       IF k \in ImportedKeys THEN built[k] ELSE memory'[k]]
  /\ UNCHANGED <<env, stored, update, refused, redis, bounds>>

\* _load_runtime_settings_overrides in the lifespan: a limiter that cannot
\* be built is not caught, and the server does not start.
Load_runtime_settings_overrides ==
  /\ phase = "loading"
  /\ memory' = [k \in Keys |-> Overridden(k)]
  /\ IF LimiterFails(memory')
     THEN phase' = "down" /\ UNCHANGED built
     ELSE phase' = "up" /\ built' = [k \in BuiltKeys |->
                                       IF k \in ImportedKeys THEN built[k] ELSE memory'[k]]
  /\ UNCHANGED <<env, stored, update, refused, redis, bounds>>

\* Redis goes away or comes back.
Outage ==
  /\ bounds.outages < MaxOutages
  /\ redis' = ~redis
  /\ Count("outages")
  /\ UNCHANGED <<env, phase, memory, built, stored, update, refused>>
-----------------------------------------------------------------------------
\* The body of a request: a dict, whose keys come in some order.
Payloads ==
  {p \in UNION {[1 .. n -> [key: Keys, value: Values \cup {Bad}]] : n \in 1 .. MaxPayload} :
     \A i, j \in DOMAIN p : p[i].key = p[j].key => i = j}

Next ==
  \/ \E payload \in Payloads : BeginUpdate(payload)
  \/ Admin_update_settings
  \/ Crash \/ Boot \/ Load_runtime_settings_overrides
  \/ Outage

Spec == Init /\ [][Next]_vars

\* A request is served to its end and a server that is down is started again.
Fairness ==
  WF_vars(Admin_update_settings) /\ WF_vars(Boot) /\ WF_vars(Load_runtime_settings_overrides)
FairSpec == Spec /\ Fairness
-----------------------------------------------------------------------------
(* Properties.                                                             *)

\* Type invariant: no value that pydantic refuses gets into the settings.
TypeOK ==
  /\ env \in [Keys -> Values]
  /\ phase \in {"down", "loading", "up"}
  /\ memory \in [Keys -> Values]
  /\ built \in [BuiltKeys -> Values]
  /\ stored \in [Keys -> Values \cup {None, Bad}]
  /\ update.pc \in {"off", "apply", "store", "auth", "limiter", "services"}
  /\ update.todo \in Seq([key: Keys, value: Values \cup {Bad}])
  /\ refused \in BOOLEAN /\ redis \in BOOLEAN
  /\ bounds \in [updates: Nat, stops: Nat, outages: Nat]

Quiet == phase = "up" /\ update = Off

\* What the running program acts on.
Effect(k) == IF k \in LiveKeys THEN memory[k] ELSE built[k]

\* Between updates, refused ones included, the settings object says what a
\* restart would load: neither is an update lost by a restart nor does one
\* bring back a value that was refused or replaced.
RestartChangesNothing == Quiet => \A k \in Keys : memory[k] = Overridden(k)

\* Unless an update has failed on its way, which the next good one or a
\* restart repairs, what is built from the settings has the values that
\* GET /v1/admin/settings reports.
InEffectUnlessRefused ==
  Quiet /\ ~refused => \A k \in Keys \ ImportedKeys : Effect(k) = memory[k]

\* Nothing that was ever stored keeps the server from starting, but for the
\* backend "redis", stored or in the environment, while Redis is away.
ServerComesBack ==
  phase = "down" ~>
    phase = "up" \/ LimiterFails(env) \/ LimiterFails([k \in Keys |-> Overridden(k)])

\* README "PUT /v1/admin/settings - admin-only runtime settings update":
\* after an update that succeeded every setting is in effect as reported.
UpdateTakesEffect ==
  Quiet /\ ~refused => \A k \in Keys : Effect(k) = memory[k]

\* Table, memory and effect agree.
SettingsAgree == RestartChangesNothing /\ InEffectUnlessRefused
=============================================================================
