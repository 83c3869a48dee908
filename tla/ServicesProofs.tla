--------------------------- MODULE ServicesProofs ---------------------------
(***************************************************************************)
(* Settings, alerts and schedules, for any settings and values, any limits *)
(* of the alerts, any schedules and intervals and any limit of a tick,     *)
(* however often the process dies and whatever the network loses.          *)
(***************************************************************************)
EXTENDS Services, ListsProofs, SequenceTheorems

-----------------------------------------------------------------------------
(* The runtime settings.                                                    *)

Item   == [key: Keys, value: Values \cup {Bad}]
Steps  == {"off", "apply", "store", "auth", "limiter", "services"}
Update == [pc: Steps, todo: Seq(Item)]
Bounds == [updates: Nat, stops: Nat, outages: Nat]

\* The variables are typed; only a server that is up has an update under way,
\* and one that applies or stores has a key to do.
SettingsTyped ==
  /\ env \in [Keys -> Values]
  /\ phase \in {"down", "loading", "up"}
  /\ memory \in [Keys -> Values]
  /\ built \in [BuiltKeys -> Values]
  /\ stored \in [Keys -> Values \cup {None, Bad}]
  /\ update \in Update
  /\ refused \in BOOLEAN /\ redis \in BOOLEAN
  /\ bounds \in Bounds
  /\ phase # "up" => update.pc = "off"
  /\ update.pc \in {"apply", "store"} => update.todo # << >>
  /\ update.pc = "off" => update = Off
  /\ update.pc = "store" => Head(update.todo).value # Bad

\* The settings object is what a restart would load, but for the key whose
\* new value is about to be stored.
MemoryFollows ==
  phase = "up" => \A k \in Keys :
    memory[k] = IF update.pc = "store" /\ k = Head(update.todo).key
                THEN Head(update.todo).value ELSE Overridden(k)

\* What has been built anew, with the update where it is.
BuiltFollows ==
  phase = "up" =>
    /\ update.pc = "off" /\ ~refused => \A k \in BuiltKeys \ ImportedKeys : built[k] = memory[k]
    /\ update.pc \in {"limiter", "services"} => \A k \in AuthKeys : built[k] = memory[k]
    /\ update.pc = "services" => \A k \in LimiterKeys : built[k] = memory[k]

SettingsInv == SettingsTyped /\ MemoryFollows /\ BuiltFollows

-----------------------------------------------------------------------------
\* What is built is built from keys, and each of these keys has its step.
LEMMA KeysCovered ==
  /\ AuthKeys \subseteq BuiltKeys /\ LimiterKeys \subseteq BuiltKeys
  /\ BuiltKeys \subseteq Keys
  /\ BuiltKeys \ ImportedKeys = AuthKeys \cup LimiterKeys \cup ServiceKeys
  /\ Keys \ ImportedKeys = LiveKeys \cup (BuiltKeys \ ImportedKeys)
BY ConstantsAssumption DEF Keys, BuiltKeys

LEMMA OffTyped == Off \in Update /\ Off.pc = "off"
<1>1. << >> \in Seq(Item)
  BY EmptySeq, Zenon
<1> QED
  BY <1>1 DEF Off, Update, Steps

LEMMA EnvTyped ==
  ASSUME NEW e \in Envs
  PROVE  e \in [Keys -> Values] /\ [k \in BuiltKeys |-> e[k]] \in [BuiltKeys -> Values]
<1>1. e \in [Keys -> Values]
  BY ConstantsAssumption
<1> QED
  BY <1>1, KeysCovered

\* A payload is a list of items, however long.
LEMMA PayloadTyped == ASSUME NEW p \in Payloads PROVE p \in Seq(Item)
<1>1. MaxPayload \in Nat /\ 1 .. MaxPayload \subseteq Nat
  BY ConstantsAssumption
<1>2. PICK n \in 1 .. MaxPayload : p \in [1 .. n -> Item]
  BY DEF Payloads, Item
<1> QED
  BY <1>1, <1>2, SeqDef

\* The item an update is at, and what is left after it.
LEMMA HeadTyped ==
  ASSUME update \in Update, update.todo # << >>
  PROVE  /\ Head(update.todo) \in Item /\ Tail(update.todo) \in Seq(Item)
         /\ Len(update.todo) # 1 => Tail(update.todo) # << >>
<1>1. update.todo \in Seq(Item)
  BY DEF Update
<1>2. /\ Head(update.todo) \in Item /\ Tail(update.todo) \in Seq(Item)
      /\ Len(Tail(update.todo)) = Len(update.todo) - 1
  BY <1>1, HeadTailProperties
<1>3. Len(update.todo) \in Nat \ {0}
  BY <1>1, EmptySeq
<1>4. Tail(update.todo) = << >> => Len(Tail(update.todo)) = 0
  BY EmptySeq
<1> QED
  BY <1>2, <1>3, <1>4

LEMMA OverriddenTyped ==
  ASSUME stored \in [Keys -> Values \cup {None, Bad}], env \in [Keys -> Values], NEW k \in Keys
  PROVE  Overridden(k) \in Values
BY DEF Overridden

LEMMA RebuiltTyped ==
  ASSUME memory \in [Keys -> Values], built \in [BuiltKeys -> Values], NEW keys
  PROVE  Rebuilt(keys) \in [BuiltKeys -> Values]
BY KeysCovered DEF Rebuilt

-----------------------------------------------------------------------------
LEMMA SettingsStart == Init => SettingsInv
<1> SUFFICES ASSUME Init PROVE SettingsInv
  OBVIOUS
<1>1. stored \in [Keys -> Values \cup {None, Bad}]
  BY DEF Init
<1>2. bounds \in Bounds
  BY DEF Init, Bounds
<1>3. SettingsTyped
  BY <1>1, <1>2, OffTyped, EnvTyped DEF Init, SettingsTyped
<1> QED
  BY <1>3 DEF Init, SettingsInv, MemoryFollows, BuiltFollows

\* The handler's loop over the keys.
LEMMA LoopKeeps ==
  SettingsInv /\ (Refuse \/ Apply_runtime_setting \/ Upsert_setting) => SettingsInv'
<1> SUFFICES ASSUME SettingsInv, Refuse \/ Apply_runtime_setting \/ Upsert_setting PROVE SettingsInv'
  OBVIOUS
<1>1. /\ phase = "up" /\ update \in Update /\ update.todo # << >>
      /\ env' = env /\ phase' = phase /\ built' = built /\ bounds' = bounds /\ redis' = redis
  BY DEF SettingsInv, SettingsTyped, Refuse, Apply_runtime_setting, Upsert_setting, Update, Steps
<1> DEFINE item == Head(update.todo)
<1>2. item \in Item /\ item.key \in Keys /\ item.value \in Values \cup {Bad}
  BY <1>1, HeadTyped DEF Item
<1> HIDE DEF item
<1>3. CASE Refuse
  <2>1. update' = Off /\ refused' = TRUE /\ memory' = memory /\ stored' = stored
        /\ update.pc = "apply"
    BY <1>3 DEF Refuse
  <2>2. SettingsTyped'
    BY <1>1, <2>1, OffTyped DEF SettingsInv, SettingsTyped
  <2>3. MemoryFollows'
    BY <1>1, <2>1, OffTyped DEF SettingsInv, MemoryFollows, Overridden
  <2>4. BuiltFollows'
    BY <1>1, <2>1, OffTyped DEF BuiltFollows
  <2> QED
    BY <2>2, <2>3, <2>4 DEF SettingsInv
<1>4. CASE Apply_runtime_setting
  <2>1. /\ memory' = [memory EXCEPT ![item.key] = item.value] /\ item.value # Bad
        /\ update' = [update EXCEPT !.pc = "store"] /\ update.pc = "apply"
        /\ stored' = stored /\ refused' = refused
    BY <1>4 DEF Apply_runtime_setting, item
  <2>2. update' \in Update /\ update'.pc = "store" /\ update'.todo = update.todo
    BY <1>1, <2>1 DEF Update, Steps
  <2>3. memory' \in [Keys -> Values]
    BY <1>2, <2>1 DEF SettingsInv, SettingsTyped
  <2>4. SettingsTyped'
    BY <1>1, <2>1, <2>2, <2>3 DEF SettingsInv, SettingsTyped, item
  <2>5. MemoryFollows'
    <3>1. \A k \in Keys : memory[k] = Overridden(k)
      BY <1>1, <2>1 DEF SettingsInv, MemoryFollows
    <3>2. \A k \in Keys : memory'[k] = IF k = item.key THEN item.value ELSE Overridden(k)
      BY <1>2, <2>1, <3>1 DEF SettingsInv, SettingsTyped
    <3> QED
      BY <1>1, <2>1, <2>2, <3>2 DEF MemoryFollows, Overridden, item
  <2>6. BuiltFollows'
    BY <2>2 DEF BuiltFollows
  <2> QED
    BY <2>4, <2>5, <2>6 DEF SettingsInv
<1>5. CASE Upsert_setting
  <2>1. /\ stored' = [stored EXCEPT ![item.key] = item.value] /\ update.pc = "store"
        /\ update' = [pc |-> IF Len(update.todo) = 1 THEN "auth" ELSE "apply",
                      todo |-> Tail(update.todo)]
        /\ memory' = memory /\ refused' = refused
    BY <1>5 DEF Upsert_setting, item
  <2>2. item.value # Bad /\ item.value \in Values
    BY <1>2, <2>1 DEF SettingsInv, SettingsTyped, item
  <2>3. /\ update' \in Update /\ update'.pc \in {"auth", "apply"}
        /\ update'.pc = "apply" => update'.todo # << >>
    BY <1>1, <2>1, HeadTyped DEF Update, Steps
  <2>4. stored' \in [Keys -> Values \cup {None, Bad}]
    BY <1>2, <2>1, <2>2 DEF SettingsInv, SettingsTyped
  <2>5. SettingsTyped'
    BY <1>1, <2>1, <2>3, <2>4 DEF SettingsInv, SettingsTyped
  <2>6. MemoryFollows'
    <3>1. \A k \in Keys : memory[k] = IF k = item.key THEN item.value ELSE Overridden(k)
      BY <1>1, <2>1 DEF SettingsInv, MemoryFollows, item
    <3>2. item.value \notin {None, Bad}
      BY <2>2, ConstantsAssumption
    <3>3. \A k \in Keys : Overridden(k)' = IF k = item.key THEN item.value ELSE Overridden(k)
      BY <1>1, <1>2, <2>1, <3>2 DEF SettingsInv, SettingsTyped, Overridden
    <3> QED
      BY <2>1, <2>3, <3>1, <3>3 DEF MemoryFollows
  <2>7. BuiltFollows'
    BY <2>3 DEF BuiltFollows
  <2> QED
    BY <2>5, <2>6, <2>7 DEF SettingsInv
<1> QED
  BY <1>3, <1>4, <1>5

\* The steps that build anew what was built from the settings.
LEMMA RefreshKeeps ==
  SettingsInv /\ (RefreshAuth \/ RefreshLimiter \/ RefreshServices) => SettingsInv'
<1> SUFFICES ASSUME SettingsInv, RefreshAuth \/ RefreshLimiter \/ RefreshServices PROVE SettingsInv'
  OBVIOUS
<1>1. /\ phase = "up" /\ update \in Update /\ memory \in [Keys -> Values]
      /\ built \in [BuiltKeys -> Values]
      /\ UNCHANGED <<env, phase, memory, stored, redis, bounds>>
  BY DEF SettingsInv, SettingsTyped, RefreshAuth, RefreshLimiter, RefreshServices
<1>2. \A keys : \A k \in BuiltKeys :
        Rebuilt(keys)[k] = IF k \in keys THEN memory[k] ELSE built[k]
  BY DEF Rebuilt
<1>3. update.pc # "store" /\ \A k \in Keys : memory[k] = Overridden(k)
  BY <1>1 DEF SettingsInv, MemoryFollows, RefreshAuth, RefreshLimiter, RefreshServices
<1>4. ASSUME update'.pc # "store" PROVE MemoryFollows'
  BY <1>1, <1>3, <1>4 DEF MemoryFollows, Overridden
<1>5. CASE RefreshAuth
  <2>1. built' = Rebuilt(AuthKeys) /\ update' = [update EXCEPT !.pc = "limiter"]
        /\ refused' = refused
    BY <1>5 DEF RefreshAuth
  <2>2. update' \in Update /\ update'.pc = "limiter"
    BY <1>1, <2>1 DEF Update, Steps
  <2>3. built' \in [BuiltKeys -> Values]
    BY <1>1, <2>1, RebuiltTyped
  <2>4. SettingsTyped'
    BY <1>1, <2>1, <2>2, <2>3 DEF SettingsInv, SettingsTyped
  <2>5. BuiltFollows'
    BY <1>1, <1>2, <2>1, <2>2, KeysCovered DEF BuiltFollows
  <2> QED
    BY <1>4, <2>2, <2>4, <2>5 DEF SettingsInv
<1>6. CASE RefreshLimiter /\ LimiterFails(memory)
  <2>1. update' = Off /\ refused' = TRUE /\ built' = built
    BY <1>6 DEF RefreshLimiter
  <2>2. SettingsTyped'
    BY <1>1, <2>1, OffTyped DEF SettingsInv, SettingsTyped
  <2>3. BuiltFollows'
    BY <2>1, OffTyped DEF BuiltFollows
  <2> QED
    BY <1>4, <2>1, <2>2, <2>3, OffTyped DEF SettingsInv
<1>7. CASE RefreshLimiter /\ ~LimiterFails(memory)
  <2>1. built' = Rebuilt(LimiterKeys) /\ update' = [update EXCEPT !.pc = "services"]
        /\ refused' = refused /\ update.pc = "limiter"
    BY <1>7 DEF RefreshLimiter
  <2>2. update' \in Update /\ update'.pc = "services"
    BY <1>1, <2>1 DEF Update, Steps
  <2>3. built' \in [BuiltKeys -> Values]
    BY <1>1, <2>1, RebuiltTyped
  <2>4. SettingsTyped'
    BY <1>1, <2>1, <2>2, <2>3 DEF SettingsInv, SettingsTyped
  <2>5. \A k \in AuthKeys : built[k] = memory[k]
    BY <1>1, <2>1 DEF SettingsInv, BuiltFollows
  <2>6. BuiltFollows'
    BY <1>1, <1>2, <2>1, <2>2, <2>5, KeysCovered DEF BuiltFollows
  <2> QED
    BY <1>4, <2>2, <2>4, <2>6 DEF SettingsInv
<1>8. CASE RefreshServices
  <2>1. built' = Rebuilt(ServiceKeys) /\ update' = Off /\ refused' = FALSE
        /\ update.pc = "services"
    BY <1>8 DEF RefreshServices
  <2>2. built' \in [BuiltKeys -> Values]
    BY <1>1, <2>1, RebuiltTyped
  <2>3. SettingsTyped'
    BY <1>1, <2>1, <2>2, OffTyped DEF SettingsInv, SettingsTyped
  <2>4. \A k \in AuthKeys \cup LimiterKeys : built[k] = memory[k]
    BY <1>1, <2>1 DEF SettingsInv, BuiltFollows
  <2>5. \A k \in BuiltKeys \ ImportedKeys : built'[k] = memory[k]
    BY <1>2, <2>1, <2>4, KeysCovered
  <2>6. BuiltFollows'
    BY <1>1, <2>1, <2>5, OffTyped DEF BuiltFollows
  <2> QED
    BY <1>4, <2>1, <2>3, <2>6, OffTyped DEF SettingsInv
<1> QED
  BY <1>5, <1>6, <1>7, <1>8

LEMMA SettingsKeep == SettingsInv /\ [Next]_vars => SettingsInv'
<1> SUFFICES ASSUME SettingsInv, [Next]_vars PROVE SettingsInv'
  OBVIOUS
<1>1. CASE \E payload \in Payloads : BeginUpdate(payload)
  <2>1. PICK payload \in Payloads : BeginUpdate(payload)
    BY <1>1
  <2>2. /\ payload \in Seq(Item) /\ payload # << >> /\ phase = "up" /\ update.pc = "off"
        /\ update' = [pc |-> "apply", todo |-> payload]
        /\ bounds' = [bounds EXCEPT !["updates"] = @ + 1]
        /\ UNCHANGED <<env, phase, memory, built, stored, refused, redis>>
    BY <2>1, PayloadTyped, OffTyped DEF BeginUpdate, Count
  <2>3. update' \in Update /\ bounds' \in Bounds
    BY <2>2 DEF SettingsInv, SettingsTyped, Update, Steps, Bounds
  <2> QED
    BY <2>2, <2>3 DEF SettingsInv, SettingsTyped, MemoryFollows, BuiltFollows, Overridden
<1>2. CASE Admin_update_settings
  BY <1>2, LoopKeeps, RefreshKeeps DEF Admin_update_settings
<1>3. CASE Crash
  <2>1. bounds' \in Bounds
    BY <1>3 DEF SettingsInv, SettingsTyped, Crash, Count, Bounds
  <2> QED
    BY <1>3, <2>1, OffTyped DEF Crash, SettingsInv, SettingsTyped, MemoryFollows, BuiltFollows
<1>4. CASE Boot
  <2>1. /\ phase' = "loading" /\ memory' = env /\ built' = [k \in BuiltKeys |-> env[k]]
        /\ refused' = FALSE /\ phase = "down"
        /\ UNCHANGED <<env, stored, update, redis, bounds>>
    BY <1>4 DEF Boot
  <2>2. env \in [Keys -> Values] /\ built' \in [BuiltKeys -> Values]
    BY <2>1, KeysCovered DEF SettingsInv, SettingsTyped
  <2> QED
    BY <2>1, <2>2 DEF SettingsInv, SettingsTyped, MemoryFollows, BuiltFollows
<1>5. CASE Load_runtime_settings_overrides
  <2>1. /\ memory' = [k \in Keys |-> Overridden(k)] /\ update.pc = "off" /\ update' = update
        /\ UNCHANGED <<env, stored, refused, redis, bounds>>
    BY <1>5 DEF SettingsInv, SettingsTyped, Load_runtime_settings_overrides
  <2>2. memory' \in [Keys -> Values]
    BY <2>1, OverriddenTyped DEF SettingsInv, SettingsTyped
  <2>3. \/ phase' = "down" /\ built' = built
        \/ /\ phase' = "up"
           /\ built' = [k \in BuiltKeys |-> IF k \in ImportedKeys THEN built[k] ELSE memory'[k]]
    BY <1>5 DEF Load_runtime_settings_overrides
  <2>4. built' \in [BuiltKeys -> Values]
    BY <2>2, <2>3, KeysCovered DEF SettingsInv, SettingsTyped
  <2>5. SettingsTyped'
    BY <2>1, <2>2, <2>3, <2>4 DEF SettingsInv, SettingsTyped
  <2>6. MemoryFollows'
    BY <2>1 DEF MemoryFollows, Overridden
  <2>7. BuiltFollows'
    BY <2>1, <2>3 DEF BuiltFollows
  <2> QED
    BY <2>5, <2>6, <2>7 DEF SettingsInv
<1>6. CASE Outage
  <2>1. bounds' \in Bounds
    BY <1>6 DEF SettingsInv, SettingsTyped, Outage, Count, Bounds
  <2>2. redis' \in BOOLEAN /\ UNCHANGED <<env, phase, memory, built, stored, update, refused>>
    BY <1>6, Zenon DEF Outage
  <2> QED
    BY <2>1, <2>2 DEF SettingsInv, SettingsTyped, MemoryFollows, BuiltFollows, Overridden
<1>7. CASE UNCHANGED vars
  BY <1>7 DEF vars, SettingsInv, SettingsTyped, MemoryFollows, BuiltFollows, Overridden
<1> QED
  BY <1>1, <1>2, <1>3, <1>4, <1>5, <1>6, <1>7 DEF Next

LEMMA SettingsInvariant == Spec => []SettingsInv
BY SettingsStart, SettingsKeep, PTL DEF Spec

\* No value that the settings' types refuse gets into the settings object or
\* what is built from it.
THEOREM SettingsTypeCorrect == Spec => []TypeOK
<1>1. SettingsInv => TypeOK
  BY DEF SettingsInv, SettingsTyped, TypeOK, Update, Steps, Item, Bounds
<1> QED
  BY <1>1, SettingsInvariant, PTL

\* Between updates a restart changes nothing, and unless an update has failed
\* on its way everything built from settings has the values reported.
THEOREM SettingsAgreement == Spec => []SettingsAgree
<1>1. SettingsInv => RestartChangesNothing
  BY OffTyped DEF SettingsInv, MemoryFollows, RestartChangesNothing, Quiet
<1>2. SettingsInv => InEffectUnlessRefused
  BY OffTyped, KeysCovered
     DEF SettingsInv, BuiltFollows, InEffectUnlessRefused, Quiet, Effect
<1> QED
  BY <1>1, <1>2, SettingsInvariant, PTL DEF SettingsAgree

-----------------------------------------------------------------------------
(* Alerts.                                                                  *)

\* What a pause takes at most.
Slot == Webhook!MaxWait + 1

\* Before each attempt stands one pause less than there were attempts, and none
\* after the last; after an answer that settles the matter notify_audit returns.
AlertInv ==
  /\ configured \in [attempts : Attempts, base : Waits, max : Waits, url : BOOLEAN]
  /\ Webhook!TypeOK
  /\ pc = "called" => attempt = 0 /\ slept = 0
  /\ pc = "sending" => attempt < Webhook!MaxAttempts /\ slept <= attempt * Slot
  /\ pc = "pausing" => /\ attempt \in 1 .. Webhook!MaxAttempts - 1
                       /\ slept + Slot <= attempt * Slot
  /\ slept + Slot <= Webhook!MaxAttempts * Slot
  /\ alerts \subseteq {1}
  /\ heard => pc = "returned"

\* The greater and the lesser of two numbers.
LEMMA MaxMinOfTwo ==
  ASSUME NEW a \in Int, NEW b \in Int
  PROVE  /\ Webhook!Max({a, b}) \in {a, b}
         /\ Webhook!Max({a, b}) >= a /\ Webhook!Max({a, b}) >= b
         /\ Webhook!Min({a, b}) \in {a, b}
         /\ Webhook!Min({a, b}) <= a /\ Webhook!Min({a, b}) <= b
<1>1. \E x \in {a, b} : \A y \in {a, b} : x >= y
  OBVIOUS
<1>2. \E x \in {a, b} : \A y \in {a, b} : x <= y
  OBVIOUS
<1>3. Webhook!Max({a, b}) \in {a, b} /\ \A y \in {a, b} : Webhook!Max({a, b}) >= y
  BY <1>1 DEF Webhook!Max
<1>4. Webhook!Min({a, b}) \in {a, b} /\ \A y \in {a, b} : Webhook!Min({a, b}) <= y
  BY <1>2 DEF Webhook!Min
<1>5. QED
  BY <1>3, <1>4

\* A power of two is a number that is not negative: there are as many sets of
\* exponents.
LEMMA PowerOfTwo ==
  ASSUME NEW n \in Nat
  PROVE  2 ^ n \in Nat
<1>1. IsFiniteSet(1 .. n) /\ Cardinality(1 .. n) = n
  BY FS_Interval
<1>2. IsFiniteSet(SUBSET (1 .. n)) /\ Cardinality(SUBSET (1 .. n)) = 2 ^ n
  BY <1>1, FS_SUBSET
<1>3. QED
  BY <1>2, FS_CardinalityType

\* What the settings of an alert come to, whatever they are.
LEMMA AlertNumbers ==
  ASSUME configured \in [attempts : Attempts, base : Waits, max : Waits, url : BOOLEAN]
  PROVE  /\ Webhook!MaxAttempts \in Nat \ {0}
         /\ Webhook!BaseWait \in Nat /\ Webhook!MaxWait \in Nat
         /\ Slot \in Nat /\ Slot = Webhook!MaxWait + 1
<1>1. Attempts \subseteq Int /\ Waits \subseteq Nat
  BY WebhooksAssumption DEF Webhook!WebhookAssumption
<1>2. configured.attempts \in Int /\ configured.base \in Nat /\ configured.max \in Nat
  BY <1>1
<1>3. Webhook!MaxAttempts \in Nat \ {0}
  <2>1. PICK a \in Int : a = configured.attempts
    BY <1>2
  <2>2. Webhook!Max({1, a}) \in {1, a} /\ Webhook!Max({1, a}) >= 1
    BY MaxMinOfTwo
  <2>3. QED
    BY <2>1, <2>2 DEF Webhook!MaxAttempts
<1>4. Webhook!BaseWait \in Nat
  BY <1>2 DEF Webhook!BaseWait
<1>5. Webhook!MaxWait \in Nat
  <2>1. PICK a \in Nat, b \in Nat : a = Webhook!BaseWait /\ b = configured.max
    BY <1>2, <1>4
  <2>2. Webhook!Max({a, b}) \in {a, b}
    BY MaxMinOfTwo, a \in Int, b \in Int
  <2>3. QED
    BY <2>1, <2>2 DEF Webhook!MaxWait
<1>6. QED
  BY <1>1, <1>3, <1>4, <1>5 DEF Slot

\* More of the same number is not less.
LEMMA ProductGrows ==
  ASSUME NEW a \in Nat, NEW b \in Nat, NEW c \in Nat, a <= b
  PROVE  a * c <= b * c /\ a * c \in Nat /\ b * c \in Nat
  OBVIOUS

LEMMA BoundGrows ==
  ASSUME NEW a \in Nat, NEW b \in Nat, NEW c \in Nat, NEW x \in Nat, a <= b, x <= a * c
  PROVE  x <= b * c
<1>1. a * c <= b * c
  BY ProductGrows
<1>2. PICK p \in Nat : p = a * c
  BY ProductGrows
<1>3. PICK q \in Nat : q = b * c
  BY ProductGrows
<1>4. x <= p /\ p <= q
  BY <1>1, <1>2, <1>3
<1>5. x <= q
  BY <1>4
<1>6. QED
  BY <1>3, <1>5

LEMMA AlertStarts == Webhook!Init => AlertInv
<1> SUFFICES ASSUME Webhook!Init PROVE AlertInv
  OBVIOUS
<1>1. configured \in [attempts : Attempts, base : Waits, max : Waits, url : BOOLEAN]
  BY DEF Webhook!Init
<1>2. /\ pc = "called" /\ attempt = 0 /\ slept = 0 /\ alerts = {} /\ heard = FALSE
  BY DEF Webhook!Init
<1>3. Webhook!TypeOK
  BY <1>1, <1>2, AlertNumbers DEF Webhook!TypeOK
<1>4. slept + Slot <= Webhook!MaxAttempts * Slot
  <2>1. PICK m \in Nat \ {0}, w \in Nat, s \in Nat :
          /\ m = Webhook!MaxAttempts /\ w = Webhook!MaxWait /\ s = Slot /\ s >= w + 1
    BY <1>1, AlertNumbers
  <2>2. m * s >= s
    BY <2>1
  <2>3. QED
    BY <1>2, <2>1, <2>2
<1>5. QED
  BY <1>1, <1>2, <1>3, <1>4 DEF AlertInv

LEMMA NotifyKeeps ==
  ASSUME AlertInv, Webhook!Notify_audit
  PROVE  AlertInv'
<1>1. /\ pc = "called" /\ pc' \in {"sending", "returned"}
      /\ UNCHANGED <<configured, findings, attempt, slept, received, alerts, heard>>
  BY DEF Webhook!Notify_audit
<1>2. /\ attempt = 0 /\ slept = 0
      /\ Webhook!MaxAttempts \in Nat \ {0} /\ Slot \in Nat
  BY <1>1, AlertNumbers DEF AlertInv
<1>3. /\ Webhook!MaxAttempts' = Webhook!MaxAttempts /\ Webhook!MaxWait' = Webhook!MaxWait
      /\ Slot' = Slot
  BY <1>1 DEF Webhook!MaxAttempts, Webhook!MaxWait, Webhook!BaseWait, Slot
<1>4. Webhook!TypeOK'
  BY <1>1, <1>3 DEF AlertInv, Webhook!TypeOK, Webhook!Ends
<1>5. pc' = "sending" => attempt' < Webhook!MaxAttempts' /\ slept' <= attempt' * Slot'
  BY <1>1, <1>2, <1>3
<1>6. QED
  BY <1>1, <1>3, <1>4, <1>5 DEF AlertInv

\* An attempt is one of those allowed, and a pause follows only if another is.
LEMMA PostKeeps ==
  ASSUME AlertInv, Webhook!Post
  PROVE  AlertInv' /\ ~ heard
<1>1. /\ pc = "sending" /\ attempt' = attempt + 1 /\ configured' = configured
      /\ slept' = slept
      /\ alerts' = alerts \/ alerts' = alerts \cup {1}
      /\ \/ pc' = Webhook!Retry(attempt + 1) /\ heard' = heard
         \/ pc' \in {"raised", "stalled"} /\ heard' = heard
         \/ pc' = "returned"
  BY DEF Webhook!Post, Webhook!Key
<1>2. /\ Webhook!MaxAttempts' = Webhook!MaxAttempts /\ Webhook!MaxWait' = Webhook!MaxWait
      /\ Slot' = Slot
  BY <1>1 DEF Webhook!MaxAttempts, Webhook!MaxWait, Webhook!BaseWait, Slot
<1>3. PICK m \in Nat \ {0}, w \in Nat, s \in Nat :
        m = Webhook!MaxAttempts /\ w = Webhook!MaxWait /\ s = Slot /\ s = w + 1
  BY AlertNumbers DEF AlertInv
<1>4. attempt \in Nat /\ slept \in Nat /\ attempt < m /\ slept <= attempt * s /\ ~ heard
  BY <1>1, <1>3 DEF AlertInv, Webhook!TypeOK, Webhook!Ends
<1>5. attempt' \in 1 .. m /\ slept' \in Nat
  BY <1>1, <1>3, <1>4
<1>6. slept' + s <= attempt' * s
  <2>1. (attempt + 1) * s = attempt * s + s /\ attempt * s \in Nat
    BY <1>3, <1>4
  <2>2. slept' + s <= attempt * s + s
    BY <1>1, <1>3, <1>4, <2>1
  <2>3. QED
    BY <1>1, <2>1, <2>2
<1>7. slept' + s <= m * s
  <2>1. PICK n \in Nat : n = attempt' /\ n <= m
    BY <1>3, <1>5
  <2>2. PICK x \in Nat : x = slept' + s
    <3>1. PICK c \in Nat : c = slept'
      BY <1>5
    <3>2. c + s \in Nat
      BY <1>3
    <3>3. QED
      BY <3>1, <3>2
  <2>3. x <= n * s
    BY ONLY <1>6, <2>1, <2>2
  <2>4. x <= m * s
    BY <1>3, <2>1, <2>3, BoundGrows
  <2>5. QED
    BY ONLY <2>2, <2>4
<1>8. /\ pc' \in {"pausing", "exhausted", "returned", "raised", "stalled"}
      /\ pc' = "pausing" => attempt' \in 1 .. m - 1
      /\ heard' => pc' = "returned"
  BY <1>1, <1>3, <1>4 DEF Webhook!Retry
<1>9. Webhook!TypeOK'
  <2>1. alerts' \subseteq {1}
    BY <1>1 DEF AlertInv
  <2>2. attempt' \in 0 .. m /\ 1 \in 1 .. m
    BY <1>3, <1>5
  <2>3. QED
    BY <1>2, <1>3, <1>5, <1>8, <2>1, <2>2 DEF Webhook!TypeOK, Webhook!Ends
<1>10. QED
  BY <1>1, <1>2, <1>3, <1>4, <1>6, <1>7, <1>8, <1>9 DEF AlertInv

\* A pause is as long as MaxWait and a quarter of a second at most.
LEMMA PauseKeeps ==
  ASSUME AlertInv, Webhook!Pause
  PROVE  AlertInv'
<1> DEFINE wait == Webhook!Min({Webhook!MaxWait, Webhook!BaseWait * 2 ^ (attempt - 1)})
<1>1. /\ pc = "pausing" /\ pc' = "sending"
      /\ \E jitter \in 0 .. Webhook!Min({1, wait}) : slept' = slept + wait + jitter
      /\ UNCHANGED <<configured, findings, attempt, received, alerts, heard>>
  BY DEF Webhook!Pause
<1>2. /\ Webhook!MaxAttempts' = Webhook!MaxAttempts /\ Webhook!MaxWait' = Webhook!MaxWait
      /\ Slot' = Slot
  BY <1>1 DEF Webhook!MaxAttempts, Webhook!MaxWait, Webhook!BaseWait, Slot
<1>3. PICK m \in Nat \ {0}, w \in Nat, s \in Nat, base \in Nat :
        /\ m = Webhook!MaxAttempts /\ w = Webhook!MaxWait /\ s = Slot
        /\ s = w + 1 /\ base = Webhook!BaseWait
  BY AlertNumbers DEF AlertInv
<1>4. attempt \in 1 .. m - 1 /\ slept \in Nat /\ slept + s <= attempt * s
  BY <1>1, <1>3 DEF AlertInv, Webhook!TypeOK, Webhook!Ends
<1>5. wait \in Nat /\ wait <= w
  <2>1. 2 ^ (attempt - 1) \in Nat
    <3>1. attempt - 1 \in Nat
      BY <1>3, <1>4
    <3>2. QED
      BY <3>1, PowerOfTwo
  <2>2. base * 2 ^ (attempt - 1) \in Nat
    BY <1>3, <2>1
  <2>3. PICK x \in Nat : x = base * 2 ^ (attempt - 1)
    BY <2>2
  <2>4. Webhook!Min({w, x}) \in {w, x} /\ Webhook!Min({w, x}) <= w
    BY <1>3, MaxMinOfTwo, w \in Int, x \in Int
  <2>5. wait = Webhook!Min({w, x})
    BY <1>3, <2>3
  <2>6. QED
    BY <2>4, <2>5, <1>3
<1> HIDE DEF wait
<1>6. Webhook!Min({1, wait}) <= 1
  BY <1>5, MaxMinOfTwo
<1>7. slept' \in Nat /\ slept' <= slept + s
  <2>1. Webhook!Min({1, wait}) \in {1, wait}
    BY <1>5, MaxMinOfTwo
  <2>2. PICK jitter \in 0 .. Webhook!Min({1, wait}) : slept' = slept + wait + jitter
    BY <1>1
  <2>3. jitter \in 0 .. 1
    BY <2>1, <1>5, <1>6
  <2>4. QED
    BY <2>2, <2>3, <1>3, <1>4, <1>5
<1>8. slept' <= attempt * s /\ attempt < m /\ attempt * s \in Nat
  BY <1>3, <1>4, <1>7
<1>9. slept' + s <= m * s
  <2>1. (attempt + 1) * s = attempt * s + s /\ attempt + 1 <= m /\ attempt + 1 \in Nat
    BY <1>3, <1>4
  <2>2. slept' + s <= attempt * s + s
    BY <1>3, <1>7, <1>8
  <2>3. PICK n \in Nat : n = attempt + 1 /\ n <= m
    BY <2>1
  <2>4. PICK x \in Nat : x = slept' + s
    <3>1. PICK c \in Nat : c = slept'
      BY <1>7
    <3>2. c + s \in Nat
      BY <1>3
    <3>3. QED
      BY <3>1, <3>2
  <2>5. x <= (attempt + 1) * s
    BY <2>1, <2>2, <2>4
  <2>6. x <= n * s
    BY ONLY <2>3, <2>5
  <2>7. x <= m * s
    BY <1>3, <2>3, <2>6, BoundGrows
  <2>8. QED
    BY ONLY <2>4, <2>7
<1>10. Webhook!TypeOK'
  BY <1>1, <1>2, <1>7 DEF AlertInv, Webhook!TypeOK, Webhook!Ends
<1>11. QED
  BY <1>1, <1>2, <1>3, <1>8, <1>9, <1>10 DEF AlertInv

\* A step that makes no attempt leaves the receiver alone.
LEMMA AlertKeeps ==
  ASSUME AlertInv, [Webhook!Next]_Webhook!vars
  PROVE  AlertInv' /\ (heard => received' = received)
<1>1. CASE UNCHANGED Webhook!vars
  <2>1. UNCHANGED <<configured, findings, pc, attempt, slept, received, alerts, heard>>
    BY <1>1 DEF Webhook!vars
  <2>2. /\ Webhook!MaxAttempts' = Webhook!MaxAttempts /\ Webhook!MaxWait' = Webhook!MaxWait
        /\ Slot' = Slot
    BY <2>1 DEF Webhook!MaxAttempts, Webhook!MaxWait, Webhook!BaseWait, Slot
  <2>3. QED
    BY <2>1, <2>2 DEF AlertInv, Webhook!TypeOK, Webhook!Ends
<1>2. CASE Webhook!Notify_audit
  BY <1>2, NotifyKeeps DEF Webhook!Notify_audit
<1>3. CASE Webhook!Post
  BY <1>3, PostKeeps
<1>4. CASE Webhook!Pause
  BY <1>4, PauseKeeps DEF Webhook!Pause
<1>5. CASE Webhook!Crash
  <2>1. /\ pc # "returned" /\ pc' = "dead"
        /\ UNCHANGED <<configured, findings, attempt, slept, received, alerts, heard>>
    BY <1>5 DEF Webhook!Crash
  <2>2. /\ Webhook!MaxAttempts' = Webhook!MaxAttempts /\ Webhook!MaxWait' = Webhook!MaxWait
        /\ Slot' = Slot
    BY <2>1 DEF Webhook!MaxAttempts, Webhook!MaxWait, Webhook!BaseWait, Slot
  <2>3. QED
    BY <2>1, <2>2 DEF AlertInv, Webhook!TypeOK, Webhook!Ends
<1>6. CASE Webhook!Terminated
  <2>1. UNCHANGED Webhook!vars
    BY <1>6 DEF Webhook!Terminated
  <2>2. QED
    BY <2>1, <1>1
<1>7. QED
  BY <1>1, <1>2, <1>3, <1>4, <1>5, <1>6 DEF Webhook!Next

\* One alert at most, and the bound on the pauses.
LEMMA AlertInvBounds == AlertInv => Webhook!OneAlertPerAudit /\ Webhook!PausesAreBounded
<1> SUFFICES ASSUME AlertInv PROVE Webhook!OneAlertPerAudit /\ Webhook!PausesAreBounded
  OBVIOUS
<1>1. Cardinality(alerts) <= 1
  <2>1. alerts = {} \/ alerts = {1}
    BY DEF AlertInv
  <2>2. Cardinality({}) = 0 /\ Cardinality({1}) = 1
    BY FS_EmptySet, FS_Singleton
  <2>3. QED
    BY <2>1, <2>2
<1>2. Webhook!Cardinality(alerts) = Cardinality(alerts)
  BY DEF Webhook!Cardinality, Cardinality
<1>3. Webhook!PausesAreBounded
  <2>1. PICK m \in Nat \ {0}, w \in Nat, s \in Nat :
          m = Webhook!MaxAttempts /\ w = Webhook!MaxWait /\ s = Slot /\ s = w + 1
    BY AlertNumbers DEF AlertInv
  <2>2. slept \in Nat /\ slept + s <= m * s
    BY <2>1 DEF AlertInv, Webhook!TypeOK, Webhook!Ends
  <2>3. (m - 1) * s = m * s - s /\ m * s \in Nat
    BY <2>1
  <2>4. slept <= (m - 1) * s
    BY <2>1, <2>2, <2>3
  <2>5. QED
    BY <2>1, <2>4 DEF Webhook!PausesAreBounded
<1>4. QED
  BY <1>1, <1>2, <1>3 DEF Webhook!OneAlertPerAudit

LEMMA AlertInvariant == Webhook!Spec => []AlertInv
<1>1. AlertInv /\ [Webhook!Next]_(Webhook!vars) => AlertInv'
  BY AlertKeeps
<1> QED
  BY <1>1, AlertStarts, PTL DEF Webhook!Spec

\* The state of an alert has its types.
THEOREM AlertsTypeCorrect == Webhook!Spec => []Webhook!TypeOK
<1>1. AlertInv => Webhook!TypeOK
  BY DEF AlertInv
<1> QED
  BY <1>1, AlertInvariant, PTL

\* Whatever is lost, repeated or raised, an audit raises one alert, its thread
\* sleeps no longer than the pauses between the attempts, each capped, come to,
\* and a receiver that has settled the matter is left alone: what AlertedOnce
\* says but for its liveness part.
THEOREM AlertsOnce ==
  Webhook!Spec => [](Webhook!OneAlertPerAudit /\ Webhook!PausesAreBounded)
                  /\ Webhook!SettledIsSettled
<1>1. AlertInv => Webhook!OneAlertPerAudit /\ Webhook!PausesAreBounded
  BY AlertInvBounds
<1>2. AlertInv /\ [Webhook!Next]_(Webhook!vars)
        => [heard => received' = received]_(Webhook!vars)
  BY AlertKeeps
<1> QED
  BY <1>1, <1>2, AlertInvariant, PTL DEF Webhook!Spec, Webhook!SettledIsSettled

-----------------------------------------------------------------------------
(* Schedules.                                                               *)

\* No element stands in the list twice.
Distinct(list) == \A i, j \in DOMAIN list : list[i] = list[j] => i = j

\* From where on the tick has not submitted the rows of due yet.
Undone == IF at = "mark" THEN 2 .. Len(due) ELSE 1 .. Len(due)

ScheduleTypes ==
  /\ Scheduler!TypeOK
  /\ left \in [Schedules -> Nat]
  /\ at # "waiting" => due # << >>

\* The rows that are overdue are there once, have a row in the table and no time
\* left; so a tick lists each of them once.
OverdueOnce ==
  /\ Distinct(overdue)
  /\ \A i \in DOMAIN overdue : left[overdue[i]] = 0 /\ status[overdue[i]] # "absent"
  /\ Distinct(due)

\* A row that was paused, and that the tick has still to submit, has not been
\* dispatched since.
PausedNotYet ==
  \A k \in Undone : status[due[k]] = "paused" => late[due[k]] = 0

ScheduleInv ==
  /\ ScheduleTypes
  /\ OverdueOnce
  /\ Scheduler!PauseHolds
  /\ Scheduler!PausedRunsAtMostOnce
  /\ PausedNotYet

-----------------------------------------------------------------------------

\* The scheduler's lists and sets are like any others.
LEMMA SameLists ==
  /\ \A S : (Scheduler!IsFiniteSet(S) <=> IsFiniteSet(S)) /\ Scheduler!Cardinality(S) = Cardinality(S)
  /\ \A list, S : Scheduler!AtPlaces(list, S) = AtPlaces(list, S)
<1>1. ASSUME NEW S PROVE Scheduler!IsFiniteSet(S) <=> IsFiniteSet(S)
  BY DEF Scheduler!IsFiniteSet, IsFiniteSet
<1>2. ASSUME NEW S PROVE Scheduler!Cardinality(S) = Cardinality(S)
  BY DEF Scheduler!Cardinality, Cardinality
<1>3. ASSUME NEW list, NEW S PROVE Scheduler!AtPlaces(list, S) = AtPlaces(list, S)
  BY DEF Scheduler!AtPlaces, AtPlaces, Scheduler!Place, Place, Scheduler!Rank, Rank,
    Scheduler!Cardinality, Cardinality
<1>4. QED
  BY <1>1, <1>2, <1>3

\* What the scheduler's constants are.
LEMMA ScheduleConstants ==
  /\ Limit \in Nat \ {0} /\ MaxTick \in Nat /\ MaxCrashes \in Nat
  /\ Interval \in [Schedules -> Nat \ {0}]
  /\ \A s \in Schedules : MaxTick < Interval[s]
  /\ IsFiniteSet(Schedules)
BY SchedulesAssumption, SameLists DEF Scheduler!ConstantsAssumption

\* Part of a list without repetitions is without repetitions.
LEMMA PartIsDistinct ==
  ASSUME NEW T, NEW list \in Seq(T), NEW S \in SUBSET DOMAIN list, Distinct(list)
  PROVE  /\ AtPlaces(list, S) \in Seq(T)
         /\ Distinct(AtPlaces(list, S))
         /\ \A k \in DOMAIN AtPlaces(list, S) : \E i \in S : AtPlaces(list, S)[k] = list[i]
<1> DEFINE part == AtPlaces(list, S)
<1>1. /\ part \in Seq(T) /\ Len(part) = Cardinality(S) /\ Cardinality(S) \in Nat
      /\ \A k \in 1 .. Cardinality(S) : Place(S, k) \in S /\ part[k] = list[Place(S, k)]
      /\ \A k, l \in 1 .. Cardinality(S) : k < l => Place(S, k) < Place(S, l)
  BY AtPlacesProperties
<1> HIDE DEF part
<1>2. DOMAIN part = 1 .. Cardinality(S)
  BY <1>1
<1>3. ASSUME NEW k \in DOMAIN part, NEW l \in DOMAIN part, part[k] = part[l] PROVE k = l
  <2>1. Place(S, k) = Place(S, l)
    BY <1>1, <1>2, <1>3 DEF Distinct
  <2>2. PICK p \in Nat : p = Place(S, k) /\ p = Place(S, l)
    BY <2>1, <1>1, <1>2
  <2>3. k \in Nat /\ l \in Nat /\ (k < l => p < p) /\ (l < k => p < p)
    <3>1. k \in 1 .. Cardinality(S) /\ l \in 1 .. Cardinality(S)
      BY <1>2
    <3>2. (k < l => Place(S, k) < Place(S, l)) /\ (l < k => Place(S, l) < Place(S, k))
      BY <3>1, <1>1
    <3>3. QED
      BY <2>2, <3>1, <3>2
  <2>4. QED
    BY <2>3
<1>4. QED
  BY <1>1, <1>2, <1>3 DEF Distinct, part

\* So is its beginning.
LEMMA BeginningIsDistinct ==
  ASSUME NEW T, NEW list \in Seq(T), NEW n \in 0 .. Len(list), Distinct(list)
  PROVE  /\ SubSeq(list, 1, n) \in Seq(T) /\ Len(SubSeq(list, 1, n)) = n
         /\ \A k \in 1 .. n : SubSeq(list, 1, n)[k] = list[k]
         /\ Distinct(SubSeq(list, 1, n))
<1> DEFINE part == SubSeq(list, 1, n)
<1>1. Len(list) \in Nat /\ n \in Int /\ \A i \in 1 .. n : list[i] \in T
  OBVIOUS
<1>2. /\ part \in Seq(T)
      /\ Len(part) = IF 1 <= n THEN n - 1 + 1 ELSE 0
      /\ \A i \in 1 .. n - 1 + 1 : part[i] = list[1 + i - 1]
  BY <1>1, SubSeqProperties
<1> HIDE DEF part
<1>3. Len(part) = n /\ DOMAIN part = 1 .. n
  BY <1>1, <1>2
<1>4. \A k \in 1 .. n : part[k] = list[k] /\ k \in DOMAIN list
  BY <1>1, <1>2
<1>5. Distinct(part)
  BY <1>3, <1>4 DEF Distinct
<1>6. QED
  BY <1>2, <1>3, <1>4, <1>5 DEF part

\* And so is what is left without the first element, which is not in it.
LEMMA RestIsDistinct ==
  ASSUME NEW T, NEW list \in Seq(T), list # << >>, Distinct(list)
  PROVE  /\ Tail(list) \in Seq(T) /\ Len(Tail(list)) = Len(list) - 1
         /\ \A k \in 1 .. Len(list) - 1 : Tail(list)[k] = list[k + 1] /\ list[k + 1] # Head(list)
         /\ Distinct(Tail(list))
<1>1. /\ Tail(list) \in Seq(T) /\ Len(Tail(list)) = Len(list) - 1
      /\ Len(list) \in Nat \ {0} /\ Head(list) = list[1]
  BY HeadTailProperties, EmptySeq
<1>2. \A k \in 1 .. Len(list) - 1 : Tail(list)[k] = list[k + 1]
  BY <1>1
<1>3. \A k \in 1 .. Len(list) - 1 : k + 1 \in DOMAIN list /\ 1 \in DOMAIN list /\ k + 1 # 1
  BY <1>1
<1>4. \A k \in 1 .. Len(list) - 1 : list[k + 1] # list[1]
  BY <1>3 DEF Distinct
<1>5. Distinct(Tail(list))
  <2>1. SUFFICES ASSUME NEW k \in 1 .. Len(list) - 1, NEW l \in 1 .. Len(list) - 1,
                        list[k + 1] = list[l + 1]
                 PROVE  k = l
    BY <1>1, <1>2 DEF Distinct
  <2>2. k + 1 = l + 1
    BY <2>1, <1>3 DEF Distinct
  <2>3. QED
    BY <2>2
<1>6. QED
  BY <1>1, <1>2, <1>4, <1>5

\* The parts of the type invariant.
LEMMA ScheduleTyped ==
  ASSUME ScheduleInv
  PROVE  /\ status \in [Schedules -> {"absent", "active", "paused"}]
         /\ left \in [Schedules -> Nat] /\ \A s \in Schedules : left[s] \in 0 .. Interval[s]
         /\ overdue \in Seq(Schedules) /\ due \in Seq(Schedules)
         /\ at \in {"waiting", "submit", "mark"} /\ (at # "waiting" => due # << >>)
         /\ since \in 0 .. MaxTick /\ stops \in 0 .. MaxCrashes
         /\ asked \in [Schedules -> {"absent", "active", "paused"}]
         /\ late \in [Schedules -> Nat]
         /\ Len(overdue) \in Nat /\ DOMAIN overdue = 1 .. Len(overdue)
         /\ Len(due) \in Nat /\ DOMAIN due = 1 .. Len(due)
         /\ \A i \in 1 .. Len(overdue) : overdue[i] \in Schedules
         /\ \A k \in 1 .. Len(due) : due[k] \in Schedules
         /\ Undone \subseteq 1 .. Len(due)
<1>1. /\ status \in [Schedules -> {"absent", "active", "paused"}]
      /\ left \in [Schedules -> Nat] /\ \A s \in Schedules : left[s] \in 0 .. Interval[s]
      /\ overdue \in Seq(Schedules) /\ due \in Seq(Schedules)
      /\ at \in {"waiting", "submit", "mark"} /\ (at # "waiting" => due # << >>)
      /\ since \in 0 .. MaxTick /\ stops \in 0 .. MaxCrashes
      /\ asked \in [Schedules -> {"absent", "active", "paused"}]
      /\ late \in [Schedules -> Nat]
  BY DEF ScheduleInv, ScheduleTypes, Scheduler!TypeOK
<1>2. Undone \subseteq 1 .. Len(due)
  BY <1>1 DEF Undone
<1>3. QED
  BY <1>1, <1>2, LenProperties, ElementOfSeq

LEMMA ScheduleStarts == Scheduler!Init => ScheduleInv
BY ScheduleConstants
  DEF Scheduler!Init, ScheduleInv, ScheduleTypes, Scheduler!TypeOK, OverdueOnce, Distinct,
      Scheduler!PauseHolds, Scheduler!PausedRunsAtMostOnce, PausedNotYet, Undone

\* A new schedule is active and not overdue.
LEMMA CreateKeeps ==
  ASSUME ScheduleInv, NEW s \in Schedules, Scheduler!Create_schedule(s)
  PROVE  ScheduleInv'
<1> USE DEF Scheduler!Create_schedule
<1>1. ScheduleTypes'
  BY ScheduleTyped, ScheduleConstants DEF ScheduleTypes, Scheduler!TypeOK
<1>2. OverdueOnce'
  BY ScheduleTyped DEF ScheduleInv, OverdueOnce, Distinct
<1>3. Scheduler!PauseHolds' /\ Scheduler!PausedRunsAtMostOnce'
  BY DEF ScheduleInv, Scheduler!PauseHolds, Scheduler!PausedRunsAtMostOnce
<1>4. PausedNotYet'
  BY ScheduleTyped DEF ScheduleInv, PausedNotYet, Undone
<1>5. QED
  BY <1>1, <1>2, <1>3, <1>4 DEF ScheduleInv

\* A schedule that is paused begins to count its late dispatches.
LEMMA SetStatusKeeps ==
  ASSUME ScheduleInv, NEW s \in Schedules, Scheduler!Set_status(s)
  PROVE  ScheduleInv'
<1>1. PICK to \in {"paused", "active"} :
        /\ status[s] # "absent"
        /\ status' = [status EXCEPT ![s] = to]
        /\ asked' = [asked EXCEPT ![s] = to]
        /\ late' = [late EXCEPT ![s] = IF status[s] = to THEN late[s] ELSE 0]
        /\ UNCHANGED <<left, overdue, due, at, since, stops>>
  BY DEF Scheduler!Set_status
<1>2. ScheduleTypes'
  BY <1>1, ScheduleTyped DEF ScheduleTypes, Scheduler!TypeOK
<1>3. OverdueOnce'
  BY <1>1, ScheduleTyped DEF ScheduleInv, OverdueOnce, Distinct
<1>4. Scheduler!PauseHolds'
  BY <1>1 DEF ScheduleInv, Scheduler!PauseHolds
<1>5. Scheduler!PausedRunsAtMostOnce'
  BY <1>1, ScheduleTyped DEF ScheduleInv, Scheduler!PausedRunsAtMostOnce
<1>6. PausedNotYet'
  <2>1. Undone' = Undone
    BY <1>1 DEF Undone
  <2>2. SUFFICES ASSUME NEW k \in Undone, status'[due[k]] = "paused" PROVE late'[due[k]] = 0
    BY <1>1, <2>1 DEF PausedNotYet
  <2>3. due[k] \in Schedules
    BY ScheduleTyped
  <2>4. CASE due[k] = s
    BY <1>1, <2>2, <2>3, <2>4, ScheduleTyped DEF ScheduleInv, PausedNotYet
  <2>5. CASE due[k] # s
    BY <1>1, <2>2, <2>3, <2>5, ScheduleTyped DEF ScheduleInv, PausedNotYet
  <2>6. QED
    BY <2>4, <2>5
<1>7. QED
  BY <1>2, <1>3, <1>4, <1>5, <1>6 DEF ScheduleInv

\* A tick lists rows that are active, each once.
LEMMA BeginTickKeeps ==
  ASSUME ScheduleInv, Scheduler!BeginTick
  PROVE  ScheduleInv'
<1> DEFINE S == {i \in DOMAIN overdue : status[overdue[i]] = "active"}
           q == AtPlaces(overdue, S)
           n == IF Len(q) < Limit THEN Len(q) ELSE Limit
<1>1. /\ due' = SubSeq(q, 1, n) /\ due' # << >> /\ at' = "submit" /\ since' = 0
      /\ UNCHANGED <<status, left, overdue, stops, asked, late>>
  BY SameLists
    DEF Scheduler!BeginTick, Scheduler!List_due, Scheduler!Limited, Scheduler!ActiveOverdue
<1>2. /\ q \in Seq(Schedules) /\ Distinct(q)
      /\ \A k \in DOMAIN q : \E i \in S : q[k] = overdue[i]
  <2>1. overdue \in Seq(Schedules) /\ Distinct(overdue) /\ S \in SUBSET DOMAIN overdue
    BY ScheduleTyped DEF ScheduleInv, OverdueOnce
  <2> HIDE DEF S
  <2>2. QED
    BY <2>1, PartIsDistinct
<1>3. n \in 0 .. Len(q) /\ DOMAIN q = 1 .. Len(q) /\ Len(q) \in Nat
  <2> HIDE DEF q
  <2> QED BY <1>2, ScheduleConstants
<1>4. /\ due' \in Seq(Schedules) /\ Len(due') = n /\ Distinct(due')
      /\ \A k \in 1 .. n : due'[k] = q[k]
  <2> HIDE DEF q, n
  <2> QED BY <1>1, <1>2, <1>3, BeginningIsDistinct
<1>5. \A k \in 1 .. n : status[due'[k]] = "active"
  BY <1>2, <1>3, <1>4
<1> HIDE DEF q, n
<1>6. ScheduleTypes'
  <2>1. since' \in 0 .. MaxTick
    BY <1>1, ScheduleConstants
  <2>2. due' \in Seq(Schedules) /\ due' # << >> /\ at' \in {"waiting", "submit", "mark"}
    BY <1>1, <1>4
  <2>3. QED
    BY <1>1, <2>1, <2>2, ScheduleTyped DEF ScheduleTypes, Scheduler!TypeOK
<1>7. OverdueOnce'
  BY <1>1, <1>4 DEF ScheduleInv, OverdueOnce, Distinct
<1>8. Scheduler!PauseHolds' /\ Scheduler!PausedRunsAtMostOnce'
  BY <1>1 DEF ScheduleInv, Scheduler!PauseHolds, Scheduler!PausedRunsAtMostOnce
<1>9. PausedNotYet'
  BY <1>1, <1>4, <1>5 DEF PausedNotYet, Undone
<1>10. QED
  BY <1>6, <1>7, <1>8, <1>9 DEF ScheduleInv

\* The first of the rows left is dispatched; if it was paused since it was
\* listed, for the first time.
LEMMA DispatchKeeps ==
  ASSUME ScheduleInv, Scheduler!Dispatch
  PROVE  ScheduleInv'
<1> DEFINE s == due[1]
<1>1. /\ at = "submit" /\ at' = "mark"
      /\ Head(due) = s /\ s \in Schedules /\ 1 \in Undone /\ Undone' = 2 .. Len(due)
      /\ late' = [late EXCEPT ![s] = IF status[s] = "paused" THEN late[s] + 1 ELSE late[s]]
      /\ UNCHANGED <<status, left, overdue, due, since, stops, asked>>
  <2>1. at = "submit" /\ due # << >> /\ due \in Seq(Schedules)
    BY ScheduleTyped DEF Scheduler!Dispatch
  <2>2. Len(due) \in Nat \ {0} /\ Head(due) = s
    BY <2>1, EmptySeq
  <2>3. s \in Schedules /\ 1 \in Undone
    BY <2>1, <2>2, ScheduleTyped DEF Undone
  <2>4. QED
    BY <2>1, <2>2, <2>3 DEF Scheduler!Dispatch, Undone
<1>2. ScheduleTypes'
  BY <1>1, ScheduleTyped DEF ScheduleTypes, Scheduler!TypeOK
<1>3. OverdueOnce'
  BY <1>1 DEF ScheduleInv, OverdueOnce, Distinct
<1>4. Scheduler!PauseHolds'
  BY <1>1 DEF ScheduleInv, Scheduler!PauseHolds
<1>5. Scheduler!PausedRunsAtMostOnce'
  <2>1. status[s] = "paused" => late[s] = 0
    BY <1>1 DEF ScheduleInv, PausedNotYet
  <2>2. QED
    BY <1>1, <2>1, ScheduleTyped DEF ScheduleInv, Scheduler!PausedRunsAtMostOnce
<1>6. PausedNotYet'
  <2>1. SUFFICES ASSUME NEW k \in 2 .. Len(due), status[due[k]] = "paused"
                 PROVE  late'[due[k]] = 0
    BY <1>1 DEF PausedNotYet
  <2>2. k \in Undone /\ k \in DOMAIN due /\ 1 \in DOMAIN due /\ k # 1 /\ due[k] \in Schedules
    BY <1>1, ScheduleTyped DEF Undone
  <2>3. due[k] # s
    BY <2>2 DEF ScheduleInv, OverdueOnce, Distinct
  <2>4. late[due[k]] = 0
    BY <2>1, <2>2 DEF ScheduleInv, PausedNotYet
  <2>5. QED
    BY <1>1, <2>2, <2>3, <2>4, ScheduleTyped
<1>7. QED
  BY <1>2, <1>3, <1>4, <1>5, <1>6 DEF ScheduleInv

\* When it is due again is written back, and the tick goes on with the next.
LEMMA MarkKeeps ==
  ASSUME ScheduleInv, Scheduler!Mark_dispatched
  PROVE  ScheduleInv'
<1> DEFINE s == due[1]
           S == {i \in DOMAIN overdue : overdue[i] # s}
           q == AtPlaces(overdue, S)
<1>1. /\ at = "mark" /\ due # << >> /\ due \in Seq(Schedules) /\ Distinct(due)
      /\ s \in Schedules /\ Head(due) = s
  <2>1. at = "mark" /\ due # << >> /\ due \in Seq(Schedules) /\ Distinct(due)
    BY ScheduleTyped DEF Scheduler!Mark_dispatched, ScheduleInv, OverdueOnce
  <2>2. Len(due) \in Nat \ {0} /\ Head(due) = s
    BY <2>1, EmptySeq
  <2>3. QED
    BY <2>1, <2>2, ScheduleTyped
<1>2. /\ left' = [left EXCEPT ![s] = Interval[s] - since]
      /\ overdue' = q
      /\ due' = Tail(due)
      /\ at' = IF Tail(due) = << >> THEN "waiting" ELSE "submit"
      /\ UNCHANGED <<status, since, stops, asked, late>>
  BY <1>1, SameLists DEF Scheduler!Mark_dispatched, Scheduler!NextDue, Scheduler!Without
<1>3. Interval[s] - since \in 0 .. Interval[s] /\ Interval[s] - since \in Nat
  BY <1>1, ScheduleTyped, ScheduleConstants
<1>4. /\ q \in Seq(Schedules) /\ Distinct(q)
      /\ \A k \in DOMAIN q : \E i \in S : q[k] = overdue[i]
  <2>1. overdue \in Seq(Schedules) /\ Distinct(overdue) /\ S \in SUBSET DOMAIN overdue
    BY ScheduleTyped DEF ScheduleInv, OverdueOnce
  <2> HIDE DEF S
  <2>2. QED
    BY <2>1, PartIsDistinct
<1>5. /\ due' \in Seq(Schedules) /\ Len(due') = Len(due) - 1
      /\ \A k \in 1 .. Len(due) - 1 : due'[k] = due[k + 1]
      /\ Distinct(due')
  BY <1>1, <1>2, RestIsDistinct
<1> HIDE DEF q
<1>6. ScheduleTypes'
  BY <1>1, <1>2, <1>3, <1>4, <1>5, ScheduleTyped DEF ScheduleTypes, Scheduler!TypeOK
<1>7. OverdueOnce'
  <2>1. ASSUME NEW k \in DOMAIN q
        PROVE  left'[q[k]] = 0 /\ status[q[k]] # "absent"
    <3>1. PICK i \in DOMAIN overdue : overdue[i] # s /\ q[k] = overdue[i]
      BY <1>4
    <3>2. left[overdue[i]] = 0 /\ status[overdue[i]] # "absent" /\ overdue[i] \in Schedules
      BY ScheduleTyped DEF ScheduleInv, OverdueOnce
    <3>3. QED
      BY <1>2, <3>1, <3>2, ScheduleTyped
  <2>2. QED
    BY <1>2, <1>4, <1>5, <2>1 DEF OverdueOnce, Distinct
<1>8. Scheduler!PauseHolds' /\ Scheduler!PausedRunsAtMostOnce'
  BY <1>2 DEF ScheduleInv, Scheduler!PauseHolds, Scheduler!PausedRunsAtMostOnce
<1>9. PausedNotYet'
  <2>1. at' # "mark"
    BY <1>2
  <2>2. Undone' = 1 .. Len(due) - 1
    BY <1>5, <2>1 DEF Undone
  <2>3. SUFFICES ASSUME NEW k \in 1 .. Len(due) - 1, status[due[k + 1]] = "paused"
                 PROVE  late[due[k + 1]] = 0
    BY <1>2, <1>5, <2>2 DEF PausedNotYet
  <2>4. k + 1 \in Undone
    BY <1>1, ScheduleTyped DEF Undone
  <2>5. QED
    BY <2>3, <2>4 DEF ScheduleInv, PausedNotYet
<1>10. QED
  BY <1>6, <1>7, <1>8, <1>9 DEF ScheduleInv

\* The rows that become due were not overdue before.
LEMMA TimeKeeps ==
  ASSUME ScheduleInv, Scheduler!Pass
  PROVE  ScheduleInv'
<1> DEFINE New == {s \in Schedules : Scheduler!Ticking(s) /\ left[s] = 1}
<1>1. PICK q \in Scheduler!SetToSeqs(New) : overdue' = overdue \o q
  BY DEF Scheduler!Pass
<1>2. /\ at # "waiting" => since < MaxTick
      /\ since' = IF at = "waiting" THEN 0 ELSE since + 1
      /\ left' = [s \in Schedules |-> IF Scheduler!Ticking(s) THEN left[s] - 1 ELSE left[s]]
      /\ UNCHANGED <<status, due, at, stops, asked, late>>
  BY DEF Scheduler!Pass
<1>3. q \in Seq(New) /\ Distinct(q) /\ DOMAIN q = 1 .. Len(q) /\ Len(q) \in Nat
  <2>1. IsFiniteSet(New) /\ Cardinality(New) \in Nat
    <3>1. New \in SUBSET Schedules
      OBVIOUS
    <3> HIDE DEF New
    <3>2. QED
      BY <3>1, ScheduleConstants, FS_Subset, FS_CardinalityType
  <2> HIDE DEF New
  <2>2. /\ q \in [1 .. Cardinality(New) -> New]
        /\ \A i, j \in 1 .. Cardinality(New) : i # j => q[i] # q[j]
    BY SameLists DEF Scheduler!SetToSeqs
  <2>3. q \in Seq(New) /\ Len(q) = Cardinality(New) /\ DOMAIN q = 1 .. Cardinality(New)
    BY <2>1, <2>2
  <2>4. QED
    BY <2>1, <2>2, <2>3 DEF Distinct
<1>4. /\ overdue' \in Seq(Schedules)
      /\ DOMAIN overdue' = 1 .. Len(overdue) + Len(q)
      /\ \A i \in 1 .. Len(overdue) : overdue'[i] = overdue[i]
      /\ \A i \in 1 .. Len(q) : overdue'[Len(overdue) + i] = q[i]
  <2>1. q \in Seq(Schedules)
    BY <1>3, SeqMonotonic
  <2>2. /\ overdue \o q \in Seq(Schedules)
        /\ Len(overdue \o q) = Len(overdue) + Len(q)
        /\ \A i \in 1 .. Len(overdue) + Len(q) : (overdue \o q)[i]
             = IF i <= Len(overdue) THEN overdue[i] ELSE q[i - Len(overdue)]
    BY <2>1, ScheduleTyped, ConcatProperties
  <2>3. Len(overdue) \in Nat /\ Len(q) \in Nat
    BY <1>3, ScheduleTyped
  <2>4. QED
    BY <1>1, <2>2, <2>3
<1>5. \A i \in 1 .. Len(q) : q[i] \in New
  BY <1>3
<1>6. \A i \in 1 .. Len(overdue) :
        /\ overdue[i] \in Schedules /\ left[overdue[i]] = 0 /\ status[overdue[i]] # "absent"
        /\ left'[overdue[i]] = 0
  <2>1. SUFFICES ASSUME NEW i \in 1 .. Len(overdue)
                 PROVE  /\ overdue[i] \in Schedules /\ left[overdue[i]] = 0
                        /\ status[overdue[i]] # "absent" /\ left'[overdue[i]] = 0
    OBVIOUS
  <2>2. /\ overdue[i] \in Schedules /\ left[overdue[i]] = 0
        /\ status[overdue[i]] # "absent"
    BY ScheduleTyped DEF ScheduleInv, OverdueOnce
  <2>3. ~ Scheduler!Ticking(overdue[i])
    BY <2>2 DEF Scheduler!Ticking
  <2>4. QED
    BY <1>2, <2>2, <2>3
<1>7. \A s \in New : s \in Schedules /\ left[s] = 1 /\ left'[s] = 0 /\ status[s] # "absent"
  BY <1>2 DEF Scheduler!Ticking
<1> HIDE DEF New
<1>8. ScheduleTypes'
  <2>1. ASSUME NEW s \in Schedules
        PROVE  left'[s] \in Nat /\ left'[s] \in 0 .. Interval[s]
    BY <1>2, ScheduleTyped, ScheduleConstants DEF Scheduler!Ticking
  <2>2. left' \in [Schedules -> Nat]
    BY <1>2, <2>1
  <2>3. since' \in 0 .. MaxTick
    BY <1>2, ScheduleTyped, ScheduleConstants
  <2>4. QED
    BY <1>2, <1>4, <2>1, <2>2, <2>3, ScheduleTyped DEF ScheduleTypes, Scheduler!TypeOK
<1>9. OverdueOnce'
  <2>1. \A i \in DOMAIN overdue' :
          \/ i \in 1 .. Len(overdue) /\ overdue'[i] = overdue[i]
          \/ \E k \in 1 .. Len(q) : i = Len(overdue) + k /\ overdue'[i] = q[k]
    <3>1. SUFFICES ASSUME NEW i \in 1 .. Len(overdue) + Len(q), ~ (i \in 1 .. Len(overdue))
                   PROVE  \E k \in 1 .. Len(q) : i = Len(overdue) + k /\ overdue'[i] = q[k]
      BY <1>4
    <3>2. i - Len(overdue) \in 1 .. Len(q) /\ i = Len(overdue) + (i - Len(overdue))
      BY <3>1, <1>3, ScheduleTyped
    <3>3. QED
      BY <3>2, <1>4
  <2>2. ASSUME NEW i \in DOMAIN overdue'
        PROVE  left'[overdue'[i]] = 0 /\ status'[overdue'[i]] # "absent"
    BY <1>2, <1>5, <1>6, <1>7, <2>1
  <2>3. ASSUME NEW i \in DOMAIN overdue', NEW j \in DOMAIN overdue', overdue'[i] = overdue'[j]
        PROVE  i = j
    <3>1. CASE i \in 1 .. Len(overdue) /\ j \in 1 .. Len(overdue)
      <4>1. overdue[i] = overdue[j] /\ i \in DOMAIN overdue /\ j \in DOMAIN overdue
        BY <3>1, <2>3, <1>4, ScheduleTyped
      <4>2. Distinct(overdue)
        BY DEF ScheduleInv, OverdueOnce
      <4>3. QED
        BY <4>1, <4>2 DEF Distinct
    <3>2. CASE i \notin 1 .. Len(overdue) /\ j \notin 1 .. Len(overdue)
      BY <3>2, <2>1, <2>3, <1>3 DEF Distinct
    <3>3. CASE i \in 1 .. Len(overdue) /\ j \notin 1 .. Len(overdue)
      BY <3>3, <2>1, <2>3, <1>5, <1>6, <1>7
    <3>4. CASE i \notin 1 .. Len(overdue) /\ j \in 1 .. Len(overdue)
      BY <3>4, <2>1, <2>3, <1>5, <1>6, <1>7
    <3>5. QED
      BY <3>1, <3>2, <3>3, <3>4
  <2>4. Distinct(due)'
    BY <1>2 DEF ScheduleInv, OverdueOnce, Distinct
  <2>5. QED
    BY <2>2, <2>3, <2>4 DEF OverdueOnce, Distinct
<1>10. Scheduler!PauseHolds' /\ Scheduler!PausedRunsAtMostOnce' /\ PausedNotYet'
  BY <1>2 DEF ScheduleInv, Scheduler!PauseHolds, Scheduler!PausedRunsAtMostOnce,
    PausedNotYet, Undone
<1>11. QED
  BY <1>8, <1>9, <1>10 DEF ScheduleInv

\* A new process has nothing under way.
LEMMA CrashKeeps ==
  ASSUME ScheduleInv, Scheduler!Crash
  PROVE  ScheduleInv'
<1> USE DEF Scheduler!Crash
<1>1. ScheduleTypes'
  <2>1. stops' \in 0 .. MaxCrashes /\ since' \in 0 .. MaxTick
    BY ScheduleTyped, ScheduleConstants
  <2>2. /\ left' = left /\ status' = status /\ overdue' = overdue /\ asked' = asked
        /\ late' = late /\ due' = << >> /\ at' = "waiting"
    OBVIOUS
  <2>3. << >> \in Seq(Schedules)
    OBVIOUS
  <2>4. QED
    BY <2>1, <2>2, <2>3, ScheduleTyped DEF ScheduleTypes, Scheduler!TypeOK
<1>2. OverdueOnce'
  BY DEF ScheduleInv, OverdueOnce, Distinct
<1>3. Scheduler!PauseHolds' /\ Scheduler!PausedRunsAtMostOnce' /\ PausedNotYet'
  BY DEF ScheduleInv, Scheduler!PauseHolds, Scheduler!PausedRunsAtMostOnce, PausedNotYet, Undone
<1>4. QED
  BY <1>1, <1>2, <1>3 DEF ScheduleInv

\* Every step of the scheduler keeps the invariant.
LEMMA ScheduleKeeps == ScheduleInv /\ [Scheduler!Next]_schedule_vars => ScheduleInv'
<1> SUFFICES ASSUME ScheduleInv, [Scheduler!Next]_schedule_vars PROVE ScheduleInv'
  OBVIOUS
<1>1. CASE UNCHANGED schedule_vars
  <2>1. /\ status' = status /\ left' = left /\ overdue' = overdue /\ due' = due /\ at' = at
        /\ since' = since /\ stops' = stops /\ asked' = asked /\ late' = late
    BY <1>1 DEF schedule_vars
  <2>2. QED
    BY <2>1 DEF ScheduleInv, ScheduleTypes, Scheduler!TypeOK, OverdueOnce, Distinct,
      Scheduler!PauseHolds, Scheduler!PausedRunsAtMostOnce, PausedNotYet, Undone
<1>2. CASE Scheduler!Next
  BY <1>2, CreateKeeps, SetStatusKeeps, BeginTickKeeps, DispatchKeeps, MarkKeeps, TimeKeeps,
    CrashKeeps DEF Scheduler!Next, Scheduler!Tick
<1>3. QED
  BY <1>1, <1>2

LEMMA ScheduleInvariant == Scheduler!Spec => []ScheduleInv
<1>1. ScheduleInv /\ [Scheduler!Next]_(Scheduler!vars) => ScheduleInv'
  BY ScheduleKeeps DEF Scheduler!vars, schedule_vars
<1> QED
  BY <1>1, ScheduleStarts, PTL DEF Scheduler!Spec

\* The scheduler's rows, lists and counters have their types.
THEOREM SchedulesTypeCorrect == Scheduler!Spec => []Scheduler!TypeOK
<1>1. ScheduleInv => Scheduler!TypeOK
  BY DEF ScheduleInv, ScheduleTypes
<1> QED
  BY <1>1, ScheduleInvariant, PTL

\* A tick that listed a schedule before it was paused does not undo the pause
\* and dispatches the schedule at most once after it, whatever the intervals,
\* the limit of a tick and the crashes in between.
THEOREM SchedulePauses == Scheduler!Spec => []PausesHold
<1>1. ScheduleInv => PausesHold
  BY DEF ScheduleInv, PausesHold, Scheduler!PausesHold
<1> QED
  BY <1>1, ScheduleInvariant, PTL

-----------------------------------------------------------------------------
(* The three together.                                                      *)

\* The component that has work keeps its invariant, the others stand still.
ServicesInv ==
  /\ SettingsInv
  /\ ScheduleInv
  /\ Webhook!TypeOK
  /\ component = "webhook" => AlertInv

LEMMA ServicesStart == ServicesInit => ServicesInv
<1> SUFFICES ASSUME ServicesInit PROVE ServicesInv
  OBVIOUS
<1>1. ScheduleInv
  BY ScheduleStarts DEF ServicesInit
<1>2. WebhookIdle => Webhook!TypeOK
  <2> SUFFICES ASSUME WebhookIdle PROVE Webhook!TypeOK
    OBVIOUS
  <2>1. configured.attempts \in Int /\ configured.attempts = 1
    BY DEF WebhookIdle
  <2>2. Webhook!Max({1, configured.attempts}) \in {1, configured.attempts}
    BY <2>1, MaxMinOfTwo
  <2>3. Webhook!MaxAttempts = 1
    BY <2>1, <2>2 DEF Webhook!MaxAttempts
  <2>4. QED
    BY <2>3 DEF WebhookIdle, Webhook!TypeOK, Webhook!Ends
<1>3. SettingsIdle => SettingsInv
  <2> SUFFICES ASSUME SettingsIdle PROVE SettingsInv
    OBVIOUS
  <2>1. stored \in [Keys -> Values \cup {None, Bad}]
    BY DEF SettingsIdle
  <2>2. bounds \in Bounds
    BY ConstantsAssumption DEF SettingsIdle, Bounds
  <2>3. env \in [Keys -> Values] /\ built \in [BuiltKeys -> Values]
    <3>1. env \in Envs
      BY ConstantsAssumption DEF SettingsIdle
    <3>2. QED
      BY <3>1, EnvTyped DEF SettingsIdle
  <2>4. SettingsTyped
    BY <2>1, <2>2, <2>3, OffTyped DEF SettingsIdle, SettingsTyped
  <2>5. \A k \in Keys : Overridden(k) = env[k]
    BY ConstantsAssumption DEF SettingsIdle, Overridden
  <2>6. QED
    BY <2>4, <2>5, OffTyped, KeysCovered DEF SettingsIdle, SettingsInv, MemoryFollows, BuiltFollows, Off
<1>4. Webhook!Init => AlertInv
  BY AlertStarts
<1>5. Init => SettingsInv
  BY SettingsStart
<1>6. QED
  BY <1>1, <1>2, <1>3, <1>4, <1>5 DEF ServicesInit, ServicesInv, AlertInv

LEMMA ServicesKeep ==
  ServicesInv /\ [ServicesNext]_<<component, vars, alert_vars, schedule_vars>> => ServicesInv'
<1> SUFFICES ASSUME ServicesInv, [ServicesNext]_<<component, vars, alert_vars, schedule_vars>>
             PROVE  ServicesInv'
  OBVIOUS
<1>1. SettingsInv'
  <2>1. [Next]_vars
    BY DEF ServicesNext
  <2>2. QED
    BY <2>1, SettingsKeep DEF ServicesInv
<1>2. ScheduleInv'
  <2>1. [Scheduler!Next]_schedule_vars
    BY DEF ServicesNext
  <2>2. QED
    BY <2>1, ScheduleKeeps DEF ServicesInv
<1>3. Webhook!TypeOK' /\ (component' = "webhook" => AlertInv')
  <2>1. CASE component = "webhook"
    <3>1. [Webhook!Next]_(Webhook!vars)
      BY <2>1 DEF ServicesNext, alert_vars, Webhook!vars
    <3>2. AlertInv'
      BY <3>1, <2>1, AlertKeeps DEF ServicesInv
    <3>3. QED
      BY <3>2 DEF AlertInv
  <2>2. CASE component # "webhook"
    <3>1. component' = component /\ alert_vars' = alert_vars
      BY <2>2 DEF ServicesNext
    <3>2. /\ configured' = configured /\ pc' = pc /\ attempt' = attempt /\ slept' = slept
          /\ alerts' = alerts
      BY <3>1 DEF alert_vars
    <3>3. Webhook!MaxAttempts' = Webhook!MaxAttempts
      BY <3>2 DEF Webhook!MaxAttempts
    <3>4. QED
      BY <2>2, <3>1, <3>2, <3>3 DEF ServicesInv, Webhook!TypeOK
  <2>3. QED
    BY <2>1, <2>2
<1>4. QED
  BY <1>1, <1>2, <1>3 DEF ServicesInv

LEMMA ServicesInvariant == ServicesSpec => []ServicesInv
BY ServicesStart, ServicesKeep, PTL DEF ServicesSpec

\* The services as they run side by side are typed.
THEOREM ServicesTypeCorrect == ServicesSpec => []ServicesTypeOK
<1>1. ServicesInv => ServicesTypeOK
  <2>1. SettingsInv => TypeOK
    BY DEF SettingsInv, SettingsTyped, TypeOK, Update, Steps, Item, Bounds
  <2>2. ScheduleInv => Scheduler!TypeOK
    BY DEF ScheduleInv, ScheduleTypes
  <2>3. QED
    BY <2>1, <2>2 DEF ServicesInv, ServicesTypeOK
<1> QED
  BY <1>1, ServicesInvariant, PTL
=============================================================================
