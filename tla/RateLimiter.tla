---------------------------- MODULE RateLimiter ----------------------------
(***************************************************************************)
(* The sliding-window rate limiters of Sentinel-Fi, for one client key:    *)
(* the in-process one, a deque under a lock, and the one that keeps a      *)
(* sorted set in Redis.  Both read the clock before they touch the shared  *)
(* state: by the time a thread holds the lock, or its commands reach       *)
(* Redis, other threads with a later clock may have been served.           *)
(*                                                                         *)
(* The threads are the concurrent callers of the class, which its lock is  *)
(* for; with Redis they are the server processes that share the set.  The  *)
(* middleware itself calls allow from one event loop in each process.  A   *)
(* limit of zero or less turns the limiter off, which is not modelled.     *)
(***************************************************************************)
EXTENDS Integers, Sequences, FiniteSets, FiniteSetsExt

CONSTANTS Threads,   \* threads that serve requests
          Limit,     \* rate_limit_per_minute
          Window,    \* window_seconds
          MaxDelay,  \* bound on the time between reading the clock and the
                     \* admission it decides
          MaxTime    \* bound on the clock

\* What the constants have to be.
ConstantsAssumption ==
  /\ Limit \in Nat \ {0}
  /\ Window \in Nat \ {0}
  /\ MaxDelay \in 0 .. Window - 1
  /\ MaxTime \in Nat
  /\ IsFiniteSet(Threads) /\ Threads # {}

VARIABLES
  backend,   \* chosen by build_rate_limiter, for good
  now,       \* the clock
  bucket,    \* the deque of the in-process limiter
  zset,      \* the members of the sorted set: score and uuid, which is the
             \* number of the admission
  pc, stamp, \* of each thread: where it stands, the time it read
  admitted   \* the times at which requests were admitted, in order

vars == <<backend, now, bucket, zset, pc, stamp, admitted>>

Times == 0 .. MaxTime
-----------------------------------------------------------------------------
Init ==
  /\ backend \in {"memory", "redis"}
  /\ now = 0
  /\ bucket = << >>
  /\ zset = {}
  /\ pc = [t \in Threads |-> "idle"]
  /\ stamp = [t \in Threads |-> 0]
  /\ admitted = << >>

Admit(t) ==
  /\ pc' = [pc EXCEPT ![t] = "idle"]
  /\ admitted' = Append(admitted, now)

Deny(t) ==
  /\ pc' = [pc EXCEPT ![t] = "idle"]
  /\ UNCHANGED admitted

\* Variant: one too many.
FullAfter(count) == count > Limit

Full(count) == count >= Limit

\* allow begins: the clock is read.
Start(t) ==
  /\ pc[t] = "idle"
  /\ pc' = [pc EXCEPT ![t] = "stamped"]
  /\ stamp' = [stamp EXCEPT ![t] = now]
  /\ UNCHANGED <<backend, now, bucket, zset, admitted>>
-----------------------------------------------------------------------------
(* SlidingWindowRateLimiter.allow, under the lock.                         *)

\* The loop stops at the first entry that is young enough.
Evicted(start) ==
  LET kept == {i \in DOMAIN bucket : \E j \in 1 .. i : bucket[j] > start}
  IN  IF kept = {} THEN << >> ELSE SubSeq(bucket, Min(kept), Len(bucket))

AllowInMemory(t) ==
  /\ backend = "memory" /\ pc[t] = "stamped"
  /\ LET left == Evicted(stamp[t] - Window) IN
       IF Full(Len(left))
       THEN bucket' = left /\ Deny(t)
       ELSE bucket' = Append(left, stamp[t]) /\ Admit(t)
  /\ UNCHANGED <<backend, now, zset, stamp>>
-----------------------------------------------------------------------------
(* RedisSlidingWindowRateLimiter.allow: two pipelines.                     *)

\* zremrangebyscore and zcard.
CountInRedis(t) ==
  /\ backend = "redis" /\ pc[t] = "stamped"
  /\ zset' = {m \in zset : m.score > stamp[t] - Window}
  /\ IF Full(Cardinality(zset')) THEN Deny(t)
     ELSE pc' = [pc EXCEPT ![t] = "counted"] /\ UNCHANGED admitted
  /\ UNCHANGED <<backend, now, bucket, stamp>>

\* zadd, of a member of its own.
AddToRedis(t) ==
  /\ backend = "redis" /\ pc[t] = "counted"
  /\ zset' = zset \cup {[score |-> stamp[t], uuid |-> Len(admitted) + 1]}
  /\ Admit(t)
  /\ UNCHANGED <<backend, now, bucket, stamp>>
-----------------------------------------------------------------------------
Pass ==
  /\ now < MaxTime
  /\ \A t \in Threads : pc[t] # "idle" => now - stamp[t] < MaxDelay
  /\ now' = now + 1
  /\ UNCHANGED <<backend, bucket, zset, pc, stamp, admitted>>

Next ==
  \/ \E t \in Threads :
       Start(t) \/ AllowInMemory(t) \/ CountInRedis(t) \/ AddToRedis(t)
  \/ Pass

Spec == Init /\ [][Next]_vars
-----------------------------------------------------------------------------
(* Properties.                                                             *)

\* Type invariant: clocks, buckets and the steps of the threads.
TypeOK ==
  /\ backend \in {"memory", "redis"}
  /\ now \in Times
  /\ bucket \in Seq(Times)
  /\ zset \subseteq [score: Times, uuid: Nat]
  /\ pc \in [Threads -> {"idle", "stamped", "counted"}]
  /\ stamp \in [Threads -> Times]
  /\ admitted \in Seq(Times)

\* The requests admitted in the window of that length from x on.
AdmittedIn(x, length) ==
  Cardinality({i \in DOMAIN admitted : x <= admitted[i] /\ admitted[i] < x + length})

\* In process, no window is exceeded, however the threads interleave, as
\* long as it is shorter than window_seconds by the time a thread may wait
\* for the lock; without such waits, no window of window_seconds.
MemoryWindow ==
  backend = "memory" => \A x \in Times : AdmittedIn(x, Window - MaxDelay) <= Limit

\* With Redis the count and the addition are apart: each other thread may
\* get one request more through, and no more than that.
RedisWindow ==
  backend = "redis" => \A x \in Times :
    AdmittedIn(x, Window - MaxDelay) <= Limit + Cardinality(Threads) - 1

\* Neither limiter lets more through than its interleavings explain.
WindowsHold == MemoryWindow /\ RedisWindow
=============================================================================
