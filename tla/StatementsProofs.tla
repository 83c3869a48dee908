--------------------------- MODULE StatementsProofs ---------------------------
(* What TLAPS proves about Statements: the windows of the rate limiters, the *)
(* reading of CSV files and pages, and the sums of an audit.                 *)
EXTENDS Statements, ListsProofs, SequenceTheorems

-----------------------------------------------------------------------------
(* Lists of times                                                           *)

\* A list of times that never go back.
Ordered(list) == \A i, j \in DOMAIN list : i <= j => list[i] <= list[j]

\* Elements that stand most places apart in the list are gap apart in time.
Apart(list, most, gap) ==
  \A i, j \in DOMAIN list : i + most <= j => list[i] + gap <= list[j]

\* Of a list in order whose elements are apart, no stretch of time as long as
\* the gap holds more than most.
LEMMA ApartIsFew ==
  ASSUME NEW list \in Seq(Nat), NEW most \in Nat \ {0}, NEW gap \in Nat, NEW x \in Nat,
         Apart(list, most, gap)
  PROVE  Cardinality({i \in DOMAIN list : x <= list[i] /\ list[i] < x + gap}) <= most
<1> DEFINE S == {i \in DOMAIN list : x <= list[i] /\ list[i] < x + gap}
<1>1. ASSUME S = {} PROVE Cardinality(S) <= most
  <2> HIDE DEF S
  <2> QED BY <1>1, FS_EmptySet
<1>2. ASSUME S # {} PROVE Cardinality(S) <= most
  <2>1. S \in SUBSET Nat
    OBVIOUS
  <2>2. PICK m \in S : \A k \in S : m <= k
    <3> HIDE DEF S
    <3> QED BY <1>2, <2>1, LeastOf
  <2>3. S \subseteq m .. m + most - 1
    <3>1. SUFFICES ASSUME NEW k \in S, k > m + most - 1 PROVE FALSE
      BY <2>1, <2>2
    <3>2. list[m] + gap <= list[k]
      BY <2>1, <3>1 DEF Apart
    <3>3. QED
      BY <3>2, <2>1
  <2>4. m \in Int /\ most \in Nat
    BY <2>1, <2>2
  <2>5. Cardinality(S) <= most
    <3> HIDE DEF S
    <3> QED BY <2>3, <2>4, PartOfInterval
  <2>6. QED
    BY <2>5
<1>3. QED
  BY <1>1, <1>2

\* A list in order whose elements are apart stays so when a later time is added,
\* if the elements most places before it are a gap before it.
LEMMA AppendKeepsApart ==
  ASSUME NEW list \in Seq(Nat), NEW most \in Nat \ {0}, NEW gap \in Nat, NEW t \in Nat,
         Ordered(list), \A i \in DOMAIN list : list[i] <= t, Apart(list, most, gap),
         \A i \in DOMAIN list : i + most <= Len(list) + 1 => list[i] + gap <= t
  PROVE  /\ Len(Append(list, t)) = Len(list) + 1
         /\ \A i \in 1 .. Len(list) : Append(list, t)[i] = list[i]
         /\ Append(list, t)[Len(list) + 1] = t
         /\ Ordered(Append(list, t))
         /\ \A i \in DOMAIN Append(list, t) : Append(list, t)[i] <= t
         /\ Apart(Append(list, t), most, gap)
<1> DEFINE new == Append(list, t)
<1>1. /\ new \in Seq(Nat) /\ Len(new) = Len(list) + 1 /\ Len(list) \in Nat
      /\ \A i \in 1 .. Len(list) : new[i] = list[i]
      /\ new[Len(list) + 1] = t
  BY AppendProperties, LenProperties
<1>2. /\ DOMAIN new = 1 .. Len(list) + 1 /\ DOMAIN list = 1 .. Len(list)
      /\ \A i \in 1 .. Len(list) : list[i] \in Nat
  BY <1>1
<1>3. \A i \in DOMAIN new : i \in 1 .. Len(list) \/ i = Len(list) + 1
  BY <1>1, <1>2
<1> HIDE DEF new
<1>4. \A i \in DOMAIN new : new[i] <= t
  BY <1>1, <1>2, <1>3
<1>5. Ordered(new)
  <2>1. SUFFICES ASSUME NEW i \in DOMAIN new, NEW j \in DOMAIN new, i <= j
                 PROVE  new[i] <= new[j]
    BY DEF Ordered
  <2>2. CASE j = Len(list) + 1
    BY <2>2, <1>1, <1>4
  <2>3. CASE j \in 1 .. Len(list)
    <3>1. i \in 1 .. Len(list)
      BY <2>1, <2>3, <1>1, <1>2, <1>3
    <3>2. list[i] <= list[j]
      BY <2>1, <2>3, <3>1, <1>2 DEF Ordered
    <3>3. QED
      BY <2>3, <3>1, <3>2, <1>1
  <2>4. QED
    BY <2>2, <2>3, <1>3
<1>6. Apart(new, most, gap)
  <2>1. SUFFICES ASSUME NEW i \in DOMAIN new, NEW j \in DOMAIN new, i + most <= j
                 PROVE  new[i] + gap <= new[j]
    BY DEF Apart
  <2>2. i \in 1 .. Len(list)
    BY <2>1, <1>1, <1>3, <1>2
  <2>3. CASE j = Len(list) + 1
    BY <2>1, <2>2, <2>3, <1>1, <1>2
  <2>4. CASE j \in 1 .. Len(list)
    BY <2>1, <2>2, <2>4, <1>1, <1>2 DEF Apart
  <2>5. QED
    BY <2>3, <2>4, <1>3
<1>7. QED
  BY <1>1, <1>4, <1>5, <1>6 DEF new

-----------------------------------------------------------------------------
(* The inductive invariant of the limiters                                  *)

Gap == Window - MaxDelay

\* The threads whose request Redis has counted and not yet added.
Counted == {t \in Threads : pc[t] = "counted"}

\* The most that a stretch of time as long as the gap may admit.
Most == IF backend = "memory" THEN Limit ELSE Limit + Cardinality(Threads) - 1

\* A time that a thread has read is over by MaxDelay at most.
StampsAreFresh ==
  \A t \in Threads : stamp[t] <= now /\ (pc[t] # "idle" => now - stamp[t] <= MaxDelay)

AdmittedInOrder == Ordered(admitted) /\ \A i \in DOMAIN admitted : admitted[i] <= now

\* The bucket holds the stamps of the last admissions; those before it are a gap
\* ago.
BucketIsRecent ==
  backend = "memory" =>
    /\ Len(bucket) <= Len(admitted)
    /\ \A t \in Threads : pc[t] # "counted"
    /\ \A i \in 1 .. Len(admitted) - Len(bucket) : admitted[i] + Gap <= now
    /\ \A k \in 1 .. Len(bucket) :
         admitted[Len(admitted) - Len(bucket) + k] <= bucket[k] + MaxDelay

\* So does the sorted set, except that other threads may add what they have
\* counted.
SetIsRecent ==
  backend = "redis" =>
    /\ IsFiniteSet(zset)
    /\ Cardinality(zset) + Cardinality(Counted) <= Most
    /\ \A m \in zset : m.uuid \in DOMAIN admitted /\ admitted[m.uuid] <= m.score + MaxDelay
    /\ \A i \in DOMAIN admitted : admitted[i] + Gap > now => \E m \in zset : m.uuid = i

LimiterInv ==
  /\ Limiter!TypeOK
  /\ StampsAreFresh
  /\ AdmittedInOrder
  /\ BucketIsRecent
  /\ SetIsRecent
  /\ Apart(admitted, Most, Gap)

-----------------------------------------------------------------------------
(* The steps of the limiters                                                *)

\* What is left of the bucket is its end, from the first stamp on that is young
\* enough; the stamps before it are not.
LEMMA EvictedIsTheEnd ==
  ASSUME bucket \in Seq(Limiter!Times), MaxTime \in Nat, NEW start \in Int
  PROVE  \E d \in 0 .. Len(bucket) :
           /\ Limiter!Evicted(start) \in Seq(Limiter!Times)
           /\ Len(Limiter!Evicted(start)) = Len(bucket) - d
           /\ \A k \in 1 .. Len(bucket) - d : Limiter!Evicted(start)[k] = bucket[d + k]
           /\ \A i \in 1 .. d : bucket[i] <= start
<1> DEFINE kept == {i \in DOMAIN bucket : \E j \in 1 .. i : bucket[j] > start}
<1>0. \A i \in 1 .. Len(bucket) : bucket[i] \in Nat /\ bucket[i] \in Limiter!Times
  BY DEF Limiter!Times
<1>1. CASE kept = {}
  <2>1. Limiter!Evicted(start) = << >>
    BY <1>1 DEF Limiter!Evicted
  <2>2. \A i \in 1 .. Len(bucket) : bucket[i] <= start
    <3>1. SUFFICES ASSUME NEW i \in 1 .. Len(bucket), bucket[i] > start PROVE FALSE
      BY <1>0
    <3>2. i \in kept
      BY <3>1
    <3>3. QED
      BY <3>2, <1>1
  <2>3. Len(bucket) \in 0 .. Len(bucket) /\ Len(bucket) - Len(bucket) = 0
    OBVIOUS
  <2>4. QED
    BY <2>1, <2>2, <2>3
<1>2. CASE kept # {}
  <2>1. kept \in SUBSET Nat
    OBVIOUS
  <2>2. PICK m \in kept : \A k \in kept : m <= k
    <3> HIDE DEF kept
    <3> QED BY <1>2, <2>1, LeastOf
  <2>3. m \in 1 .. Len(bucket)
    OBVIOUS
  <2>4. Limiter!Min(kept) = m
    <3>1. Limiter!Min(kept) \in kept /\ \A k \in kept : Limiter!Min(kept) <= k
      BY <2>2 DEF Limiter!Min
    <3>2. m <= Limiter!Min(kept) /\ Limiter!Min(kept) <= m
      BY <2>2, <3>1
    <3>3. m \in Nat /\ Limiter!Min(kept) \in Nat
      BY <2>1, <3>1
    <3> HIDE DEF kept
    <3>4. QED
      BY <3>2, <3>3
  <2>5. Limiter!Evicted(start) = SubSeq(bucket, m, Len(bucket))
    <3>1. Limiter!Evicted(start)
            = IF kept = {} THEN << >> ELSE SubSeq(bucket, Limiter!Min(kept), Len(bucket))
      BY DEF Limiter!Evicted
    <3> HIDE DEF kept
    <3>2. QED
      BY <1>2, <2>4, <3>1
  <2>6. \A i \in 1 .. m - 1 : bucket[i] <= start
    <3>1. SUFFICES ASSUME NEW i \in 1 .. m - 1, bucket[i] > start PROVE FALSE
      BY <1>0, <2>3
    <3>2. i \in kept
      BY <2>3, <3>1
    <3>3. m <= i
      BY <2>2, <3>2
    <3>4. QED
      BY <2>3, <3>3
  <2>7. /\ SubSeq(bucket, m, Len(bucket)) \in Seq(Limiter!Times)
        /\ Len(SubSeq(bucket, m, Len(bucket))) = Len(bucket) - (m - 1)
        /\ \A k \in 1 .. Len(bucket) - (m - 1) :
             SubSeq(bucket, m, Len(bucket))[k] = bucket[(m - 1) + k]
    <3>1. Len(bucket) \in Nat
      OBVIOUS
    <3>2. /\ SubSeq(bucket, m, Len(bucket)) \in Seq(Limiter!Times)
          /\ Len(SubSeq(bucket, m, Len(bucket)))
               = IF m <= Len(bucket) THEN Len(bucket) - m + 1 ELSE 0
          /\ \A i \in 1 .. Len(bucket) - m + 1 :
               SubSeq(bucket, m, Len(bucket))[i] = bucket[m + i - 1]
      BY <2>3, <3>1, <1>0, SubSeqProperties
    <3>3. \A k \in Int : m + k - 1 = (m - 1) + k
      BY <2>3
    <3>4. Len(bucket) - (m - 1) = Len(bucket) - m + 1
      BY <2>3, <3>1
    <3>5. QED
      <4>1. ASSUME NEW k \in 1 .. Len(bucket) - (m - 1)
            PROVE  SubSeq(bucket, m, Len(bucket))[k] = bucket[(m - 1) + k]
        <5>1. k \in 1 .. Len(bucket) - m + 1 /\ k \in Int
          BY <2>3, <3>1, <3>4
        <5>2. SubSeq(bucket, m, Len(bucket))[k] = bucket[m + k - 1]
          BY <3>2, <5>1
        <5>3. QED
          BY <3>3, <5>1, <5>2
      <4>2. Len(SubSeq(bucket, m, Len(bucket))) = Len(bucket) - (m - 1)
        BY <2>3, <3>1, <3>2
      <4>3. QED
        BY <3>2, <4>1, <4>2
  <2>8. m - 1 \in 0 .. Len(bucket)
    BY <2>3
  <2>9. QED
    BY <2>5, <2>6, <2>7, <2>8
<1>3. QED
  BY <1>1, <1>2

\* The limiter's sets are counted like any others.
LEMMA SameCounts ==
  \A S : (Limiter!IsFiniteSet(S) <=> IsFiniteSet(S)) /\ Limiter!Cardinality(S) = Cardinality(S)
<1>1. ASSUME NEW S PROVE Limiter!IsFiniteSet(S) <=> IsFiniteSet(S)
  BY DEF Limiter!IsFiniteSet, IsFiniteSet
<1>2. ASSUME NEW S PROVE Limiter!Cardinality(S) = Cardinality(S)
  BY DEF Limiter!Cardinality, Cardinality
<1>3. QED
  BY <1>1, <1>2

\* What the limiter's constants are.
LEMMA LimiterConstants ==
  /\ Limit \in Nat \ {0} /\ Window \in Nat \ {0} /\ MaxDelay \in Nat /\ MaxTime \in Nat
  /\ Gap \in Nat \ {0}
  /\ IsFiniteSet(Threads) /\ Cardinality(Threads) \in Nat \ {0}
<1>1. /\ Limit \in Nat \ {0} /\ Window \in Nat \ {0} /\ MaxDelay \in 0 .. Window - 1
      /\ MaxTime \in Nat /\ IsFiniteSet(Threads) /\ Threads # {}
  BY LimiterAssumption, SameCounts DEF Limiter!ConstantsAssumption
<1>2. Cardinality(Threads) \in Nat \ {0}
  BY <1>1, FS_CardinalityType, FS_EmptySet
<1>3. MaxDelay \in Nat /\ Gap \in Nat \ {0}
  BY <1>1 DEF Gap
<1>4. QED
  BY <1>1, <1>2, <1>3

\* What the state says of the numbers and sequences in it.
LEMMA LimiterTypes ==
  ASSUME LimiterInv
  PROVE  /\ now \in Nat
         /\ bucket \in Seq(Nat) /\ Len(bucket) \in Nat
         /\ \A k \in 1 .. Len(bucket) : bucket[k] \in Nat
         /\ admitted \in Seq(Nat) /\ Len(admitted) \in Nat /\ DOMAIN admitted = 1 .. Len(admitted)
         /\ \A i \in 1 .. Len(admitted) : admitted[i] \in Nat
         /\ \A t \in Threads : stamp[t] \in Nat
<1>1. Limiter!Times \subseteq Nat
  BY LimiterConstants DEF Limiter!Times
<1>2. bucket \in Seq(Limiter!Times) /\ admitted \in Seq(Limiter!Times)
      /\ now \in Limiter!Times /\ stamp \in [Threads -> Limiter!Times]
  BY DEF LimiterInv, Limiter!TypeOK
<1>3. bucket \in Seq(Nat) /\ admitted \in Seq(Nat)
  BY <1>1, <1>2, SeqMonotonic
<1>4. /\ Len(bucket) \in Nat /\ \A k \in 1 .. Len(bucket) : bucket[k] \in Nat
      /\ Len(admitted) \in Nat /\ DOMAIN admitted = 1 .. Len(admitted)
      /\ \A i \in 1 .. Len(admitted) : admitted[i] \in Nat
  BY <1>3, LenProperties, ElementOfSeq
<1>5. now \in Nat /\ \A t \in Threads : stamp[t] \in Nat
  BY <1>1, <1>2
<1>6. QED
  BY <1>3, <1>4, <1>5

\* The limiters start with nothing admitted.
LEMMA LimiterStarts == Limiter!Init => LimiterInv
<1> SUFFICES ASSUME Limiter!Init PROVE LimiterInv
  OBVIOUS
<1>1. Limiter!TypeOK
  BY LimiterConstants DEF Limiter!Init, Limiter!TypeOK, Limiter!Times
<1>2. StampsAreFresh
  BY DEF Limiter!Init, StampsAreFresh
<1>3. AdmittedInOrder /\ Apart(admitted, Most, Gap)
  BY DEF Limiter!Init, AdmittedInOrder, Ordered, Apart
<1>4. BucketIsRecent
  BY DEF Limiter!Init, BucketIsRecent
<1>5. SetIsRecent
  <2>1. Counted = {}
    BY DEF Limiter!Init, Counted
  <2>2. IsFiniteSet({}) /\ Cardinality({}) = 0
    BY FS_EmptySet
  <2>3. backend = "redis" => Cardinality(zset) + Cardinality(Counted) <= Most
    BY <2>1, <2>2, LimiterConstants DEF Limiter!Init, Most
  <2>4. QED
    BY <2>2, <2>3 DEF Limiter!Init, SetIsRecent
<1>6. QED
  BY <1>1, <1>2, <1>3, <1>4, <1>5 DEF LimiterInv

\* Starting takes a stamp, and changes nothing else.
LEMMA StartKeeps ==
  ASSUME LimiterInv, NEW t \in Threads, Limiter!Start(t)
  PROVE  LimiterInv'
<1> USE DEF Limiter!Start
<1>1. Limiter!TypeOK'
  BY DEF LimiterInv, Limiter!TypeOK
<1>2. StampsAreFresh'
  BY LimiterTypes, LimiterConstants DEF LimiterInv, StampsAreFresh, Limiter!TypeOK
<1>3. AdmittedInOrder'
  BY DEF LimiterInv, AdmittedInOrder, Ordered
<1>4. Most' = Most /\ Apart(admitted, Most, Gap)'
  BY DEF LimiterInv, Apart, Most, Gap
<1>5. BucketIsRecent'
  BY DEF LimiterInv, BucketIsRecent, Limiter!TypeOK, Gap
<1>6. SetIsRecent'
  <2>1. Counted' = Counted
    BY DEF Counted, LimiterInv, Limiter!TypeOK
  <2>2. QED
    BY <1>4, <2>1 DEF LimiterInv, SetIsRecent, Gap
<1>7. QED
  BY <1>1, <1>2, <1>3, <1>4, <1>5, <1>6 DEF LimiterInv

\* Time passes while no thread has waited for too long.
LEMMA PassKeeps ==
  ASSUME LimiterInv, Limiter!Pass
  PROVE  LimiterInv'
<1> USE DEF Limiter!Pass
<1>1. Limiter!TypeOK'
  BY LimiterTypes, LimiterConstants DEF LimiterInv, Limiter!TypeOK, Limiter!Times
<1>2. StampsAreFresh'
  BY LimiterTypes, LimiterConstants DEF LimiterInv, StampsAreFresh, Limiter!TypeOK
<1>3. AdmittedInOrder'
  BY LimiterTypes DEF LimiterInv, AdmittedInOrder, Ordered
<1>4. Most' = Most /\ Apart(admitted, Most, Gap)'
  BY DEF LimiterInv, Apart, Most, Gap
<1>5. BucketIsRecent'
  <2>1. SUFFICES ASSUME backend = "memory",
                        NEW i \in 1 .. Len(admitted) - Len(bucket)
                 PROVE  admitted[i] + Gap <= now'
    BY DEF LimiterInv, BucketIsRecent, Gap
  <2>2. admitted[i] + Gap <= now /\ i \in 1 .. Len(admitted)
    BY <2>1, LimiterTypes DEF LimiterInv, BucketIsRecent
  <2>3. QED
    BY <2>2, LimiterTypes, LimiterConstants
<1>6. SetIsRecent'
  <2>1. Counted' = Counted
    BY DEF Counted
  <2>2. SUFFICES ASSUME backend = "redis", NEW i \in DOMAIN admitted, admitted[i] + Gap > now'
                 PROVE  admitted[i] + Gap > now
    BY <1>4, <2>1 DEF LimiterInv, SetIsRecent, Gap
  <2>3. QED
    BY <2>2, LimiterTypes, LimiterConstants
<1>7. QED
  BY <1>1, <1>2, <1>3, <1>4, <1>5, <1>6 DEF LimiterInv

\* In process: what is evicted is a window ago, and a request is admitted only
\* if the bucket is left with room.
LEMMA AllowInMemoryKeeps ==
  ASSUME LimiterInv, NEW t \in Threads, Limiter!AllowInMemory(t)
  PROVE  LimiterInv'
<1> DEFINE left == Limiter!Evicted(stamp[t] - Window)
           n == Len(admitted)
           b == Len(bucket)
<1>1. /\ backend = "memory" /\ pc[t] = "stamped"
      /\ IF Limiter!Full(Len(left))
         THEN bucket' = left /\ Limiter!Deny(t)
         ELSE bucket' = Append(left, stamp[t]) /\ Limiter!Admit(t)
      /\ UNCHANGED <<backend, now, zset, stamp>>
  BY DEF Limiter!AllowInMemory
<1>2. /\ now \in Nat /\ stamp[t] \in Nat /\ b \in Nat /\ n \in Nat
      /\ admitted \in Seq(Nat) /\ DOMAIN admitted = 1 .. n
      /\ \A k \in 1 .. b : bucket[k] \in Nat
      /\ \A i \in 1 .. n : admitted[i] \in Nat
  BY LimiterTypes
<1>3. /\ Limiter!TypeOK /\ StampsAreFresh /\ AdmittedInOrder /\ SetIsRecent
      /\ Apart(admitted, Most, Gap)
  BY DEF LimiterInv
<1>4. /\ b <= n
      /\ \A u \in Threads : pc[u] # "counted"
      /\ \A i \in 1 .. n - b : admitted[i] + Gap <= now
      /\ \A k \in 1 .. b : admitted[n - b + k] <= bucket[k] + MaxDelay
  BY <1>1 DEF LimiterInv, BucketIsRecent
<1>5. /\ Limit \in Nat \ {0} /\ Window \in Nat \ {0} /\ MaxDelay \in Nat /\ MaxTime \in Nat
      /\ Gap \in Nat \ {0} /\ Gap = Window - MaxDelay /\ Most = Limit
  <2>1. Gap = Window - MaxDelay
    BY DEF Gap
  <2>2. Most = Limit
    BY <1>1 DEF Most
  <2>3. QED
    BY <2>1, <2>2, LimiterConstants
<1>6. stamp[t] <= now /\ now <= stamp[t] + MaxDelay
  <2>1. stamp[t] <= now /\ now - stamp[t] <= MaxDelay
    BY <1>1, <1>3 DEF StampsAreFresh
  <2>2. QED
    BY <2>1, <1>2, <1>5
<1>7. /\ bucket \in Seq(Limiter!Times) /\ now \in Limiter!Times /\ stamp[t] \in Limiter!Times
      /\ admitted \in Seq(Limiter!Times)
      /\ pc \in [Threads -> {"idle", "stamped", "counted"}]
  BY <1>3 DEF Limiter!TypeOK
<1>8. PICK d \in 0 .. b :
        /\ left \in Seq(Limiter!Times)
        /\ Len(left) = b - d
        /\ \A k \in 1 .. b - d : left[k] = bucket[d + k]
        /\ \A i \in 1 .. d : bucket[i] <= stamp[t] - Window
  <2>1. stamp[t] - Window \in Int
    BY <1>2, <1>5
  <2> HIDE DEF left
  <2>2. left = Limiter!Evicted(stamp[t] - Window)
    BY DEF left
  <2>3. QED
    BY <2>1, <2>2, <1>5, <1>7, EvictedIsTheEnd
<1>9. \A i \in 1 .. n - (b - d) : admitted[i] + Gap <= now
  <2>1. SUFFICES ASSUME NEW i \in 1 .. n - (b - d), ~ (i \in 1 .. n - b)
                 PROVE  admitted[i] + Gap <= now
    BY <1>4
  <2>2. PICK k \in 1 .. d : i = n - b + k
    <3>1. i - (n - b) \in 1 .. d /\ i = n - b + (i - (n - b))
      BY <2>1, <1>2, <1>8
    <3>2. QED
      BY <3>1
  <2>3. k \in 1 .. b /\ i \in 1 .. n
    BY <2>2, <1>2, <1>4
  <2>4. admitted[i] <= bucket[k] + MaxDelay /\ bucket[k] <= stamp[t] - Window
    BY <2>2, <2>3, <1>4, <1>8
  <2>5. admitted[i] \in Nat /\ bucket[k] \in Nat
    BY <2>3, <1>2
  <2>6. QED
    <3>1. PICK a \in Nat : a = admitted[i]
      BY <2>5
    <3>2. PICK c \in Nat : c = bucket[k]
      BY <2>5
    <3>3. a <= c + MaxDelay /\ c <= stamp[t] - Window
      BY <2>4, <3>1, <3>2
    <3>4. a + Gap <= now
      BY <3>3, <1>2, <1>5, <1>6
    <3>5. QED
      BY <3>1, <3>4
<1>10. \A k \in 1 .. b - d : admitted[n - (b - d) + k] <= left[k] + MaxDelay
  <2>1. SUFFICES ASSUME NEW k \in 1 .. b - d
                 PROVE  admitted[n - (b - d) + k] <= left[k] + MaxDelay
    OBVIOUS
  <2>2. d + k \in 1 .. b /\ n - (b - d) + k = n - b + (d + k)
    BY <1>2
  <2>3. left[k] = bucket[d + k]
    BY <1>8
  <2>4. QED
    BY <2>2, <2>3, <1>4
<1>11. Most' = Most /\ pc' = [pc EXCEPT ![t] = "idle"] /\ \A u \in Threads : pc'[u] # "counted"
  BY <1>1, <1>4, <1>7 DEF Most, Limiter!Admit, Limiter!Deny
<1>12. StampsAreFresh'
  BY <1>1, <1>3, <1>7, <1>11 DEF StampsAreFresh
<1>13. SetIsRecent'
  BY <1>1 DEF SetIsRecent
<1> HIDE DEF left
<1>14. CASE Limiter!Full(Len(left))
  <2>1. bucket' = left /\ admitted' = admitted
    BY <1>1, <1>14 DEF Limiter!Deny
  <2>2. Limiter!TypeOK'
    BY <2>1, <1>1, <1>3, <1>8, <1>11, <1>7 DEF Limiter!TypeOK
  <2>3. AdmittedInOrder' /\ Apart(admitted, Most, Gap)'
    BY <2>1, <1>1, <1>3, <1>11 DEF AdmittedInOrder, Ordered, Apart, Gap
  <2>4. BucketIsRecent'
    <3>1. Len(bucket') <= Len(admitted')
      BY <2>1, <1>2, <1>4, <1>8
    <3>2. \A i \in 1 .. Len(admitted') - Len(bucket') : admitted'[i] + Gap <= now'
      BY <2>1, <1>1, <1>8, <1>9
    <3>3. \A k \in 1 .. Len(bucket') :
            admitted'[Len(admitted') - Len(bucket') + k] <= bucket'[k] + MaxDelay
      BY <2>1, <1>8, <1>10
    <3>4. QED
      BY <3>1, <3>2, <3>3, <1>11 DEF BucketIsRecent, Gap
  <2>5. QED
    BY <2>2, <2>3, <2>4, <1>12, <1>13 DEF LimiterInv
<1>15. CASE ~ Limiter!Full(Len(left))
  <2>1. bucket' = Append(left, stamp[t]) /\ admitted' = Append(admitted, now)
    BY <1>1, <1>15 DEF Limiter!Admit
  <2>2. b - d < Limit
    BY <1>2, <1>5, <1>8, <1>15 DEF Limiter!Full
  <2>3. /\ Len(admitted') = n + 1
        /\ \A i \in 1 .. n : admitted'[i] = admitted[i]
        /\ admitted'[n + 1] = now
        /\ Ordered(admitted')
        /\ \A i \in DOMAIN admitted' : admitted'[i] <= now
        /\ Apart(admitted', Most, Gap)
    <3>1. Most \in Nat \ {0} /\ Gap \in Nat
      BY <1>5
    <3>2. Ordered(admitted) /\ \A i \in DOMAIN admitted : admitted[i] <= now
      BY <1>3 DEF AdmittedInOrder
    <3>3. \A i \in DOMAIN admitted : i + Most <= n + 1 => admitted[i] + Gap <= now
      <4>1. SUFFICES ASSUME NEW i \in 1 .. n, i + Limit <= n + 1
                     PROVE  i \in 1 .. n - (b - d)
        BY <1>2, <1>5, <1>9
      <4>2. QED
        BY <4>1, <2>2, <1>2, <1>5
    <3>4. Apart(admitted, Most, Gap) /\ admitted \in Seq(Nat) /\ now \in Nat
      BY <1>2, <1>3
    <3>5. \A i \in DOMAIN admitted : i + Most <= Len(admitted) + 1 => admitted[i] + Gap <= now
      BY <3>3
    <3>6. /\ Len(Append(admitted, now)) = Len(admitted) + 1
          /\ \A i \in 1 .. Len(admitted) : Append(admitted, now)[i] = admitted[i]
          /\ Append(admitted, now)[Len(admitted) + 1] = now
          /\ Ordered(Append(admitted, now))
          /\ \A i \in DOMAIN Append(admitted, now) : Append(admitted, now)[i] <= now
          /\ Apart(Append(admitted, now), Most, Gap)
      <4> HIDE DEF n, b, left
      <4> QED BY <3>1, <3>2, <3>4, <3>5, AppendKeepsApart
    <3>7. QED
      BY <3>6, <2>1
  <2>4. /\ Len(bucket') = b - d + 1
        /\ \A k \in 1 .. b - d : bucket'[k] = left[k]
        /\ bucket'[b - d + 1] = stamp[t]
        /\ bucket' \in Seq(Limiter!Times) /\ admitted' \in Seq(Limiter!Times)
    BY <2>1, <1>7, <1>8, AppendProperties
  <2>5. Limiter!TypeOK'
    BY <2>4, <1>1, <1>3, <1>11, <1>7 DEF Limiter!TypeOK
  <2>6. AdmittedInOrder' /\ Apart(admitted, Most, Gap)'
    BY <2>3, <1>1, <1>11 DEF AdmittedInOrder, Apart, Gap
  <2>7. BucketIsRecent'
    <3>1. Len(bucket') <= Len(admitted') /\ Len(admitted') - Len(bucket') = n - (b - d)
      BY <2>3, <2>4, <1>2, <1>4
    <3>2. \A i \in 1 .. n - (b - d) : admitted'[i] + Gap <= now'
      BY <2>3, <1>1, <1>2, <1>9
    <3>3. ASSUME NEW k \in 1 .. b - d + 1
          PROVE  admitted'[n - (b - d) + k] <= bucket'[k] + MaxDelay
      <4>1. CASE k \in 1 .. b - d
        <5>1. n - (b - d) + k \in 1 .. n
          BY <4>1, <1>2, <1>4
        <5>2. QED
          BY <4>1, <5>1, <2>3, <2>4, <1>10
      <4>2. CASE k = b - d + 1
        <5>1. n - (b - d) + k = n + 1
          BY <4>2, <1>2
        <5>2. admitted'[n + 1] = now /\ bucket'[b - d + 1] = stamp[t]
          BY <2>3, <2>4
        <5>3. QED
          BY <4>2, <5>1, <5>2, <1>6
      <4>3. k \in 1 .. b - d \/ k = b - d + 1
        BY <1>2
      <4>4. QED
        BY <4>1, <4>2, <4>3
    <3>4. QED
      BY <3>1, <3>2, <3>3, <2>4, <1>11 DEF BucketIsRecent, Gap
  <2>8. QED
    BY <2>5, <2>6, <2>7, <1>12, <1>13, <1>1 DEF LimiterInv, SetIsRecent
<1>16. QED
  BY <1>14, <1>15

\* With Redis the members of the set are as many as the admissions of the last
\* gap, at least.
LEMMA RecentAreInTheSet ==
  ASSUME LimiterInv, backend = "redis", NEW i \in DOMAIN admitted, admitted[i] + Gap > now
  PROVE  Len(admitted) - i + 1 <= Cardinality(zset)
<1> DEFINE n == Len(admitted)
           U == {m.uuid : m \in zset}
           f == [m \in zset |-> m.uuid]
<1>1. /\ now \in Nat /\ n \in Nat /\ Gap \in Nat /\ i \in 1 .. n /\ DOMAIN admitted = 1 .. n
      /\ \A k \in 1 .. n : admitted[k] \in Nat
  BY LimiterTypes, LimiterConstants
<1>2. /\ IsFiniteSet(zset)
      /\ \A k \in DOMAIN admitted : admitted[k] + Gap > now => \E m \in zset : m.uuid = k
      /\ Ordered(admitted)
  BY DEF LimiterInv, SetIsRecent, AdmittedInOrder
<1>3. i .. n \subseteq U
  <2>1. SUFFICES ASSUME NEW k \in i .. n PROVE k \in U
    OBVIOUS
  <2>2. k \in 1 .. n /\ i <= k
    BY <1>1
  <2>3. admitted[i] <= admitted[k]
    BY <2>2, <1>1, <1>2 DEF Ordered
  <2>4. admitted[k] + Gap > now
    <3>1. admitted[i] \in Nat /\ admitted[k] \in Nat
      BY <2>2, <1>1
    <3>2. QED
      BY <2>3, <3>1, <1>1
  <2>5. QED
    BY <2>2, <2>4, <1>1, <1>2
<1>4. f \in Surjection(zset, U)
  BY DEF Surjection
<1>5. IsFiniteSet(U) /\ Cardinality(U) <= Cardinality(zset)
  <2> HIDE DEF f, U
  <2> QED BY <1>2, <1>4, FS_Surjection
<1>6. Cardinality(i .. n) = n - i + 1
  <2>1. i \in Int /\ n \in Int
    BY <1>1
  <2>2. Cardinality(i .. n) = IF i > n THEN 0 ELSE n - i + 1
    BY <2>1, FS_Interval
  <2>3. QED
    BY <2>2, <1>1
<1>7. Cardinality(i .. n) <= Cardinality(U)
  <2> HIDE DEF f, U
  <2> QED BY <1>3, <1>5, FS_Subset
<1>8. Cardinality(U) \in Nat /\ Cardinality(zset) \in Nat
  <2> HIDE DEF f, U
  <2> QED BY <1>2, <1>5, FS_CardinalityType
<1>9. QED
  <2> HIDE DEF f, U
  <2> QED BY <1>1, <1>5, <1>6, <1>7, <1>8

\* With Redis, first step: old members go, and the others are counted.
LEMMA CountInRedisKeeps ==
  ASSUME LimiterInv, NEW t \in Threads, Limiter!CountInRedis(t)
  PROVE  LimiterInv'
<1>1. /\ backend = "redis" /\ pc[t] = "stamped"
      /\ zset' = {m \in zset : m.score > stamp[t] - Window}
      /\ admitted' = admitted
      /\ \/ pc' = [pc EXCEPT ![t] = "idle"]
         \/ pc' = [pc EXCEPT ![t] = "counted"] /\ ~ Limiter!Full(Cardinality(zset'))
      /\ UNCHANGED <<backend, now, bucket, stamp>>
  BY SameCounts DEF Limiter!CountInRedis, Limiter!Deny
<1>2. /\ Limiter!TypeOK /\ StampsAreFresh /\ AdmittedInOrder /\ Apart(admitted, Most, Gap)
      /\ pc \in [Threads -> {"idle", "stamped", "counted"}]
      /\ zset \subseteq [score: Limiter!Times, uuid: Nat]
  BY DEF LimiterInv, Limiter!TypeOK
<1>3. /\ IsFiniteSet(zset) /\ Cardinality(zset) + Cardinality(Counted) <= Most
      /\ \A m \in zset : m.uuid \in DOMAIN admitted /\ admitted[m.uuid] <= m.score + MaxDelay
      /\ \A i \in DOMAIN admitted : admitted[i] + Gap > now => \E m \in zset : m.uuid = i
  BY <1>1 DEF LimiterInv, SetIsRecent
<1>4. Limiter!TypeOK'
  BY <1>1, <1>2 DEF Limiter!TypeOK
<1>5. StampsAreFresh'
  BY <1>1, <1>2 DEF StampsAreFresh
<1>6. AdmittedInOrder' /\ Most' = Most /\ Apart(admitted, Most, Gap)'
  BY <1>1, <1>2 DEF AdmittedInOrder, Ordered, Apart, Most, Gap
<1>7. BucketIsRecent'
  BY <1>1 DEF BucketIsRecent
<1>8. zset' \subseteq zset /\ IsFiniteSet(zset') /\ Cardinality(zset') <= Cardinality(zset)
  <2>1. zset' \in SUBSET zset
    BY <1>1
  <2>2. QED
    BY <2>1, <1>3, FS_Subset
<1>9. \A S \in SUBSET Threads : IsFiniteSet(S) /\ Cardinality(S) <= Cardinality(Threads)
                                /\ Cardinality(S) \in Nat
  BY LimiterConstants, FS_Subset, FS_CardinalityType
<1>10. Cardinality(zset') + Cardinality(Counted') <= Most
  <2>1. Counted' \in SUBSET Threads /\ Counted \in SUBSET Threads
    BY DEF Counted
  <2>2. /\ Cardinality(zset) \in Nat /\ Cardinality(zset') \in Nat
        /\ Cardinality(Counted) \in Nat /\ Cardinality(Counted') \in Nat
        /\ Cardinality(Counted') <= Cardinality(Threads)
        /\ Cardinality(Threads) \in Nat /\ Limit \in Nat /\ Most \in Int
    BY <2>1, <1>3, <1>8, <1>9, FS_CardinalityType, LimiterConstants DEF Most
  <2>3. CASE pc' = [pc EXCEPT ![t] = "idle"]
    <3>1. Counted' = Counted
      BY <2>3, <1>1, <1>2 DEF Counted
    <3>2. QED
      BY <3>1, <2>2, <1>3, <1>8
  <2>4. CASE ~ Limiter!Full(Cardinality(zset'))
    <3>1. Cardinality(zset') < Limit /\ Most = Limit + Cardinality(Threads) - 1
      BY <2>2, <2>4, <1>1 DEF Limiter!Full, Most
    <3>2. QED
      BY <3>1, <2>2
  <2>5. QED
    BY <2>3, <2>4, <1>1
<1>11. ASSUME NEW i \in DOMAIN admitted, admitted[i] + Gap > now
       PROVE  \E m \in zset' : m.uuid = i
  <2>1. PICK m \in zset : m.uuid = i
    BY <1>3, <1>11
  <2>2. /\ admitted[i] <= m.score + MaxDelay /\ m.score \in Nat /\ admitted[i] \in Nat
        /\ now \in Nat /\ stamp[t] \in Nat /\ stamp[t] <= now
    BY <2>1, <1>2, <1>3, LimiterTypes, LimiterConstants DEF Limiter!Times, StampsAreFresh
  <2>3. m.score > stamp[t] - Window
    BY <2>2, <1>11, LimiterConstants DEF Gap
  <2>4. QED
    BY <2>1, <2>3, <1>1
<1>12. SetIsRecent'
  BY <1>1, <1>3, <1>6, <1>8, <1>10, <1>11 DEF SetIsRecent, Gap
<1>13. QED
  BY <1>4, <1>5, <1>6, <1>7, <1>12 DEF LimiterInv

\* With Redis, second step: the request is added, whoever was added since it was
\* counted.
LEMMA AddToRedisKeeps ==
  ASSUME LimiterInv, NEW t \in Threads, Limiter!AddToRedis(t)
  PROVE  LimiterInv'
<1> DEFINE n == Len(admitted)
           new == [score |-> stamp[t], uuid |-> n + 1]
<1>1. /\ backend = "redis" /\ pc[t] = "counted"
      /\ zset' = zset \cup {new}
      /\ admitted' = Append(admitted, now)
      /\ pc' = [pc EXCEPT ![t] = "idle"]
      /\ UNCHANGED <<backend, now, bucket, stamp>>
  BY DEF Limiter!AddToRedis, Limiter!Admit
<1>2. /\ Limiter!TypeOK /\ StampsAreFresh /\ AdmittedInOrder /\ Apart(admitted, Most, Gap)
      /\ pc \in [Threads -> {"idle", "stamped", "counted"}]
      /\ zset \subseteq [score: Limiter!Times, uuid: Nat]
      /\ now \in Limiter!Times /\ stamp \in [Threads -> Limiter!Times]
      /\ admitted \in Seq(Limiter!Times)
  BY DEF LimiterInv, Limiter!TypeOK
<1>3. /\ IsFiniteSet(zset) /\ Cardinality(zset) + Cardinality(Counted) <= Most
      /\ \A m \in zset : m.uuid \in DOMAIN admitted /\ admitted[m.uuid] <= m.score + MaxDelay
      /\ \A i \in DOMAIN admitted : admitted[i] + Gap > now => \E m \in zset : m.uuid = i
  BY <1>1 DEF LimiterInv, SetIsRecent
<1>4. /\ now \in Nat /\ stamp[t] \in Nat /\ n \in Nat
      /\ admitted \in Seq(Nat) /\ DOMAIN admitted = 1 .. n
      /\ \A i \in 1 .. n : admitted[i] \in Nat
  BY LimiterTypes
<1>5. /\ stamp[t] <= now /\ now <= stamp[t] + MaxDelay
  <2>1. stamp[t] <= now /\ now - stamp[t] <= MaxDelay
    BY <1>1, <1>2 DEF StampsAreFresh
  <2>2. QED
    BY <2>1, <1>4, LimiterConstants
<1>6. /\ IsFiniteSet(Counted) /\ Cardinality(Counted) \in Nat \ {0}
      /\ Counted' = Counted \ {t}
      /\ Cardinality(Counted') = Cardinality(Counted) - 1
  <2>1. Counted \in SUBSET Threads /\ t \in Counted
    BY <1>1 DEF Counted
  <2>2. IsFiniteSet(Counted) /\ Cardinality(Counted) \in Nat
    BY <2>1, LimiterConstants, FS_Subset, FS_CardinalityType
  <2>3. Cardinality(Counted) # 0
    BY <2>1, <2>2, FS_EmptySet
  <2>4. Counted' = Counted \ {t}
    BY <1>1, <1>2 DEF Counted
  <2>5. Cardinality(Counted \ {t}) = Cardinality(Counted) - 1
    BY <2>1, <2>2, FS_RemoveElement
  <2>6. QED
    BY <2>2, <2>3, <2>4, <2>5
<1>7. /\ IsFiniteSet(zset') /\ Cardinality(zset) \in Nat
      /\ Cardinality(zset') = Cardinality(zset) + 1
  <2>1. new \notin zset
    <3>1. ASSUME new \in zset PROVE FALSE
      <4>1. new.uuid = n + 1 /\ new.uuid \in 1 .. n
        BY <3>1, <1>3, <1>4
      <4>2. QED
        BY <4>1, <1>4
    <3>2. QED
      BY <3>1
  <2> HIDE DEF new
  <2>2. QED
    BY <2>1, <1>1, <1>3, FS_AddElement, FS_CardinalityType
<1>8. Most \in Nat \ {0} /\ Most' = Most /\ Gap \in Nat
  <2>1. Most = Limit + Cardinality(Threads) - 1 /\ Most' = Most
    BY <1>1 DEF Most
  <2>2. Cardinality(Threads) # 0
    BY LimiterConstants, FS_EmptySet
  <2>3. QED
    BY <2>1, <2>2, LimiterConstants
<1>9. ASSUME NEW i \in DOMAIN admitted, i + Most <= n + 1
      PROVE  admitted[i] + Gap <= now
  <2>1. SUFFICES ASSUME admitted[i] + Gap > now PROVE FALSE
    BY <1>4, <1>8
  <2>2. n - i + 1 <= Cardinality(zset)
    BY <2>1, <1>1, RecentAreInTheSet
  <2>3. i \in Nat
    BY <1>4
  <2> HIDE DEF n
  <2>4. PICK z \in Nat, c \in Nat \ {0} : z = Cardinality(zset) /\ c = Cardinality(Counted)
    BY <1>6, <1>7
  <2>5. PICK m \in Nat : m = Most
    BY <1>8
  <2>6. z + c <= m /\ n - i + 1 <= z /\ i + m <= n + 1
    BY <2>2, <2>4, <2>5, <1>3, <1>9, Zenon
  <2>7. QED
    BY <2>3, <2>6, <1>4, SMT
<1>10. /\ Len(admitted') = n + 1
       /\ \A i \in 1 .. n : admitted'[i] = admitted[i]
       /\ admitted'[n + 1] = now
       /\ Ordered(admitted')
       /\ \A i \in DOMAIN admitted' : admitted'[i] <= now
       /\ Apart(admitted', Most, Gap)
  <2>1. Ordered(admitted) /\ \A i \in DOMAIN admitted : admitted[i] <= now
    BY <1>2 DEF AdmittedInOrder
  <2>2. /\ Len(Append(admitted, now)) = Len(admitted) + 1
        /\ \A i \in 1 .. Len(admitted) : Append(admitted, now)[i] = admitted[i]
        /\ Append(admitted, now)[Len(admitted) + 1] = now
        /\ Ordered(Append(admitted, now))
        /\ \A i \in DOMAIN Append(admitted, now) : Append(admitted, now)[i] <= now
        /\ Apart(Append(admitted, now), Most, Gap)
    <3>1. \A i \in DOMAIN admitted : i + Most <= Len(admitted) + 1 => admitted[i] + Gap <= now
      BY <1>9
    <3>2. Apart(admitted, Most, Gap) /\ admitted \in Seq(Nat) /\ now \in Nat
      BY <1>2, <1>4
    <3> HIDE DEF n, new
    <3>3. QED
      BY <2>1, <3>1, <3>2, <1>8, AppendKeepsApart
  <2>3. QED
    BY <2>2, <1>1
<1>11. Limiter!TypeOK'
  <2>1. admitted' \in Seq(Limiter!Times)
    BY <1>1, <1>2, AppendProperties
  <2>2. new \in [score: Limiter!Times, uuid: Nat]
    BY <1>2, <1>4
  <2>3. QED
    BY <2>1, <2>2, <1>1, <1>2 DEF Limiter!TypeOK
<1>12. StampsAreFresh'
  BY <1>1, <1>2 DEF StampsAreFresh
<1>13. AdmittedInOrder' /\ Apart(admitted, Most, Gap)'
  BY <1>1, <1>8, <1>10 DEF AdmittedInOrder, Apart, Gap
<1>14. BucketIsRecent'
  BY <1>1 DEF BucketIsRecent
<1>15. DOMAIN admitted' = 1 .. n + 1
  BY <1>10, <1>11, LenProperties DEF Limiter!TypeOK
<1>16. Cardinality(zset') + Cardinality(Counted') <= Most'
  <2> HIDE DEF new, n
  <2> QED BY <1>3, <1>6, <1>7, <1>8
<1>17. ASSUME NEW m \in zset'
       PROVE  m.uuid \in DOMAIN admitted' /\ admitted'[m.uuid] <= m.score + MaxDelay
  <2>1. CASE m \in zset
    <3>1. m.uuid \in 1 .. n /\ admitted[m.uuid] <= m.score + MaxDelay
      BY <2>1, <1>3, <1>4
    <3>2. QED
      BY <3>1, <1>4, <1>10, <1>15
  <2>2. CASE m = new
    BY <2>2, <1>4, <1>5, <1>10, <1>15
  <2>3. QED
    BY <2>1, <2>2, <1>1
<1>18. ASSUME NEW i \in DOMAIN admitted', admitted'[i] + Gap > now'
       PROVE  \E m \in zset' : m.uuid = i
  <2>1. CASE i \in 1 .. n
    <3>1. admitted[i] + Gap > now
      BY <2>1, <1>1, <1>10, <1>18
    <3>2. PICK m \in zset : m.uuid = i
      BY <2>1, <3>1, <1>3, <1>4
    <3>3. QED
      BY <3>2, <1>1
  <2>2. CASE i = n + 1
    <3>1. new \in zset' /\ new.uuid = i
      BY <2>2, <1>1
    <3>2. QED
      BY <3>1
  <2>3. i \in 1 .. n \/ i = n + 1
    BY <1>4, <1>15
  <2>4. QED
    BY <2>1, <2>2, <2>3
<1>19. SetIsRecent'
  BY <1>7, <1>16, <1>17, <1>18 DEF SetIsRecent, Gap
<1>20. QED
  BY <1>11, <1>12, <1>13, <1>14, <1>19 DEF LimiterInv

-----------------------------------------------------------------------------
(* The limiters                                                             *)

\* Every step of the limiters keeps the invariant.
LEMMA LimiterKeeps == LimiterInv /\ [Limiter!Next]_Limiter!vars => LimiterInv'
<1> SUFFICES ASSUME LimiterInv, [Limiter!Next]_Limiter!vars PROVE LimiterInv'
  OBVIOUS
<1>1. CASE UNCHANGED Limiter!vars
  <2>1. /\ backend' = backend /\ now' = now /\ bucket' = bucket /\ zset' = zset
        /\ pc' = pc /\ stamp' = stamp /\ admitted' = admitted
    BY <1>1 DEF Limiter!vars
  <2>2. QED
    BY <2>1 DEF LimiterInv, Limiter!TypeOK, StampsAreFresh, AdmittedInOrder, Ordered,
      BucketIsRecent, SetIsRecent, Counted, Most, Gap, Apart
<1>2. CASE Limiter!Next
  BY <1>2, StartKeeps, AllowInMemoryKeeps, CountInRedisKeeps, AddToRedisKeeps, PassKeeps
    DEF Limiter!Next
<1>3. QED
  BY <1>1, <1>2

\* The invariant bounds every window.
LEMMA LimiterInvBounds == LimiterInv => WindowsHold
<1> SUFFICES ASSUME LimiterInv PROVE WindowsHold
  OBVIOUS
<1>1. Most \in Nat \ {0} /\ Gap \in Nat
  BY LimiterConstants DEF Most
<1>2. ASSUME NEW x \in Limiter!Times
      PROVE  Limiter!AdmittedIn(x, Window - MaxDelay) <= Most
  <2>1. admitted \in Seq(Nat) /\ x \in Nat /\ Apart(admitted, Most, Gap)
    BY LimiterTypes, LimiterConstants DEF LimiterInv, Limiter!Times
  <2>2. Cardinality({i \in DOMAIN admitted : x <= admitted[i] /\ admitted[i] < x + Gap}) <= Most
    BY <1>1, <2>1, ApartIsFew
  <2>3. QED
    BY <2>2, SameCounts DEF Limiter!AdmittedIn, Gap
<1>3. QED
  BY <1>2, SameCounts
    DEF WindowsHold, Limiter!WindowsHold, Limiter!MemoryWindow, Limiter!RedisWindow, Most

\* The limiters' state is well-typed.
THEOREM LimiterTypeCorrect == Limiter!Spec => []Limiter!TypeOK
<1>1. LimiterInv => Limiter!TypeOK
  BY DEF LimiterInv
<1>2. QED
  BY <1>1, LimiterStarts, LimiterKeeps, PTL DEF Limiter!Spec

-----------------------------------------------------------------------------
(* CSV: the rows that are kept                                              *)

LEMMA CsvLists ==
  \A list, S : Csv!AtPlaces(list, S) = AtPlaces(list, S)
BY DEF Csv!AtPlaces, AtPlaces, Csv!Place, Place, Csv!Rank, Rank, Csv!Cardinality, Cardinality

\* Files are sequences of rows whose cells read as days and numbers.
LEMMA CsvFileTyped ==
  ASSUME NEW rs \in CsvFiles
  PROVE  /\ rs \in Seq({rs[i] : i \in DOMAIN rs}) /\ Len(rs) \in Nat /\ DOMAIN rs = 1 .. Len(rs)
         /\ \A i \in DOMAIN rs : /\ DayOf[rs[i].tx_date] \in Int \cup {NoDay}
                                 /\ ValueOf[rs[i].amount] \in Int \cup {NaN, NoValue}
<1>1. /\ rs \in Seq({rs[i] : i \in DOMAIN rs})
      /\ \A i \in DOMAIN rs : rs[i].tx_date \in DOMAIN DayOf /\ rs[i].amount \in DOMAIN ValueOf
      /\ \A cell \in DOMAIN DayOf : DayOf[cell] \in Int \cup {NoDay}
      /\ \A cell \in DOMAIN ValueOf : ValueOf[cell] \in Int \cup {NaN, NoValue}
  BY CsvAssumption, Zenon DEF Csv!ConstantsAssumption
<1>2. Len(rs) \in Nat /\ DOMAIN rs = 1 .. Len(rs)
  BY <1>1, LenProperties
<1>3. QED
  BY <1>1, <1>2, Zenon

\* The places of the file that the loader keeps, in order.
Keeps(rs) == IF dedup_rows THEN Csv!Kept(rs) ELSE DOMAIN rs

\* What is loaded is the rows at the kept places.
LEMMA RowsAreKept ==
  ASSUME file \in CsvFiles
  PROVE  \E at : /\ Len(Csv!Rows) \in Nat /\ Len(Csv!Rows) <= Len(file)
                 /\ DOMAIN Csv!Rows = 1 .. Len(Csv!Rows)
                 /\ at \in [DOMAIN Csv!Rows -> DOMAIN file]
                 /\ \A k \in DOMAIN Csv!Rows : at[k] \in Keeps(file) /\ Csv!Rows[k] = file[at[k]]
                 /\ \A k, l \in DOMAIN Csv!Rows : k < l => at[k] < at[l]
                 /\ \A i \in Keeps(file) : \E k \in DOMAIN Csv!Rows : at[k] = i
<1> DEFINE T == {file[i] : i \in DOMAIN file}
<1>1. file \in Seq(T) /\ Len(file) \in Nat /\ DOMAIN file = 1 .. Len(file)
  BY CsvFileTyped, Zenon
<1>2. CASE dedup_rows
  <2> DEFINE S == Csv!Kept(file)
             at == [k \in 1 .. Cardinality(S) |-> Place(S, k)]
  <2>1. S \in SUBSET DOMAIN file
    BY Zenon DEF Csv!Kept
  <2>2. Csv!Rows = AtPlaces(file, S) /\ Keeps(file) = S
    BY <1>2, CsvLists, Zenon DEF Csv!Rows, Csv!Deduplicated, Keeps
  <2> HIDE DEF S, T
  <2>3. /\ Cardinality(S) \in Nat /\ Cardinality(S) <= Len(file)
        /\ AtPlaces(file, S) \in Seq(T) /\ Len(AtPlaces(file, S)) = Cardinality(S)
        /\ \A k \in 1 .. Cardinality(S) :
             Place(S, k) \in S /\ AtPlaces(file, S)[k] = file[Place(S, k)]
        /\ \A k, l \in 1 .. Cardinality(S) : k < l => Place(S, k) < Place(S, l)
        /\ \A i \in S : \E k \in 1 .. Cardinality(S) : Place(S, k) = i
    BY <1>1, <2>1, AtPlacesProperties
  <2>4. DOMAIN AtPlaces(file, S) = 1 .. Cardinality(S)
    BY Zenon DEF AtPlaces
  <2>5. at \in [1 .. Cardinality(S) -> DOMAIN file]
    BY <2>1, <2>3, Zenon
  <2>6. \A k \in 1 .. Cardinality(S) : at[k] = Place(S, k)
    BY Zenon
  <2>7. DOMAIN AtPlaces(file, S) = 1 .. Len(AtPlaces(file, S))
    BY <2>3, <2>4, Zenon
  <2> HIDE DEF at
  <2>8. /\ \A k \in 1 .. Cardinality(S) : at[k] \in S /\ AtPlaces(file, S)[k] = file[at[k]]
        /\ \A k, l \in 1 .. Cardinality(S) : k < l => at[k] < at[l]
        /\ \A i \in S : \E k \in 1 .. Cardinality(S) : at[k] = i
    BY <2>3, <2>6, Zenon
  <2>9. /\ Len(Csv!Rows) = Cardinality(S) /\ DOMAIN Csv!Rows = 1 .. Len(Csv!Rows)
        /\ 1 .. Cardinality(S) = DOMAIN Csv!Rows
    BY <2>2, <2>3, <2>4, <2>7, Zenon
  <2>10. /\ Len(Csv!Rows) \in Nat /\ Len(Csv!Rows) <= Len(file)
         /\ at \in [DOMAIN Csv!Rows -> DOMAIN file]
    BY <2>3, <2>5, <2>9, Zenon
  <2>11. /\ \A k \in DOMAIN Csv!Rows : at[k] \in Keeps(file) /\ Csv!Rows[k] = file[at[k]]
         /\ \A k, l \in DOMAIN Csv!Rows : k < l => at[k] < at[l]
         /\ \A i \in Keeps(file) : \E k \in DOMAIN Csv!Rows : at[k] = i
    BY <2>2, <2>8, <2>9, Zenon
  <2>12. QED
    BY <2>9, <2>10, <2>11, Zenon
<1>3. CASE ~ dedup_rows
  <2> DEFINE at == [k \in DOMAIN file |-> k]
  <2>1. Csv!Rows = file /\ Keeps(file) = DOMAIN file
    BY <1>3, Zenon DEF Csv!Rows, Keeps
  <2>2. at \in [DOMAIN file -> DOMAIN file] /\ \A k \in DOMAIN file : at[k] = k
    BY Zenon
  <2>3. Len(file) <= Len(file)
    BY <1>1, SMT
  <2> HIDE DEF at
  <2>4. QED
    BY <1>1, <2>1, <2>2, <2>3, Zenon
<1>4. QED
  BY <1>2, <1>3

\* What the loaded and the normalized transactions are.
CsvInv ==
  /\ file \in CsvFiles
  /\ csv_stage \in {"received", "refused", "loaded", "normalized"}
  /\ csv_stage \in {"received", "refused"} => loaded = << >>
  /\ csv_stage \in {"loaded", "normalized"} =>
       /\ loaded = [i \in DOMAIN Csv!Rows |-> Csv!ToTransaction(Csv!Rows[i])]
       /\ \A i \in DOMAIN Csv!Rows : Csv!Reads(Csv!Rows[i])
  /\ normalized = IF csv_stage = "normalized"
                  THEN AtPlaces(loaded, {i \in DOMAIN loaded : Csv!Valid(loaded[i])}) ELSE << >>

LEMMA CsvStarts == Csv!Init => CsvInv
BY Zenon DEF Csv!Init, CsvInv

LEMMA CsvKeeps == CsvInv /\ [Csv!Next]_csv_vars => CsvInv'
<1> SUFFICES ASSUME CsvInv, [Csv!Next]_csv_vars PROVE CsvInv'
  OBVIOUS
<1>1. CASE Csv!Load
  <2>1. /\ csv_stage = "received" /\ file' = file /\ dedup_rows' = dedup_rows
        /\ normalized' = normalized /\ normalized = << >>
    BY <1>1, Zenon DEF Csv!Load, CsvInv
  <2>2. Csv!Rows' = Csv!Rows
    BY <2>1, Zenon DEF Csv!Rows
  <2>3. CASE \A i \in DOMAIN Csv!Rows : Csv!Reads(Csv!Rows[i])
    <3>1. /\ loaded' = [i \in DOMAIN Csv!Rows |-> Csv!ToTransaction(Csv!Rows[i])]
          /\ csv_stage' = "loaded"
      BY <1>1, <2>3, Zenon DEF Csv!Load
    <3>2. QED
      BY <2>1, <2>2, <2>3, <3>1, Zenon DEF CsvInv
  <2>4. CASE ~ \A i \in DOMAIN Csv!Rows : Csv!Reads(Csv!Rows[i])
    <3>1. csv_stage' = "refused" /\ loaded' = loaded
      BY <1>1, <2>4, Zenon DEF Csv!Load
    <3>2. QED
      BY <2>1, <3>1, Zenon DEF CsvInv
  <2>5. QED
    BY <2>3, <2>4, Zenon
<1>2. CASE Csv!Normalize
  <2>1. /\ csv_stage = "loaded" /\ csv_stage' = "normalized"
        /\ file' = file /\ dedup_rows' = dedup_rows /\ loaded' = loaded
        /\ normalized' = AtPlaces(loaded, {i \in DOMAIN loaded : Csv!Valid(loaded[i])})
    BY <1>2, CsvLists, Zenon DEF Csv!Normalize
  <2>2. Csv!Rows' = Csv!Rows
    BY <2>1, Zenon DEF Csv!Rows
  <2>3. QED
    BY <2>1, <2>2, Zenon DEF CsvInv
<1>3. CASE Csv!Terminated \/ UNCHANGED csv_vars
  <2>1. /\ csv_stage' = csv_stage /\ file' = file /\ dedup_rows' = dedup_rows
        /\ loaded' = loaded /\ normalized' = normalized
    BY <1>3 DEF Csv!Terminated, Csv!vars, csv_vars
  <2>2. Csv!Rows' = Csv!Rows
    BY <2>1, Zenon DEF Csv!Rows
  <2>3. QED
    BY <2>1, <2>2, Zenon DEF CsvInv
<1>4. QED
  BY <1>1, <1>2, <1>3 DEF Csv!Next

\* A loaded file has each row's day, amount and description, once if rows that
\* repeat are to go, and then the first of them.
LEMMA CsvInvSaysAll == CsvInv => Csv!OnlyEqualsGo
<1> SUFFICES ASSUME CsvInv, csv_stage = "loaded" PROVE Csv!OnlyEqualsGo
  BY Zenon DEF Csv!OnlyEqualsGo, Csv!NoChargeIsLost, Csv!FirstOfEqualsIsSeen
<1>1. /\ file \in CsvFiles
      /\ loaded = [i \in DOMAIN Csv!Rows |-> Csv!ToTransaction(Csv!Rows[i])]
  BY Zenon DEF CsvInv
<1>2. Len(file) \in Nat /\ DOMAIN file = 1 .. Len(file)
  BY <1>1, CsvFileTyped, Zenon
<1>3. PICK at : /\ at \in [DOMAIN Csv!Rows -> DOMAIN file]
                /\ \A k \in DOMAIN Csv!Rows : at[k] \in Keeps(file) /\ Csv!Rows[k] = file[at[k]]
                /\ \A k, l \in DOMAIN Csv!Rows : k < l => at[k] < at[l]
                /\ \A i \in Keeps(file) : \E k \in DOMAIN Csv!Rows : at[k] = i
  BY <1>1, RowsAreKept, Zenon
<1>4. DOMAIN loaded = DOMAIN Csv!Rows
  BY <1>1, Zenon
<1>5. \A k \in DOMAIN loaded : loaded[k] = Csv!ToTransaction(file[at[k]])
  BY <1>1, <1>3, <1>4, Zenon
<1>6. ASSUME NEW i \in DOMAIN file
      PROVE  \E j \in Keeps(file) : Csv!DedupKey(file[j]) = Csv!DedupKey(file[i])
  <2>1. CASE dedup_rows
    <3> DEFINE key == [k \in 1 .. Len(file) |-> Csv!DedupKey(file[k])]
    <3>0. i \in 1 .. Len(file)
      BY <1>2, Zenon
    <3>1. PICK j \in 1 .. i : key[j] = key[i] /\ \A k \in 1 .. Len(file) : k < j => key[k] # key[j]
      <4>1. PICK n \in Nat : n = Len(file)
        BY <1>2, Zenon
      <4>2. PICK m \in 1 .. n : m = i
        BY <3>0, <4>1, Zenon
      <4>3. PICK f : f = key
        OBVIOUS
      <4> HIDE DEF key
      <4>4. \E j \in 1 .. m : f[j] = f[m] /\ \A k \in 1 .. n : k < j => f[k] # f[j]
        BY FirstOfEquals
      <4>5. QED
        BY <4>1, <4>2, <4>3, <4>4, Zenon
    <3>2. j \in DOMAIN file /\ i \in 1 .. Len(file) /\ j \in 1 .. Len(file)
      BY <1>2, SMT
    <3>3. ASSUME NEW k \in 1 .. (j - 1) PROVE Csv!DedupKey(file[k]) # Csv!DedupKey(file[j])
      <4>1. k \in 1 .. Len(file) /\ k < j
        BY <1>2, <3>2, SMT
      <4>2. QED
        BY <3>1, <3>2, <4>1, Zenon
    <3>4. j \in Csv!Kept(file)
      BY <3>2, <3>3, Zenon DEF Csv!Kept
    <3>5. QED
      BY <2>1, <3>1, <3>2, <3>4, Zenon DEF Keeps
  <2>2. CASE ~ dedup_rows
    BY <2>2, Zenon DEF Keeps
  <2>3. QED
    BY <2>1, <2>2
<1>7. Csv!NoChargeIsLost
  <2>1. SUFFICES ASSUME NEW i \in DOMAIN file
                 PROVE  \E j \in DOMAIN loaded :
                          /\ Csv!SameCharge(j, i)
                          /\ \/ loaded[j].amount = ValueOf[file[i].amount]
                             \/ /\ dedup_rows /\ ValueOf[file[i].amount] = NoValue
                                /\ loaded[j].amount = NaN
    BY Zenon DEF Csv!NoChargeIsLost
  <2>2. PICK j \in Keeps(file) : /\ Csv!DedupKey(file[j]) = Csv!DedupKey(file[i])
                                 /\ ~ dedup_rows => j = i
    <3>1. CASE dedup_rows
      BY <1>6, <3>1, Zenon
    <3>2. CASE ~ dedup_rows
      BY <3>2, Zenon DEF Keeps
    <3>3. QED
      BY <3>1, <3>2
  <2>3. PICK k \in DOMAIN loaded : at[k] = j
    BY <1>3, <1>4, Zenon
  <2>4. loaded[k] = Csv!ToTransaction(file[j])
    BY <1>5, <2>3, Zenon
  <2>5. /\ loaded[k].tx_date = DayOf[file[j].tx_date]
        /\ loaded[k].amount = ValueOf[file[j].amount]
        /\ loaded[k].description = Csv!Text(file[j].description)
    BY <2>4 DEF Csv!ToTransaction
  <2>6. /\ DayOf[file[j].tx_date] = DayOf[file[i].tx_date]
        /\ Csv!Coerced(file[j].amount) = Csv!Coerced(file[i].amount)
        /\ Folded[Csv!Text(file[j].description)] = Folded[Csv!Text(file[i].description)]
    BY <2>2 DEF Csv!DedupKey
  <2>7. ValueOf[file[j].amount] # NoValue
    <3>1. Csv!Rows[k] = file[j] /\ Csv!Reads(Csv!Rows[k])
      BY <1>3, <1>4, <2>3, Zenon DEF CsvInv
    <3>2. QED
      BY <3>1, Zenon DEF Csv!Reads
  <2>8. \/ loaded[k].amount = ValueOf[file[i].amount]
        \/ /\ dedup_rows /\ ValueOf[file[i].amount] = NoValue
           /\ loaded[k].amount = NaN
    <3>1. CASE ValueOf[file[i].amount] = NoValue
      <4>1. dedup_rows
        BY <2>2, <2>7, <3>1
      <4>2. Csv!Coerced(file[i].amount) = NaN
        BY <3>1, Zenon DEF Csv!Coerced
      <4>3. Csv!Coerced(file[j].amount) = ValueOf[file[j].amount]
        BY <2>7, Zenon DEF Csv!Coerced
      <4>4. QED
        BY <2>5, <2>6, <3>1, <4>1, <4>2, <4>3, Zenon
    <3>2. CASE ValueOf[file[i].amount] # NoValue
      <4>1. /\ Csv!Coerced(file[i].amount) = ValueOf[file[i].amount]
            /\ Csv!Coerced(file[j].amount) = ValueOf[file[j].amount]
        BY <2>7, <3>2, Zenon DEF Csv!Coerced
      <4>2. QED
        BY <2>5, <2>6, <4>1, Zenon
    <3>3. QED
      BY <3>1, <3>2
  <2>9. QED
    BY <2>5, <2>6, <2>8, Zenon DEF Csv!SameCharge
<1>8. Csv!FirstOfEqualsIsSeen
  <2>1. at \in [DOMAIN loaded -> DOMAIN file]
    BY <1>3, <1>4, Zenon
  <2>2. ASSUME NEW k \in DOMAIN loaded
        PROVE  /\ loaded[k] = Csv!ToTransaction(file[at[k]])
               /\ dedup_rows => \A j \in 1..(at[k] - 1) :
                                   Csv!DedupKey(file[j]) # Csv!DedupKey(file[at[k]])
               /\ \A l \in DOMAIN loaded : l < k => at[l] < at[k]
    <3>1. dedup_rows => \A j \in 1..(at[k] - 1) :
                          Csv!DedupKey(file[j]) # Csv!DedupKey(file[at[k]])
      BY <1>3, <1>4, Zenon DEF Keeps, Csv!Kept
    <3>2. QED
      BY <1>3, <1>4, <1>5, <3>1, Zenon
  <2>3. QED
    BY <2>1, <2>2, Zenon DEF Csv!FirstOfEqualsIsSeen
<1>9. QED
  BY <1>7, <1>8, Zenon DEF Csv!OnlyEqualsGo

LEMMA CsvInvTypes == CsvInv => Csv!TypeOK
<1> SUFFICES ASSUME CsvInv PROVE Csv!TypeOK
  OBVIOUS
<1>1. file \in CsvFiles
  BY Zenon DEF CsvInv
<1>2. PICK at : /\ Len(Csv!Rows) \in Nat /\ Len(Csv!Rows) <= Len(file)
                /\ DOMAIN Csv!Rows = 1 .. Len(Csv!Rows)
                /\ at \in [DOMAIN Csv!Rows -> DOMAIN file]
                /\ \A k \in DOMAIN Csv!Rows : at[k] \in Keeps(file) /\ Csv!Rows[k] = file[at[k]]
  BY <1>1, RowsAreKept, Zenon
<1>3. Len(file) \in Nat
  BY <1>1, CsvFileTyped, Zenon
<1>4. CASE csv_stage \in {"received", "refused"}
  <2>1. loaded = << >> /\ normalized = << >> /\ csv_stage \in {"received", "refused", "loaded", "normalized"}
    BY <1>4, Zenon DEF CsvInv
  <2>2. QED
    BY <1>3, <2>1, SMT DEF Csv!TypeOK
<1>5. CASE csv_stage \in {"loaded", "normalized"}
  <2> DEFINE n == Len(Csv!Rows)
             T == {loaded[i] : i \in 1 .. n}
             S == {i \in DOMAIN loaded : Csv!Valid(loaded[i])}
  <2>1. /\ loaded = [i \in 1 .. n |-> Csv!ToTransaction(Csv!Rows[i])]
        /\ \A i \in 1 .. n : Csv!Reads(Csv!Rows[i])
    BY <1>2, <1>5, Zenon DEF CsvInv
  <2>2. loaded \in [1 .. n -> T]
    BY <2>1, Zenon
  <2>3. DOMAIN loaded = 1 .. n
    BY <2>1, Zenon
  <2>4. loaded \in Seq(T) /\ Len(loaded) = n
    <3> HIDE DEF T, n
    <3>1. n \in Nat
      BY <1>2, Zenon DEF n
    <3>2. QED
      BY <2>2, <3>1
  <2>5. ASSUME NEW i \in 1 .. n
        PROVE  loaded[i].tx_date \in Int /\ loaded[i].amount \in Int \cup {NaN}
    <3>1. loaded[i] = Csv!ToTransaction(file[at[i]]) /\ Csv!Reads(file[at[i]]) /\ at[i] \in DOMAIN file
      BY <1>2, <2>1, Zenon
    <3>2. /\ DayOf[file[at[i]].tx_date] \in Int \cup {NoDay}
          /\ ValueOf[file[at[i]].amount] \in Int \cup {NaN, NoValue}
      BY <1>1, <3>1, CsvFileTyped, Zenon
    <3>3. /\ loaded[i].tx_date = DayOf[file[at[i]].tx_date]
          /\ loaded[i].amount = ValueOf[file[at[i]].amount]
      BY <3>1 DEF Csv!ToTransaction
    <3>4. DayOf[file[at[i]].tx_date] # NoDay /\ ValueOf[file[at[i]].amount] # NoValue
      BY <3>1, Zenon DEF Csv!Reads
    <3>5. QED
      BY <3>2, <3>3, <3>4, Zenon
  <2>6. Len(normalized) <= Len(loaded)
    <3>1. CASE csv_stage = "normalized"
      <4>1. S \in SUBSET DOMAIN loaded /\ normalized = AtPlaces(loaded, S)
        BY <3>1, Zenon DEF CsvInv
      <4> HIDE DEF S, T, n
      <4>2. Cardinality(S) <= Len(loaded) /\ Len(AtPlaces(loaded, S)) = Cardinality(S)
        BY <2>4, <4>1, AtPlacesProperties
      <4>3. QED
        BY <4>1, <4>2, Zenon
    <3>2. CASE csv_stage # "normalized"
      <4>1. normalized = << >>
        BY <3>2, Zenon DEF CsvInv
      <4>2. QED
        BY <1>2, <2>4, <4>1, SMT
    <3>3. QED
      BY <3>1, <3>2
  <2>7. csv_stage \in {"received", "refused", "loaded", "normalized"}
    BY Zenon DEF CsvInv
  <2>8. Len(loaded) <= Len(file)
    BY <1>2, <2>4, Zenon
  <2>9. QED
    BY <2>3, <2>5, <2>6, <2>7, <2>8, Zenon DEF Csv!TypeOK
<1>6. csv_stage \in {"received", "refused"} \/ csv_stage \in {"loaded", "normalized"}
  BY Zenon DEF CsvInv
<1>7. QED
  BY <1>4, <1>5, <1>6, Zenon

-----------------------------------------------------------------------------
(* PDF: what the lists of the parser hold                                   *)

LEMMA PdfLists ==
  /\ \A list, S : Pdf!AtPlaces(list, S) = AtPlaces(list, S)
  /\ \A list, key : Pdf!SortedBy(list, key) = SortedBy(list, key)
<1>1. \A list, S : Pdf!AtPlaces(list, S) = AtPlaces(list, S)
  BY DEF Pdf!AtPlaces, AtPlaces, Pdf!Place, Place, Pdf!Rank, Rank, Pdf!Cardinality, Cardinality
<1>2. \A list, key : Pdf!SortedBy(list, key) = SortedBy(list, key)
  BY DEF Pdf!SortedBy, SortedBy, Pdf!StablePlace, StablePlace, Pdf!StableRank, StableRank,
    Pdf!Cardinality, Cardinality
<1>3. QED
  BY <1>1, <1>2

LEMMA PdfConstants ==
  /\ Threshold \in Nat
  /\ \A d \in PdfDocuments : /\ d.tables \in Seq(Seq(Seq(Pdf!Word)))
                             /\ d.pages \in Seq(Seq(Pdf!Line))
  /\ \A held \in DOMAIN Rest : held[1].kind \in Pdf!Figure /\ Rest[held] \in Seq(Pdf!Word)
BY PdfAssumption, Zenon DEF Pdf!ConstantsAssumption

\* A list's length and places.
LEMMA Places ==
  ASSUME NEW T, NEW list \in Seq(T)
  PROVE  /\ Len(list) \in Nat /\ DOMAIN list = 1 .. Len(list)
         /\ \A i \in 1 .. Len(list) : list[i] \in T /\ i \in Nat
         /\ (list = << >> <=> Len(list) = 0)
<1>1. list \in [1 .. Len(list) -> T] /\ Len(list) \in Nat
  BY LenProperties
<1>2. list = << >> <=> Len(list) = 0
  BY EmptySeq
<1>3. QED
  BY <1>1, <1>2

\* The lists in a list, one after the other, hold what the lists hold.
LEMMA FlattenTyped ==
  ASSUME NEW T, NEW lists \in Seq(Seq(T))
  PROVE  Pdf!FlattenSeq(lists) \in Seq(T)
<1>1. Len(lists) \in Nat /\ \A i \in 1 .. Len(lists) : lists[i] \in Seq(T)
  BY Places, Zenon
<1>2. CASE Len(lists) = 0
  <2>1. Pdf!FlattenSeq(lists) = lists
    BY <1>2, Zenon DEF Pdf!FlattenSeq
  <2>2. lists = << >>
    BY <1>2, Places, Zenon
  <2>3. << >> \in Seq(T)
    OBVIOUS
  <2>4. QED
    BY <2>1, <2>2, <2>3, Zenon
<1>3. CASE Len(lists) # 0
  <2> DEFINE U == Seq(T)
             M == Len(lists) - 1
             step == [n \in 1 .. M |-> [one \in U |-> one \o lists[n + 1]]]
             Def(f) == f = [i \in 1 .. Len(lists) |->
                              IF i = 1 THEN lists[i] ELSE f[i - 1] \o lists[i]]
  <2>1. M \in Nat /\ lists[1] \in U
    <3>1. 1 \in 1 .. Len(lists) /\ M \in Nat
      BY <1>1, <1>3, SMT
    <3>2. QED
      BY <1>1, <3>1, Zenon
  <2>2. step \in [1 .. M -> [U -> U]]
    <3>1. ASSUME NEW n \in 1 .. M, NEW one \in U PROVE one \o lists[n + 1] \in U
      <4>1. n + 1 \in 1 .. Len(lists)
        BY <1>1, SMT
      <4>2. lists[n + 1] \in Seq(T)
        BY <1>1, <4>1, Zenon
      <4>3. QED
        BY <4>2, ConcatProperties
    <3>2. QED
      BY <3>1, Zenon
  <2>3. PICK g : Solves(g, U, M, lists[1], step)
    <3> HIDE DEF step, U, M
    <3> QED
      BY <2>1, <2>2, RecursionExists, Zenon
  <2> DEFINE f == [i \in 1 .. Len(lists) |-> g[i - 1]]
  <2>4. ASSUME NEW i \in 1 .. Len(lists)
        PROVE  /\ f[i] \in U
               /\ f[i] = IF i = 1 THEN lists[i] ELSE f[i - 1] \o lists[i]
    <3>1. i - 1 \in 0 .. M /\ f[i] = g[i - 1]
      BY <1>1, SMT
    <3>2. g[i - 1] \in U
      BY <2>3, <3>1, Zenon DEF Solves
    <3>3. CASE i = 1
      <4>1. i - 1 = 0
        BY <3>3, SMT
      <4>2. QED
        BY <2>3, <3>1, <3>2, <3>3, <4>1, Zenon DEF Solves
    <3>4. CASE i # 1
      <4>1. i - 1 \in 1 .. M /\ i - 1 \in 1 .. Len(lists) /\ (i - 1) + 1 = i /\ (i - 1) - 1 \in 0 .. M
        BY <1>1, <3>4, SMT
      <4>2. g[i - 1] = step[i - 1][g[(i - 1) - 1]] /\ g[(i - 1) - 1] \in U
        BY <2>3, <4>1, Zenon DEF Solves
      <4>3. step[i - 1][g[(i - 1) - 1]] = g[(i - 1) - 1] \o lists[(i - 1) + 1]
        BY <4>1, <4>2, Zenon
      <4>4. f[i - 1] = g[(i - 1) - 1]
        BY <4>1, Zenon
      <4>5. QED
        BY <3>1, <3>2, <3>4, <4>1, <4>2, <4>3, <4>4, Zenon
    <3>5. QED
      BY <3>3, <3>4, Zenon
  <2>5. Def(f)
    <3> DEFINE h == [i \in 1 .. Len(lists) |-> IF i = 1 THEN lists[i] ELSE f[i - 1] \o lists[i]]
    <3>1. \A i \in 1 .. Len(lists) : f[i] = h[i]
      <4> HIDE DEF f
      <4> QED BY <2>4, Zenon
    <3>2. f = [i \in 1 .. Len(lists) |-> f[i]]
      BY Zenon
    <3> HIDE DEF f
    <3>3. f = h
      BY <3>1, <3>2, Zenon
    <3>4. QED
      BY <3>3, Zenon
  <2>6. PICK d : Def(d) /\ Pdf!FlattenSeq(lists) = d[Len(lists)]
    <3> HIDE DEF f
    <3> QED BY <1>3, <2>5, Zenon DEF Pdf!FlattenSeq
  <2> HIDE DEF f
  <2>7. ASSUME NEW i \in 1 .. Len(lists) PROVE d[i] \in U
    <3> DEFINE bad == {k \in 1 .. Len(lists) : d[k] \notin U}
    <3>1. ASSUME bad # {} PROVE FALSE
      <4>1. bad \in SUBSET Nat
        BY <1>1, SMT
      <4>2. PICK m \in bad : \A k \in bad : m <= k
        <5> HIDE DEF bad
        <5> QED BY <3>1, <4>1, LeastOf
      <4>3. d[m] = IF m = 1 THEN lists[m] ELSE d[m - 1] \o lists[m]
        BY <2>6, <4>2, Zenon
      <4>4. lists[m] \in U /\ d[m] \notin U /\ m # 1
        BY <1>1, <4>2, <4>3, Zenon
      <4>5. m - 1 \in 1 .. Len(lists) /\ ~ (m <= m - 1)
        BY <1>1, <4>2, <4>4, SMT
      <4>6. d[m - 1] \in U
        BY <4>2, <4>5, Zenon
      <4>7. d[m - 1] \o lists[m] \in U
        <5>1. d[m - 1] \in Seq(T) /\ lists[m] \in Seq(T)
          BY <4>4, <4>6, Zenon
        <5>2. QED
          BY <5>1, ConcatProperties
      <4>8. QED
        BY <4>3, <4>4, <4>7, Zenon
    <3>2. QED
      BY <3>1, Zenon
  <2>8. Len(lists) \in 1 .. Len(lists)
    BY <1>1, <1>3, SMT
  <2>9. QED
    BY <2>6, <2>7, <2>8, Zenon
<1>4. QED
  BY <1>2, <1>3

-----------------------------------------------------------------------------
(* PDF: the words of a row                                                  *)

\* The first and the last of the elements at some places of a list.
LEMMA EndsOfPlaces ==
  ASSUME NEW T, NEW list \in Seq(T), NEW S \in SUBSET DOMAIN list,
         NEW a \in S, \A k \in S : a <= k, NEW b \in S, \A k \in S : k <= b
  PROVE  /\ AtPlaces(list, S) # << >>
         /\ Head(AtPlaces(list, S)) = list[a]
         /\ Pdf!Last(AtPlaces(list, S)) = list[b]
<1> DEFINE c == Cardinality(S)
           part == AtPlaces(list, S)
<1>1. /\ c \in Nat /\ part \in Seq(T) /\ Len(part) = c
      /\ \A k \in 1 .. c : Place(S, k) \in S /\ part[k] = list[Place(S, k)]
      /\ \A k, l \in 1 .. c : k < l => Place(S, k) < Place(S, l)
      /\ \A i \in S : \E k \in 1 .. c : Place(S, k) = i
  BY AtPlacesProperties, ZenonT(90)
<1>2. \A k \in S : k \in Nat
  <2>1. DOMAIN list = 1 .. Len(list) /\ Len(list) \in Nat
    BY Places, Zenon
  <2>2. \A k \in 1 .. Len(list) : k \in Nat
    BY <2>1, SMT
  <2>3. QED
    BY <2>1, <2>2, Zenon
<1> HIDE DEF c, part
<1>3. PICK ka \in 1 .. c : Place(S, ka) = a
  BY <1>1, Zenon
<1>4. PICK kb \in 1 .. c : Place(S, kb) = b
  BY <1>1, Zenon
<1>5. 1 \in 1 .. c /\ c \in 1 .. c
  BY <1>1, <1>3, SMT
<1>6. ka = 1
  <2>1. PICK p \in S : p = Place(S, 1)
    BY <1>1, <1>5, Zenon
  <2>2. ~ (p < a)
    BY <1>2, <2>1, SMT
  <2>3. ~ (1 < ka)
    BY <1>1, <1>3, <1>5, <2>1, <2>2, Zenon
  <2>4. QED
    BY <1>3, <2>3, SMT
<1>7. kb = c
  <2>1. PICK p \in S : p = Place(S, c)
    BY <1>1, <1>5, Zenon
  <2>2. ~ (b < p)
    BY <1>2, <2>1, SMT
  <2>3. ~ (kb < c)
    BY <1>1, <1>4, <1>5, <2>1, <2>2, Zenon
  <2>4. QED
    BY <1>1, <1>4, <2>3, SMT
<1>8. part[1] = list[a] /\ part[c] = list[b]
  BY <1>1, <1>3, <1>4, <1>5, <1>6, <1>7, Zenon
<1>9. part # << >>
  BY <1>1, <1>5, SMT
<1>10. Head(part) = part[1]
  BY <1>1, <1>9, HeadTailProperties
<1>11. QED
  BY <1>1, <1>8, <1>9, <1>10, Zenon DEF Pdf!Last, part

\* The element at one place.
LEMMA OneOfPlaces ==
  ASSUME NEW T, NEW list \in Seq(T), NEW a \in DOMAIN list
  PROVE  AtPlaces(list, {a}) = << list[a] >>
<1>1. Cardinality({a}) = 1
  BY FS_Singleton
<1>2. {a} \in SUBSET DOMAIN list
  OBVIOUS
<1>3. \A k \in 1 .. Cardinality({a}) : Place({a}, k) \in {a}
  BY <1>2, AtPlacesProperties, Zenon
<1>4. 1 \in 1 .. 1 /\ 1 .. 1 = {1}
  BY SMT
<1>5. Place({a}, 1) = a
  BY <1>1, <1>3, <1>4, Zenon
<1>6. AtPlaces(list, {a}) = [k \in 1 .. 1 |-> list[Place({a}, k)]]
  BY <1>1, Zenon DEF AtPlaces
<1>7. \A k \in 1 .. 1 : list[Place({a}, k)] = list[a]
  BY <1>4, <1>5, Zenon
<1>8. AtPlaces(list, {a}) = [k \in 1 .. 1 |-> list[a]]
  BY <1>6, <1>7, Zenon
<1>9. PICK x : x = list[a]
  OBVIOUS
<1>10. [k \in 1 .. 1 |-> x] = << x >>
  BY SMT
<1>11. QED
  BY <1>8, <1>9, <1>10, Zenon

\* Where the dates of a row stand, and its dates and amounts.
DatePlaces(words) == {i \in DOMAIN words : words[i].kind = "date"}
FigurePlaces(words) == {i \in DOMAIN words : words[i].kind \in Pdf!Figure}

\* The first date of a row is a date, and the last figure a word with digits.
LEMMA EndsAreFigures ==
  ASSUME NEW words \in Seq(Pdf!Word), Pdf!IsRow(words)
  PROVE  \E a, b \in DOMAIN words :
           /\ Head(Pdf!Dates(words)) = words[a] /\ words[a].kind = "date"
           /\ \A k \in DatePlaces(words) : a <= k
           /\ Pdf!Last(Pdf!Figures(words)) = words[b] /\ words[b].kind \in Pdf!Figure
           /\ \A k \in FigurePlaces(words) : k <= b
<1>1. Len(words) \in Nat /\ DOMAIN words = 1 .. Len(words)
  BY Places, Zenon
<1>2. /\ Pdf!Dates(words) = AtPlaces(words, DatePlaces(words))
      /\ Pdf!Figures(words) = AtPlaces(words, FigurePlaces(words))
  BY PdfLists, Zenon DEF Pdf!Dates, Pdf!Figures, DatePlaces, FigurePlaces
<1>3. /\ DatePlaces(words) \in SUBSET DOMAIN words
      /\ FigurePlaces(words) \in SUBSET DOMAIN words
      /\ DatePlaces(words) \subseteq FigurePlaces(words)
  BY Zenon DEF DatePlaces, FigurePlaces, Pdf!Figure
<1>4. \A k \in DOMAIN words : k \in Nat /\ k <= Len(words)
  BY <1>1, SMT
<1>5. DatePlaces(words) # {}
  <2>1. SUFFICES ASSUME DatePlaces(words) = {} PROVE FALSE
    OBVIOUS
  <2>2. AtPlaces(words, {}) = << >>
    <3>1. Cardinality({}) = 0 /\ 1 .. 0 = {}
      BY FS_EmptySet, SMT
    <3>2. AtPlaces(words, {}) = [k \in {} |-> words[Place({}, k)]]
      BY <3>1, Zenon DEF AtPlaces
    <3>3. QED
      BY <3>2, SMT
  <2>3. QED
    BY <1>2, <2>1, <2>2, Zenon DEF Pdf!IsRow
<1>6. /\ DatePlaces(words) \in SUBSET Nat /\ FigurePlaces(words) \in SUBSET Nat
      /\ FigurePlaces(words) # {}
  BY <1>3, <1>4, <1>5, Zenon
<1>7. PICK a \in DatePlaces(words) : \A k \in DatePlaces(words) : a <= k
  BY <1>5, <1>6, LeastOf
<1>8. PICK z \in DatePlaces(words) : \A k \in DatePlaces(words) : k <= z
  BY <1>1, <1>3, <1>4, <1>5, <1>6, GreatestOf
<1>9. PICK c \in FigurePlaces(words) : \A k \in FigurePlaces(words) : c <= k
  BY <1>6, LeastOf
<1>10. PICK b \in FigurePlaces(words) : \A k \in FigurePlaces(words) : k <= b
  BY <1>1, <1>3, <1>4, <1>6, GreatestOf
<1>11. Head(AtPlaces(words, DatePlaces(words))) = words[a]
  BY <1>3, <1>7, <1>8, EndsOfPlaces, Zenon
<1>12. Pdf!Last(AtPlaces(words, FigurePlaces(words))) = words[b]
  BY <1>3, <1>9, <1>10, EndsOfPlaces, Zenon
<1>13. words[a].kind = "date" /\ words[b].kind \in Pdf!Figure
  BY <1>7, <1>10, Zenon DEF DatePlaces, FigurePlaces
<1>14. QED
  BY <1>2, <1>3, <1>7, <1>10, <1>11, <1>12, <1>13, Zenon

\* A part of a word that is cut out takes no mark with it: the marks for credit
\* and debit hold no digits.
LEMMA RemovedKeepsMarks ==
  ASSUME NEW words \in Seq(Pdf!Word), NEW part \in Pdf!Word, part.kind \in {"date", "amount"}
  PROVE  /\ Pdf!Removed(words, part) \in Seq(Pdf!Word)
         /\ \A what \in {"cr", "dr"} :
              Pdf!Says(words, what) => Pdf!Says(Pdf!Removed(words, part), what)
<1> DEFINE holding == {i \in DOMAIN words : Pdf!Holds(words[i], part)}
           first == Pdf!Min(holding)
           before == SubSeq(words, 1, first - 1)
           rest == Pdf!Left(words[first], part)
           after == SubSeq(words, first + 1, Len(words))
<1>1. Len(words) \in Nat /\ DOMAIN words = 1 .. Len(words)
      /\ \A i \in 1 .. Len(words) : words[i] \in Pdf!Word /\ i \in Nat
  BY Places, Zenon
<1>2. CASE holding = {}
  BY <1>2, Zenon DEF Pdf!Removed
<1>3. CASE holding # {}
  <2>1. holding \in SUBSET Nat /\ \A i \in holding : i \in 1 .. Len(words) /\ Pdf!Holds(words[i], part)
    BY <1>1, Zenon
  <2>2. Pdf!Removed(words, part) = before \o rest \o after
    BY <1>3, Zenon DEF Pdf!Removed
  <2>3. first \in holding
    <3>1. \E m \in holding : \A k \in holding : m <= k
      <4> HIDE DEF holding
      <4>1. QED
        BY <1>3, <2>1, LeastOf, Zenon
    <3>2. QED
      BY <3>1, Zenon DEF Pdf!Min
  <2> HIDE DEF first, holding
  <2>4. first \in 1 .. Len(words) /\ Pdf!Holds(words[first], part)
    BY <2>1, <2>3, Zenon
  <2>5. words[first].kind \in Pdf!Figure
    <3>1. CASE words[first] = part
      BY <3>1, SMT DEF Pdf!Figure
    <3>2. CASE << words[first], part >> \in DOMAIN Rest
      <4>1. << words[first], part >>[1].kind \in Pdf!Figure
        BY <3>2, PdfConstants, Zenon
      <4>2. << words[first], part >>[1] = words[first]
        OBVIOUS
      <4>3. QED
        BY <4>1, <4>2, Zenon
    <3>3. QED
      BY <2>4, <3>1, <3>2, Zenon DEF Pdf!Holds
  <2>6. rest \in Seq(Pdf!Word)
    <3>1. CASE words[first] = part
      <4>1. rest = << >> /\ << >> \in Seq(Pdf!Word)
        BY <3>1 DEF Pdf!Left
      <4>2. QED
        BY <4>1, Zenon
    <3>2. CASE words[first] # part
      <4>1. << words[first], part >> \in DOMAIN Rest /\ rest = Rest[<< words[first], part >>]
        BY <2>4, <3>2, Zenon DEF Pdf!Holds, Pdf!Left
      <4>2. QED
        BY <4>1, PdfConstants, Zenon
    <3>3. QED
      BY <3>1, <3>2
  <2> HIDE DEF rest
  <2>7. PICK n \in Nat, f \in Nat : n = Len(words) /\ f = first /\ f \in 1 .. n
    BY <1>1, <2>4, Zenon
  <2>8. /\ before \in Seq(Pdf!Word) /\ Len(before) = f - 1
        /\ \A i \in 1 .. f - 1 : before[i] = words[i]
    BY <2>7, <1>1
  <2>9. /\ after \in Seq(Pdf!Word) /\ Len(after) = n - f
        /\ \A i \in 1 .. n - f : after[i] = words[f + i]
    <3>1. 1 <= f + 1 /\ n <= Len(words)
      BY <2>7, <1>1
    <3>2. QED
      BY <2>7, <1>1, <3>1
  <2> HIDE DEF before, after
  <2>10. PICK l \in Nat : l = Len(rest)
    BY <2>6, LenProperties
  <2>11. PICK a \in Seq(Pdf!Word), b \in Seq(Pdf!Word), c \in Seq(Pdf!Word) :
           a = before /\ b = rest /\ c = after
    BY <2>6, <2>8, <2>9, Zenon
  <2>12. PICK all \in Seq(Pdf!Word) :
           /\ all = Pdf!Removed(words, part)
           /\ Len(all) = f - 1 + l + (n - f)
           /\ \A i \in 1 .. f - 1 : all[i] = words[i]
           /\ \A i \in 1 .. n - f : all[f - 1 + l + i] = words[f + i]
    <3>1. /\ a \o b \in Seq(Pdf!Word) /\ Len(a \o b) = f - 1 + l
          /\ \A i \in 1 .. f - 1 : (a \o b)[i] = words[i]
      <4>1. Len(a) = f - 1 /\ Len(b) = l /\ \A i \in 1 .. f - 1 : a[i] = words[i]
        BY <2>8, <2>10, <2>11, Zenon
      <4>2. /\ a \o b \in Seq(Pdf!Word) /\ Len(a \o b) = Len(a) + Len(b)
            /\ \A i \in 1 .. Len(a) + Len(b) :
                 (a \o b)[i] = IF i <= Len(a) THEN a[i] ELSE b[i - Len(a)]
        BY ConcatProperties, Zenon
      <4>3. \A i \in 1 .. f - 1 : i \in 1 .. (f - 1) + l /\ i <= f - 1
        BY <2>7, <2>10
      <4>4. QED
        BY <4>1, <4>2, <4>3, Zenon
    <3>2. PICK ab \in Seq(Pdf!Word) : ab = a \o b
      BY <3>1, Zenon
    <3>3. /\ ab \o c \in Seq(Pdf!Word) /\ Len(ab \o c) = f - 1 + l + (n - f)
          /\ \A i \in 1 .. f - 1 : (ab \o c)[i] = words[i]
          /\ \A i \in 1 .. n - f : (ab \o c)[f - 1 + l + i] = words[f + i]
      <4>1. Len(ab) = f - 1 + l /\ Len(c) = n - f /\ \A i \in 1 .. n - f : c[i] = words[f + i]
        BY <2>9, <2>11, <3>1, <3>2, Zenon
      <4>2. /\ ab \o c \in Seq(Pdf!Word) /\ Len(ab \o c) = Len(ab) + Len(c)
            /\ \A i \in 1 .. Len(ab) + Len(c) :
                 (ab \o c)[i] = IF i <= Len(ab) THEN ab[i] ELSE c[i - Len(ab)]
        BY ConcatProperties, Zenon
      <4>3. \A i \in 1 .. f - 1 : i \in 1 .. (f - 1 + l) + (n - f) /\ i <= f - 1 + l
        BY <2>7, <2>10
      <4>4. \A i \in 1 .. n - f : /\ f - 1 + l + i \in 1 .. (f - 1 + l) + (n - f)
                                  /\ ~ (f - 1 + l + i <= f - 1 + l)
                                  /\ (f - 1 + l + i) - (f - 1 + l) = i
        BY <2>7, <2>10
      <4>5. \A i \in 1 .. f - 1 : (ab \o c)[i] = words[i]
        BY <3>1, <3>2, <4>1, <4>2, <4>3, Zenon
      <4>6. \A i \in 1 .. n - f : (ab \o c)[f - 1 + l + i] = words[f + i]
        BY <4>1, <4>2, <4>4, Zenon
      <4>7. QED
        BY <4>1, <4>2, <4>5, <4>6, Zenon
    <3>4. QED
      BY <2>2, <2>11, <3>2, <3>3, Zenon
  <2>13. ASSUME NEW what \in {"cr", "dr"}, Pdf!Says(words, what) PROVE Pdf!Says(all, what)
    <3>1. PICK i \in 1 .. n : words[i].kind = what
      BY <1>1, <2>7, <2>13, Zenon DEF Pdf!Says
    <3>2. i # f
      <4>1. what \notin Pdf!Figure
        BY SMT DEF Pdf!Figure
      <4>2. QED
        BY <2>5, <2>7, <3>1, <4>1, Zenon
    <3>3. DOMAIN all = 1 .. (f - 1 + l + (n - f))
      BY <2>12, Places, Zenon
    <3>4. \E k \in DOMAIN all : all[k] = words[i]
      <4>1. CASE i < f
        <5>1. i \in DOMAIN all /\ i \in 1 .. f - 1
          BY <2>7, <2>10, <3>1, <3>3, <4>1
        <5>2. QED
          BY <2>12, <5>1, Zenon
      <4>2. CASE i > f
        <5>1. /\ f - 1 + l + (i - f) \in DOMAIN all /\ i - f \in 1 .. n - f /\ f + (i - f) = i
          BY <2>7, <2>10, <3>1, <3>3, <4>2
        <5>2. QED
          BY <2>12, <5>1, Zenon
      <4>3. QED
        BY <2>7, <3>1, <3>2, <4>1, <4>2
    <3>5. QED
      BY <3>1, <3>4, Zenon DEF Pdf!Says
  <2>14. QED
    BY <2>12, <2>13, Zenon
<1>4. QED
  BY <1>2, <1>3

\* The marks for credit and debit stay in the description.
LEMMA MarksAreDescribed ==
  ASSUME NEW words \in Seq(Pdf!Word), Pdf!IsRow(words), Pdf!LeavesNoMark(words),
         NEW what \in {"cr", "dr"}
  PROVE  Pdf!Says(words, what) <=> Pdf!Says(Pdf!DescriptionOf(words), what)
<1>1. PICK a \in DOMAIN words, b \in DOMAIN words :
        /\ Head(Pdf!Dates(words)) = words[a] /\ words[a].kind = "date"
        /\ Pdf!Last(Pdf!Figures(words)) = words[b]
  BY EndsAreFigures, Zenon
<1>2. words[a] \in Pdf!Word /\ words[b] \in Pdf!Word
  BY Places, Zenon
<1>3. PICK date \in Pdf!Word : date = Head(Pdf!Dates(words)) /\ date.kind \in {"date", "amount"}
  <2>1. words[a].kind \in {"date", "amount"}
    BY <1>1, SMT
  <2>2. QED
    BY <1>1, <1>2, <2>1, Zenon
<1>4. PICK amount \in Pdf!Word : /\ amount = Pdf!Fragment(Pdf!Last(Pdf!Figures(words)))
                                 /\ amount.kind \in {"date", "amount"}
  <2>1. Pdf!Fragment(words[b]) \in Pdf!Word /\ Pdf!Fragment(words[b]).kind \in {"date", "amount"}
    <3>1. PICK x \in Int : x = words[b].value
      BY <1>2 DEF Pdf!Word
    <3>2. /\ [kind |-> "amount", value |-> x] \in Pdf!Word
          /\ [kind |-> "amount", value |-> x].kind \in {"date", "amount"}
      BY DEF Pdf!Word, Pdf!Figure
    <3>3. QED
      BY <3>1, <3>2, Zenon DEF Pdf!Fragment
  <2>2. QED
    BY <1>1, <2>1, Zenon
<1>5. PICK once \in Seq(Pdf!Word) : /\ once = Pdf!Removed(words, date)
                                    /\ Pdf!Says(words, what) => Pdf!Says(once, what)
  BY <1>3, RemovedKeepsMarks, Zenon
<1>6. Pdf!Says(once, what) => Pdf!Says(Pdf!Removed(once, amount), what)
  BY <1>4, RemovedKeepsMarks, Zenon
<1>7. Pdf!DescriptionOf(words) = Pdf!Removed(once, amount)
  BY <1>3, <1>4, <1>5 DEF Pdf!DescriptionOf
<1>8. Pdf!Says(Pdf!DescriptionOf(words), what) => Pdf!Says(words, what)
  BY DEF Pdf!LeavesNoMark
<1>9. QED
  BY <1>5, <1>6, <1>7, <1>8, Zenon

\* What a recognised row becomes.
LEMMA OcrTransactionTyped ==
  ASSUME NEW words \in Seq(Pdf!Word), Pdf!IsRow(words), NEW n
  PROVE  /\ Pdf!OcrTransaction(words, n).amount \in Nat
         /\ Pdf!OcrTransaction(words, n).is_debit \in BOOLEAN
<1>1. PICK b \in DOMAIN words : Pdf!Last(Pdf!Figures(words)) = words[b]
  BY EndsAreFigures, Zenon
<1>2. words[b] \in Pdf!Word
  BY Places, Zenon
<1>3. Pdf!AmountOf(words) \in Int
  BY <1>1, <1>2 DEF Pdf!AmountOf, Pdf!Word
<1>4. Pdf!Abs(Pdf!AmountOf(words)) \in Nat
  BY <1>3, SMT DEF Pdf!Abs
<1>5. Pdf!IsDebit(words) \in BOOLEAN
  BY Zenon DEF Pdf!IsDebit
<1>6. /\ Pdf!OcrTransaction(words, n).amount = Pdf!Abs(Pdf!AmountOf(words))
      /\ Pdf!OcrTransaction(words, n).is_debit = Pdf!IsDebit(words)
  BY Zenon DEF Pdf!OcrTransaction
<1>7. QED
  BY <1>4, <1>5, <1>6, Zenon

\* The id of a recognised row tells its side, which is not a part of it.
LEMMA IdTellsSide ==
  ASSUME NEW v \in Seq(Pdf!Word), Pdf!IsRow(v), Pdf!LeavesNoMark(v),
         NEW w \in Seq(Pdf!Word), Pdf!IsRow(w), Pdf!LeavesNoMark(w),
         NEW m, NEW n, Pdf!OcrTransaction(v, m).tx_id = Pdf!OcrTransaction(w, n).tx_id
  PROVE  Pdf!SeenKey(Pdf!OcrTransaction(v, m)) = Pdf!SeenKey(Pdf!OcrTransaction(w, n))
<1>1. /\ Head(Pdf!Dates(v)).value = Head(Pdf!Dates(w)).value
      /\ Pdf!DescriptionOf(v) = Pdf!DescriptionOf(w)
      /\ Pdf!AmountOf(v) = Pdf!AmountOf(w)
  BY SMT DEF Pdf!OcrTransaction
<1>2. \A what \in {"cr", "dr"} : Pdf!Says(v, what) <=> Pdf!Says(w, what)
  BY <1>1, MarksAreDescribed, Zenon
<1>3. Pdf!IsDebit(v) = Pdf!IsDebit(w)
  BY <1>1, <1>2, Zenon DEF Pdf!IsDebit
<1>4. QED
  BY <1>1, <1>3, Zenon DEF Pdf!OcrTransaction, Pdf!SeenKey

-----------------------------------------------------------------------------
(* PDF: the lines and rows of a recognised page                             *)

\* The sorted lines of a page, and the place on the page of the k-th of them.
Heights(lines) == [i \in DOMAIN lines |-> lines[i].y]
Sorted(lines) == Pdf!ByHeight(lines)
At(lines, k) == StablePlace(Heights(lines), k)

LEMMA SortedLines ==
  ASSUME NEW lines \in Seq(Pdf!Line)
  PROVE  /\ Sorted(lines) \in Seq(Pdf!Line) /\ Len(Sorted(lines)) = Len(lines)
         /\ \A k \in 1 .. Len(lines) : /\ At(lines, k) \in 1 .. Len(lines)
                                       /\ Sorted(lines)[k] = lines[At(lines, k)]
                                       /\ Sorted(lines)[k].y \in Int
         /\ \A k, l \in 1 .. Len(lines) : k <= l => Sorted(lines)[k].y <= Sorted(lines)[l].y
         /\ \A i \in 1 .. Len(lines) : \E k \in 1 .. Len(lines) : At(lines, k) = i
<1> DEFINE N == Len(lines)
           key == Heights(lines)
<1>1. /\ N \in Nat /\ DOMAIN lines = 1 .. N
      /\ \A i \in 1 .. N : lines[i] \in Pdf!Line
  BY Places, Zenon
<1>2. \A i \in 1 .. N : lines[i].y \in Int
  BY <1>1 DEF Pdf!Line
<1>3. key \in [1 .. N -> Int] /\ \A i \in 1 .. N : key[i] = lines[i].y
  BY <1>1, <1>2, Zenon DEF Heights
<1>4. Sorted(lines) = SortedBy(lines, key)
  BY PdfLists, Zenon DEF Sorted, Pdf!ByHeight, Heights
<1>5. /\ SortedBy(lines, key) \in Seq(Pdf!Line) /\ Len(SortedBy(lines, key)) = N
      /\ \A k \in 1 .. N : /\ StablePlace(key, k) \in 1 .. N
                           /\ SortedBy(lines, key)[k] = lines[StablePlace(key, k)]
      /\ \A k, l \in 1 .. N : k < l => Earlier(key, StablePlace(key, k), StablePlace(key, l))
      /\ \A i \in 1 .. N : \E k \in 1 .. N : StablePlace(key, k) = i
  <2> HIDE DEF key
  <2> QED BY <1>3, SortedByProperties, Zenon
<1> HIDE DEF N, key
<1>6. \A k \in 1 .. N : /\ At(lines, k) \in 1 .. N
                        /\ Sorted(lines)[k] = lines[At(lines, k)]
                        /\ Sorted(lines)[k].y \in Int
                        /\ Sorted(lines)[k].y = key[At(lines, k)]
  BY <1>2, <1>3, <1>4, <1>5, Zenon DEF At, key
<1>7. ASSUME NEW k \in 1 .. N, NEW l \in 1 .. N, k <= l
      PROVE  Sorted(lines)[k].y <= Sorted(lines)[l].y
  <2>1. CASE k = l
    BY <1>6, <2>1, SMT
  <2>2. CASE k # l
    <3>1. k < l
      BY <1>1, <1>7, <2>2, SMT
    <3>2. Earlier(key, At(lines, k), At(lines, l))
      BY <1>5, <3>1, Zenon DEF At, key
    <3>3. key[At(lines, k)] <= key[At(lines, l)]
      <4>1. key[At(lines, k)] \in Int /\ key[At(lines, l)] \in Int
        BY <1>6, Zenon
      <4>2. QED
        BY <3>2, <4>1, SMT DEF Earlier
    <3>4. QED
      BY <1>6, <3>3, Zenon
  <2>3. QED
    BY <2>1, <2>2
<1>8. \A i \in 1 .. N : \E k \in 1 .. N : At(lines, k) = i
  BY <1>5, Zenon DEF At, key
<1>9. QED
  BY <1>4, <1>5, <1>6, <1>7, <1>8, Zenon DEF N

\* A line is added to the last row or as a new one.
LEMMA AddLineIs ==
  ASSUME NEW T, NEW rs \in Seq(Seq(T)), NEW line \in T
  PROVE  /\ Pdf!AddLine(rs, line) \in Seq(Seq(T))
         /\ IF rs # << >> /\ Pdf!Continues(rs[Len(rs)], line)
            THEN /\ Len(Pdf!AddLine(rs, line)) = Len(rs)
                 /\ \A k \in 1 .. Len(rs) - 1 : Pdf!AddLine(rs, line)[k] = rs[k]
                 /\ Pdf!AddLine(rs, line)[Len(rs)] = Append(rs[Len(rs)], line)
            ELSE /\ Len(Pdf!AddLine(rs, line)) = Len(rs) + 1
                 /\ \A k \in 1 .. Len(rs) : Pdf!AddLine(rs, line)[k] = rs[k]
                 /\ Pdf!AddLine(rs, line)[Len(rs) + 1] = << line >>
<1> DEFINE n == Len(rs)
           new == Pdf!AddLine(rs, line)
<1>1. n \in Nat /\ (rs = << >> <=> n = 0) /\ \A k \in 1 .. n : rs[k] \in Seq(T)
  BY Places, Zenon
<1>2. Pdf!Last(rs) = rs[n]
  BY Zenon DEF Pdf!Last
<1>3. CASE rs # << >> /\ Pdf!Continues(rs[n], line)
  <2>1. new = Append(Pdf!Front(rs), Append(rs[n], line))
    BY <1>2, <1>3, Zenon DEF Pdf!AddLine
  <2>2. n \in 1 .. n
    BY <1>1, <1>3, SMT
  <2>3. Append(rs[n], line) \in Seq(T)
    BY <1>1, <2>2, AppendProperties
  <2>4. /\ Pdf!Front(rs) \in Seq(Seq(T)) /\ Len(Pdf!Front(rs)) = n - 1
        /\ \A k \in 1 .. n - 1 : Pdf!Front(rs)[k] = rs[k]
    <3>1. PICK one \in Int, last \in Int : one = 1 /\ last = n - 1
      BY <1>1, SMT
    <3>2. \A k \in one .. last : rs[k] \in Seq(T)
      BY <1>1, <3>1, SMT
    <3>3. /\ SubSeq(rs, one, last) \in Seq(Seq(T))
          /\ Len(SubSeq(rs, one, last)) = IF one <= last THEN last - one + 1 ELSE 0
          /\ \A i \in 1 .. last - one + 1 : SubSeq(rs, one, last)[i] = rs[one + i - 1]
      BY <3>2, SubSeqProperties
    <3>4. Pdf!Front(rs) = SubSeq(rs, one, last)
      BY <3>1, Zenon DEF Pdf!Front
    <3>5. (IF one <= last THEN last - one + 1 ELSE 0) = n - 1
      BY <1>1, <2>2, <3>1, SMT
    <3>6. ASSUME NEW k \in 1 .. n - 1 PROVE Pdf!Front(rs)[k] = rs[k]
      <4>1. k \in 1 .. last - one + 1 /\ one + k - 1 = k
        BY <1>1, <3>1, SMT
      <4>2. QED
        BY <3>3, <3>4, <4>1, Zenon
    <3>7. QED
      BY <3>3, <3>4, <3>5, <3>6, Zenon
  <2>5. PICK front \in Seq(Seq(T)), one \in Seq(T) : front = Pdf!Front(rs) /\ one = Append(rs[n], line)
    BY <2>3, <2>4, Zenon
  <2>6. /\ Append(front, one) \in Seq(Seq(T)) /\ Len(Append(front, one)) = Len(front) + 1
        /\ \A k \in 1 .. Len(front) : Append(front, one)[k] = front[k]
        /\ Append(front, one)[Len(front) + 1] = one
    BY AppendProperties
  <2>7. Len(front) = n - 1 /\ (n - 1) + 1 = n
    BY <1>1, <2>4, <2>5, SMT
  <2>8. /\ new \in Seq(Seq(T)) /\ Len(new) = n
        /\ \A k \in 1 .. n - 1 : new[k] = rs[k]
        /\ new[n] = Append(rs[n], line)
    BY <2>1, <2>4, <2>5, <2>6, <2>7, Zenon
  <2>9. QED
    BY <1>3, <2>8, Zenon
<1>4. CASE ~ (rs # << >> /\ Pdf!Continues(rs[n], line))
  <2>1. new = Append(rs, << line >>)
    BY <1>2, <1>4, Zenon DEF Pdf!AddLine
  <2>2. PICK one \in Seq(T) : one = << line >>
    <3>1. << line >> \in Seq(T)
      BY SMT
    <3>2. QED
      BY <3>1, Zenon
  <2>3. /\ Append(rs, one) \in Seq(Seq(T)) /\ Len(Append(rs, one)) = Len(rs) + 1
        /\ \A k \in 1 .. Len(rs) : Append(rs, one)[k] = rs[k]
        /\ Append(rs, one)[Len(rs) + 1] = one
    BY AppendProperties
  <2>4. QED
    BY <1>4, <2>1, <2>2, <2>3, Zenon
<1>5. QED
  BY <1>3, <1>4, Zenon

\* The rows of a page grow line by line.
LEMMA GroupedRowsIs ==
  ASSUME NEW lines \in Seq(Pdf!Line)
  PROVE  \E f :
           /\ Pdf!GroupedRows(lines) = f[Len(lines)] /\ f[0] = << >>
           /\ \A n \in 0 .. Len(lines) : f[n] \in Seq(Seq(Pdf!Line))
           /\ \A n \in 1 .. Len(lines) : f[n] = Pdf!AddLine(f[n - 1], Sorted(lines)[n])
<1> DEFINE U == Seq(Seq(Pdf!Line))
           N == Len(lines)
           step == [n \in 1 .. N |-> [rs \in U |-> Pdf!AddLine(rs, Sorted(lines)[n])]]
           Def(f) == f = [n \in 0 .. N |-> IF n = 0 THEN << >>
                                           ELSE Pdf!AddLine(f[n - 1], Pdf!ByHeight(lines)[n])]
<1>1. N \in Nat /\ \A n \in 1 .. N : Sorted(lines)[n] \in Pdf!Line
  BY Places, SortedLines, Zenon
<1>2. step \in [1 .. N -> [U -> U]]
  BY <1>1, AddLineIs, Zenon
<1>3. << >> \in U
  OBVIOUS
<1>4. PICK f : Solves(f, U, N, << >>, step)
  <2> HIDE DEF step, U, N
  <2> QED
    BY <1>1, <1>2, <1>3, RecursionExists, Zenon
<1> DEFINE whole == [n \in 0 .. N |-> IF n = 0 THEN << >>
                                      ELSE Pdf!AddLine(f[n - 1], Pdf!ByHeight(lines)[n])]
<1>5. ASSUME NEW n \in 0 .. N PROVE f[n] = whole[n]
  <2>1. CASE n = 0
    <3>1. f[0] = << >> /\ whole[0] = << >>
      BY <1>1, <1>4, <2>1, Zenon DEF Solves
    <3>2. QED
      BY <2>1, <3>1, Zenon
  <2>2. CASE n # 0
    <3>1. n \in 1 .. N /\ n - 1 \in 0 .. N
      BY <1>1, <2>2, SMT
    <3>2. f[n - 1] \in U
      BY <1>4, <3>1, Zenon DEF Solves
    <3>3. step[n][f[n - 1]] = Pdf!AddLine(f[n - 1], Pdf!ByHeight(lines)[n])
      BY <3>1, <3>2, Zenon DEF Sorted
    <3>4. f[n] = step[n][f[n - 1]]
      BY <1>4, <3>1, Zenon DEF Solves
    <3> QED
      BY <2>2, <3>3, <3>4, Zenon
  <2> QED
    BY <2>1, <2>2
<1>6. f = [n \in 0 .. N |-> f[n]]
  BY <1>4, Zenon DEF Solves
<1>7. Def(f)
  BY <1>5, <1>6, Zenon
<1>8. PICK g : Def(g) /\ Pdf!GroupedRows(lines) = g[N]
  BY <1>7, Zenon DEF Pdf!GroupedRows
<1>9. g[0] = << >> /\ \A n \in 1 .. N : g[n] = Pdf!AddLine(g[n - 1], Sorted(lines)[n])
  <2>1. 0 \in 0 .. N /\ \A n \in 1 .. N : n \in 0 .. N /\ n # 0
    BY <1>1, SMT
  <2>2. QED
    BY <1>8, <2>1, Zenon DEF Sorted
<1>10. ASSUME NEW n \in 0 .. N PROVE g[n] \in U
  <2> DEFINE bad == {m \in 0 .. N : g[m] \notin U}
  <2>1. ASSUME bad # {} PROVE FALSE
    <3>1. bad \in SUBSET Nat
      BY <1>1, SMT
    <3>2. PICK m \in bad : \A k \in bad : m <= k
      <4> HIDE DEF bad
      <4> QED BY <2>1, <3>1, LeastOf
    <3>3. m # 0
      BY <1>3, <1>9, <3>2, Zenon
    <3>4. m \in 1 .. N /\ m - 1 \in 0 .. N /\ ~ (m <= m - 1)
      BY <1>1, <3>2, <3>3, SMT
    <3>5. g[m - 1] \in U
      BY <3>2, <3>4, Zenon
    <3>6. g[m] \in U
      BY <1>1, <1>9, <3>4, <3>5, AddLineIs, Zenon
    <3>7. QED
      BY <3>2, <3>6, Zenon
  <2>2. QED
    BY <2>1, Zenon
<1>11. QED
  BY <1>8, <1>9, <1>10, Zenon

-----------------------------------------------------------------------------
(* PDF: groups of heights                                                   *)

\* The group of each of the first n heights: a gap begins a new one.
Numbers(at, n, y, gap) ==
  /\ at \in [0 .. n -> Nat] /\ at[0] = 0
  /\ \A k \in 1 .. n : at[k] = IF k > 1 /\ y[k] - y[k - 1] <= gap THEN at[k - 1] ELSE at[k - 1] + 1

LEMMA NumbersExist ==
  ASSUME NEW n \in Nat, NEW y \in [1 .. n -> Int], NEW gap \in Nat
  PROVE  \E at : Numbers(at, n, y, gap)
<1> DEFINE step == [k \in 1 .. n |-> [one \in Nat |->
                      IF k > 1 /\ y[k] - y[k - 1] <= gap THEN one ELSE one + 1]]
<1>1. step \in [1 .. n -> [Nat -> Nat]]
  BY SMT
<1>2. 0 \in Nat
  OBVIOUS
<1>3. PICK at : Solves(at, Nat, n, 0, step)
  <2> HIDE DEF step
  <2> QED BY <1>1, <1>2, RecursionExists, Zenon
<1>4. ASSUME NEW k \in 1 .. n
      PROVE  at[k] = IF k > 1 /\ y[k] - y[k - 1] <= gap THEN at[k - 1] ELSE at[k - 1] + 1
  <2>1. k - 1 \in 0 .. n
    BY SMT
  <2>2. at[k - 1] \in Nat /\ at[k] = step[k][at[k - 1]]
    BY <1>3, <2>1, Zenon DEF Solves
  <2>3. QED
    BY <2>2, Zenon
<1>5. QED
  BY <1>3, <1>4, Zenon DEF Solves, Numbers

\* Group numbers start at one, never fall and leave none out; heights at most a
\* gap apart are in one group.
Grouped(at, n, y, gap) ==
  /\ \A k \in 0 .. n : at[k] \in Nat
  /\ \A k \in 1 .. n : at[k] >= 1
  /\ \A k, l \in 1 .. n : k <= l => at[k] <= at[l]
  /\ \A g \in 1 .. at[n] : \E k \in 1 .. n : at[k] = g
  /\ \A k, l \in 1 .. n : k <= l /\ y[l] - y[k] <= gap => at[k] = at[l]

LEMMA NumbersAre ==
  ASSUME NEW n \in Nat, NEW y \in [1 .. n -> Int], NEW gap \in Nat, NEW at,
         Numbers(at, n, y, gap), \A k, l \in 1 .. n : k <= l => y[k] <= y[l]
  PROVE  Grouped(at, n, y, gap)
<1>0. /\ \A k \in 0 .. n : at[k] \in Nat
      /\ at[0] = 0
      /\ \A k \in 1 .. n : y[k] \in Int
      /\ \A k \in 1 .. n :
           at[k] = IF k > 1 /\ y[k] - y[k - 1] <= gap THEN at[k - 1] ELSE at[k - 1] + 1
  BY Zenon DEF Numbers
<1>1. \A k \in 1 .. n : at[k - 1] \in Nat /\ at[k - 1] <= at[k] /\ at[k] <= at[k - 1] + 1
  <2>1. SUFFICES ASSUME NEW k \in 1 .. n
                 PROVE  at[k - 1] \in Nat /\ at[k - 1] <= at[k] /\ at[k] <= at[k - 1] + 1
    OBVIOUS
  <2>2. k - 1 \in 0 .. n
    BY SMT
  <2>3. at[k - 1] \in Nat /\ (at[k] = at[k - 1] \/ at[k] = at[k - 1] + 1)
    BY <1>0, <2>2, Zenon
  <2>4. QED
    BY <2>3, SMT
<1>2. ASSUME NEW k \in 0 .. n, NEW l \in 0 .. n, k <= l PROVE at[k] <= at[l]
  <2> DEFINE bad == {m \in k .. n : at[m] < at[k]}
  <2>1. ASSUME bad # {} PROVE FALSE
    <3>1. bad \in SUBSET Nat
      BY SMT
    <3>2. PICK m \in bad : \A j \in bad : m <= j
      <4> HIDE DEF bad
      <4> QED BY <2>1, <3>1, LeastOf
    <3>3. m \in k .. n /\ at[m] < at[k]
      BY <3>2
    <3>4. at[k] \in Nat /\ at[m] \in Nat /\ m # k
      <4>1. m \in 0 .. n
        BY <3>3, SMT
      <4>2. at[k] \in Nat /\ at[m] \in Nat
        BY <1>0, <4>1, Zenon
      <4>3. QED
        BY <3>3, <4>2, SMT
    <3>5. m - 1 \in k .. n /\ m \in 1 .. n /\ ~ (m <= m - 1)
      BY <3>3, <3>4, SMT
    <3>6. m - 1 \notin bad
      BY <3>2, <3>5, Zenon
    <3>7. ~ (at[m - 1] < at[k])
      BY <3>5, <3>6, Zenon
    <3>8. at[m - 1] \in Nat /\ at[m - 1] <= at[m]
      BY <1>1, <3>5, Zenon
    <3>9. QED
      BY <3>3, <3>4, <3>7, <3>8, SMT
  <2>2. l \in k .. n
    BY <1>2, SMT
  <2>3. ~ (at[l] < at[k])
    BY <2>1, <2>2, Zenon
  <2>4. QED
    BY <1>0, <2>3, SMT
<1>3. ASSUME NEW k \in 1 .. n PROVE at[k] >= 1
  <2>1. 1 \in 1 .. n /\ 1 \in 0 .. n /\ k \in 0 .. n /\ 1 <= k /\ ~ (1 > 1) /\ 1 - 1 = 0
    BY SMT
  <2>2. at[1] = at[1 - 1] + 1
    BY <1>0, <2>1, Zenon
  <2>3. at[1] = 0 + 1
    BY <1>0, <2>1, <2>2, Zenon
  <2>4. at[1] <= at[k] /\ at[k] \in Nat
    BY <1>0, <1>2, <2>1, Zenon
  <2>5. QED
    BY <2>3, <2>4, SMT
<1>4. ASSUME NEW g \in 1 .. at[n] PROVE \E k \in 1 .. n : at[k] = g
  <2> DEFINE S == {k \in 1 .. n : at[k] >= g}
  <2>0. n \in 0 .. n /\ at[n] \in Nat
    BY <1>0, SMT
  <2>1. n # 0
    BY <1>0, <1>4, <2>0, SMT
  <2>2. n \in S /\ S \in SUBSET Nat
    BY <2>0, <2>1, SMT
  <2>3. PICK k \in S : \A j \in S : k <= j
    <3>1. S # {} /\ S \in SUBSET Nat
      BY <2>2, Zenon
    <3> HIDE DEF S
    <3> QED BY <3>1, LeastOf
  <2>4. k \in 1 .. n /\ at[k] >= g /\ at[k] \in Nat /\ at[k - 1] \in Nat /\ at[k] <= at[k - 1] + 1
    <3>1. k \in 1 .. n /\ at[k] >= g /\ k \in 0 .. n
      BY SMT
    <3>2. QED
      BY <1>0, <1>1, <3>1, Zenon
  <2>5. ~ (at[k - 1] >= g)
    <3>1. CASE k = 1
      <4>1. at[k - 1] = 0
        <5>1. k - 1 = 0
          BY <3>1, SMT
        <5>2. QED
          BY <1>0, <5>1, Zenon
      <4>2. QED
        BY <1>4, <2>0, <4>1, SMT
    <3>2. CASE k # 1
      <4>1. k - 1 \in 1 .. n /\ ~ (k <= k - 1)
        BY <2>4, <3>2, SMT
      <4>2. QED
        BY <2>3, <4>1, Zenon
    <3>3. QED
      BY <3>1, <3>2
  <2>6. at[k] = g
    BY <2>0, <2>4, <2>5, SMT
  <2>7. QED
    BY <2>4, <2>6, Zenon
<1>5. ASSUME NEW k \in 1 .. n, NEW l \in 1 .. n, k <= l, y[l] - y[k] <= gap PROVE at[k] = at[l]
  <2> DEFINE bad == {m \in k .. l : at[m] # at[k]}
  <2>1. ASSUME bad # {} PROVE FALSE
    <3>1. bad \in SUBSET Nat
      BY SMT
    <3>2. PICK m \in bad : \A j \in bad : m <= j
      <4> HIDE DEF bad
      <4> QED BY <2>1, <3>1, LeastOf
    <3>3. m \in k .. l /\ at[m] # at[k] /\ m # k
      BY <3>2
    <3>4. m - 1 \in k .. l /\ m \in 1 .. n /\ m - 1 \in 1 .. n /\ m > 1 /\ ~ (m <= m - 1)
          /\ k <= m - 1 /\ m <= l
      BY <3>3, SMT
    <3>5. at[m - 1] = at[k]
      BY <3>2, <3>4, Zenon
    <3>6. y[k] <= y[m - 1] /\ y[m] <= y[l]
      BY <3>4, Zenon
    <3>7. y[k] \in Int /\ y[m - 1] \in Int /\ y[m] \in Int /\ y[l] \in Int
      BY <1>0, <3>4, Zenon
    <3>8. y[m] - y[m - 1] <= gap
      BY <1>5, <3>6, <3>7, SMT
    <3>9. at[m] = at[m - 1]
      BY <1>0, <3>4, <3>8, Zenon
    <3>10. QED
      BY <3>3, <3>5, <3>9, Zenon
  <2>2. l \in k .. l
    BY <1>5, SMT
  <2>3. QED
    BY <2>1, <2>2, Zenon
<1>6. \A k, l \in 1 .. n : k <= l => at[k] <= at[l]
  <2>1. \A k \in 1 .. n : k \in 0 .. n
    BY SMT
  <2>2. QED
    BY <1>2, <2>1, Zenon
<1>7. QED
  BY <1>0, <1>3, <1>4, <1>5, <1>6, Zenon DEF Grouped

-----------------------------------------------------------------------------
(* PDF: the rows of a page are the groups of its heights                    *)

Ys(lines) == [k \in 1 .. Len(lines) |-> Sorted(lines)[k].y]

LEMMA YsTyped ==
  ASSUME NEW lines \in Seq(Pdf!Line)
  PROVE  /\ Ys(lines) \in [1 .. Len(lines) -> Int]
         /\ \A k, l \in 1 .. Len(lines) : k <= l => Ys(lines)[k] <= Ys(lines)[l]
         /\ \A k \in 1 .. Len(lines) : Ys(lines)[k] = Sorted(lines)[k].y
<1>1. /\ \A k \in 1 .. Len(lines) : Sorted(lines)[k].y \in Int
      /\ \A k, l \in 1 .. Len(lines) : k <= l => Sorted(lines)[k].y <= Sorted(lines)[l].y
  BY SortedLines, Zenon
<1>2. \A k \in 1 .. Len(lines) : Ys(lines)[k] = Sorted(lines)[k].y
  BY Zenon DEF Ys
<1>3. QED
  BY <1>1, <1>2, Zenon DEF Ys

\* Of the first n lines those of a group.
GroupLines(s, at, n, g) == {s[m] : m \in {m \in 1 .. n : at[m] = g}}

LEMMA GroupLinesGrow ==
  ASSUME NEW n \in Nat \ {0}, NEW s, NEW at, NEW g
  PROVE  /\ at[n] = g => GroupLines(s, at, n, g) = GroupLines(s, at, n - 1, g) \cup {s[n]}
         /\ at[n] # g => GroupLines(s, at, n, g) = GroupLines(s, at, n - 1, g)
<1>1. \A m : m \in 1 .. n <=> (m \in 1 .. n - 1 \/ m = n)
  BY SMT
<1>2. at[n] = g => {m \in 1 .. n : at[m] = g} = {m \in 1 .. n - 1 : at[m] = g} \cup {n}
  BY <1>1, Zenon
<1>3. at[n] # g => {m \in 1 .. n : at[m] = g} = {m \in 1 .. n - 1 : at[m] = g}
  BY <1>1, Zenon
<1>4. QED
  BY <1>2, <1>3, Zenon DEF GroupLines

LEMMA AppendSet ==
  ASSUME NEW T, NEW list \in Seq(T), NEW x \in T
  PROVE  /\ Pdf!ToSet(Append(list, x)) = Pdf!ToSet(list) \cup {x}
         /\ Len(Append(list, x)) \in Nat \ {0}
         /\ Pdf!Last(Append(list, x)) = x
<1>1. /\ Append(list, x) \in Seq(T) /\ Len(Append(list, x)) = Len(list) + 1
      /\ \A k \in 1 .. Len(list) : Append(list, x)[k] = list[k]
      /\ Append(list, x)[Len(list) + 1] = x
  BY AppendProperties
<1>2. /\ Len(list) \in Nat /\ DOMAIN list = 1 .. Len(list)
      /\ DOMAIN Append(list, x) = 1 .. Len(list) + 1
  BY <1>1, Places, Zenon
<1>3. \A k : k \in 1 .. Len(list) + 1 <=> (k \in 1 .. Len(list) \/ k = Len(list) + 1)
  BY <1>2, SMT
<1>4. Pdf!ToSet(Append(list, x)) = Pdf!ToSet(list) \cup {x}
  BY <1>1, <1>2, <1>3, Zenon DEF Pdf!ToSet
<1>5. Len(Append(list, x)) \in Nat \ {0}
  BY <1>1, <1>2, SMT
<1>6. QED
  BY <1>1, <1>4, <1>5, Zenon DEF Pdf!Last

LEMMA OneSet ==
  ASSUME NEW x
  PROVE  Pdf!ToSet(<< x >>) = {x} /\ Len(<< x >>) = 1 /\ Pdf!Last(<< x >>) = x
<1>1. DOMAIN << x >> = 1 .. 1 /\ << x >>[1] = x /\ Len(<< x >>) = 1 /\ 1 .. 1 = {1}
  BY SMT
<1>2. QED
  BY <1>1, Zenon DEF Pdf!ToSet, Pdf!Last

\* The rows of the first n lines are the groups, and end in the last of these.
RowsAre(rs, s, at, n) ==
  /\ Len(rs) = at[n]
  /\ \A g \in 1 .. at[n] : Pdf!ToSet(rs[g]) = GroupLines(s, at, n, g)
  /\ n > 0 => Pdf!Last(rs[at[n]]) = s[n]

LEMMA AddLineKeepsRows ==
  ASSUME NEW lines \in Seq(Pdf!Line), NEW at, Numbers(at, Len(lines), Ys(lines), Threshold),
         NEW n \in 1 .. Len(lines), NEW rs \in Seq(Seq(Pdf!Line)),
         RowsAre(rs, Sorted(lines), at, n - 1)
  PROVE  RowsAre(Pdf!AddLine(rs, Sorted(lines)[n]), Sorted(lines), at, n)
<1> DEFINE s == Sorted(lines)
           N == Len(lines)
           y == Ys(lines)
           new == Pdf!AddLine(rs, s[n])
<1>1. /\ N \in Nat /\ Threshold \in Nat
      /\ y \in [1 .. N -> Int] /\ \A k, l \in 1 .. N : k <= l => y[k] <= y[l]
      /\ \A k \in 1 .. N : s[k] \in Pdf!Line /\ y[k] = s[k].y
  <2>1. s \in Seq(Pdf!Line) /\ Len(s) = N
    BY SortedLines, Zenon
  <2>2. \A k \in 1 .. N : s[k] \in Pdf!Line
    <3> HIDE DEF s, N
    <3> QED BY <2>1, Places, Zenon
  <2>3. N \in Nat
    BY Places, Zenon
  <2>4. QED
    BY <2>2, <2>3, YsTyped, PdfConstants, Zenon
<1>2. Numbers(at, N, y, Threshold)
  OBVIOUS
<1> HIDE DEF s, N, y
<1>3. /\ \A k \in 0 .. N : at[k] \in Nat
      /\ \A k \in 1 .. N : at[k] >= 1
      /\ \A k, l \in 1 .. N : k <= l => at[k] <= at[l]
  <2>1. Grouped(at, N, y, Threshold)
    BY <1>1, <1>2, NumbersAre, Zenon
  <2>2. QED
    BY <2>1, Zenon DEF Grouped
<1>4. /\ n \in Nat /\ n > 0 /\ n \in 1 .. N /\ n - 1 \in 0 .. N
      /\ (n = 1 => n - 1 = 0) /\ (n > 1 => n - 1 \in 1 .. N /\ n - 1 > 0)
  BY <1>1, SMT DEF N
<1>5. /\ Len(rs) = at[n - 1]
      /\ \A g \in 1 .. at[n - 1] : Pdf!ToSet(rs[g]) = GroupLines(s, at, n - 1, g)
      /\ n - 1 > 0 => Pdf!Last(rs[at[n - 1]]) = s[n - 1]
  BY Zenon DEF RowsAre, s
<1>6. at[n - 1] \in Nat /\ at[n] \in Nat /\ s[n] \in Pdf!Line /\ (n = 1 => at[n - 1] = 0)
  <2>1. n \in 0 .. N /\ (n = 1 => n - 1 = 0)
    BY <1>4, SMT
  <2>2. at[0] = 0
    BY <1>2, Zenon DEF Numbers
  <2>3. QED
    BY <1>1, <1>3, <1>4, <2>1, <2>2, Zenon
<1>7. (rs # << >> /\ Pdf!Continues(rs[Len(rs)], s[n])) <=> (n > 1 /\ y[n] - y[n - 1] <= Threshold)
  <2>1. CASE n = 1
    <3>1. rs = << >>
      <4>1. Len(rs) = 0
        BY <1>5, <1>6, <2>1, Zenon
      <4>2. QED
        BY <4>1, Places, Zenon
    <3>2. ~ (n > 1)
      BY <2>1, SMT
    <3>3. QED
      BY <3>1, <3>2, Zenon
  <2>2. CASE n # 1
    <3>1. n > 1 /\ n - 1 \in 1 .. N /\ n - 1 <= n
      BY <1>4, <2>2, SMT
    <3>2. rs # << >>
      <4>1. at[n - 1] >= 1
        BY <1>3, <3>1, Zenon
      <4>2. Len(rs) # 0
        BY <1>5, <1>6, <4>1, SMT
      <4>3. QED
        BY <4>2, Places, Zenon
    <3>3. Pdf!Last(rs[Len(rs)]) = s[n - 1]
      BY <1>4, <1>5, <3>1, Zenon
    <3>4. Pdf!Continues(rs[Len(rs)], s[n]) <=> Pdf!Abs(y[n] - y[n - 1]) <= Threshold
      BY <1>1, <1>4, <3>1, <3>3, Zenon DEF Pdf!Continues
    <3>5. y[n] \in Int /\ y[n - 1] \in Int /\ y[n - 1] <= y[n]
      BY <1>1, <1>4, <3>1, Zenon
    <3>6. Pdf!Abs(y[n] - y[n - 1]) = y[n] - y[n - 1]
      BY <3>5, SMT DEF Pdf!Abs
    <3>7. QED
      BY <3>1, <3>2, <3>4, <3>6, Zenon
  <2>3. QED
    BY <2>1, <2>2
<1>8. at[n] = IF rs # << >> /\ Pdf!Continues(rs[Len(rs)], s[n]) THEN Len(rs) ELSE Len(rs) + 1
  BY <1>2, <1>4, <1>5, <1>7, Zenon DEF Numbers
<1>9. ASSUME NEW g
      PROVE  /\ at[n] = g => GroupLines(s, at, n, g) = GroupLines(s, at, n - 1, g) \cup {s[n]}
             /\ at[n] # g => GroupLines(s, at, n, g) = GroupLines(s, at, n - 1, g)
  <2>1. n \in Nat \ {0}
    BY <1>4
  <2>2. QED
    <3>1. CASE at[n] = g
      <4>1. GroupLines(s, at, n, g) = GroupLines(s, at, n - 1, g) \cup {s[n]}
        BY <2>1, <3>1, GroupLinesGrow, Zenon
      <4>2. QED
        BY <3>1, <4>1, Zenon
    <3>2. CASE at[n] # g
      <4>1. GroupLines(s, at, n, g) = GroupLines(s, at, n - 1, g)
        BY <2>1, <3>2, GroupLinesGrow, SMT
      <4>2. QED
        BY <3>2, <4>1, Zenon
    <3>3. QED
      BY <3>1, <3>2, Zenon
<1>10. CASE rs # << >> /\ Pdf!Continues(rs[Len(rs)], s[n])
  <2>1. /\ Len(new) = Len(rs)
        /\ \A k \in 1 .. Len(rs) - 1 : new[k] = rs[k]
        /\ new[Len(rs)] = Append(rs[Len(rs)], s[n])
    BY <1>6, <1>10, AddLineIs, Zenon
  <2>2. at[n] = Len(rs)
    BY <1>8, <1>10, Zenon
  <2>3. Len(rs) \in 1 .. Len(rs) /\ rs[Len(rs)] \in Seq(Pdf!Line)
    <3>1. Len(rs) \in Nat /\ Len(rs) # 0 /\ \A k \in 1 .. Len(rs) : rs[k] \in Seq(Pdf!Line)
      <4>1. (rs = << >> <=> Len(rs) = 0) /\ \A k \in 1 .. Len(rs) : rs[k] \in Seq(Pdf!Line)
        BY Places, Zenon
      <4>2. QED
        BY <1>5, <1>6, <1>10, <4>1, Zenon
    <3>2. Len(rs) \in 1 .. Len(rs)
      BY <3>1, SMT
    <3>3. QED
      BY <3>1, <3>2, Zenon
  <2>4. /\ Pdf!ToSet(new[Len(rs)]) = Pdf!ToSet(rs[Len(rs)]) \cup {s[n]}
        /\ Pdf!Last(new[Len(rs)]) = s[n]
    <3>1. PICK last \in Seq(Pdf!Line), x \in Pdf!Line : last = rs[Len(rs)] /\ x = s[n]
      BY <1>6, <2>3, Zenon
    <3>2. /\ Pdf!ToSet(Append(last, x)) = Pdf!ToSet(last) \cup {x}
          /\ Pdf!Last(Append(last, x)) = x
      BY AppendSet
    <3>3. QED
      BY <2>1, <3>1, <3>2, Zenon
  <2>5. ASSUME NEW g \in 1 .. at[n] PROVE Pdf!ToSet(new[g]) = GroupLines(s, at, n, g)
    <3>1. g \in 1 .. at[n - 1]
      BY <1>5, <2>2, Zenon
    <3>2. CASE g = Len(rs)
      BY <1>5, <1>9, <2>2, <2>4, <3>1, <3>2, Zenon
    <3>3. CASE g # Len(rs)
      <4>1. g \in 1 .. Len(rs) - 1
        BY <1>5, <1>6, <3>1, <3>3, SMT
      <4>2. new[g] = rs[g] /\ at[n] # g
        BY <2>1, <2>2, <3>3, <4>1, Zenon
      <4>3. QED
        BY <1>5, <1>9, <3>1, <4>2, Zenon
    <3>4. QED
      BY <3>2, <3>3
  <2>6. QED
    BY <2>1, <2>2, <2>4, <2>5, Zenon DEF RowsAre, s
<1>11. CASE ~ (rs # << >> /\ Pdf!Continues(rs[Len(rs)], s[n]))
  <2>1. /\ Len(new) = Len(rs) + 1
        /\ \A k \in 1 .. Len(rs) : new[k] = rs[k]
        /\ new[Len(rs) + 1] = << s[n] >>
    BY <1>6, <1>11, AddLineIs, Zenon
  <2>2. at[n] = Len(rs) + 1
    BY <1>8, <1>11, Zenon
  <2>3. Pdf!ToSet(new[at[n]]) = {s[n]} /\ Pdf!Last(new[at[n]]) = s[n]
    BY <2>1, <2>2, OneSet, Zenon
  <2>4. GroupLines(s, at, n - 1, at[n]) = {}
    <3>1. ASSUME NEW m \in 1 .. n - 1 PROVE at[m] # at[n]
      <4>1. m \in 1 .. N /\ n - 1 \in 1 .. N /\ m <= n - 1
        BY <1>1, <1>4, SMT
      <4>2. at[m] <= at[n - 1]
        BY <1>3, <4>1, Zenon
      <4>3. m \in 0 .. N
        BY <4>1, SMT
      <4>4. at[m] \in Nat
        BY <1>3, <4>3, Zenon
      <4>5. at[n] = at[n - 1] + 1
        BY <1>5, <2>2, Zenon
      <4>6. QED
        BY <1>6, <4>2, <4>4, <4>5, SMT
    <3>2. QED
      BY <3>1, Zenon DEF GroupLines
  <2>5. ASSUME NEW g \in 1 .. at[n] PROVE Pdf!ToSet(new[g]) = GroupLines(s, at, n, g)
    <3>1. CASE g = at[n]
      BY <1>9, <2>3, <2>4, <3>1, Zenon
    <3>2. CASE g # at[n]
      <4>1. g \in 1 .. Len(rs)
        BY <1>5, <1>6, <2>2, <3>2, SMT
      <4>2. new[g] = rs[g] /\ g \in 1 .. at[n - 1]
        BY <1>5, <2>1, <4>1, Zenon
      <4>3. QED
        BY <1>5, <1>9, <3>2, <4>2, Zenon
    <3>3. QED
      BY <3>1, <3>2
  <2>6. QED
    BY <2>1, <2>2, <2>3, <2>5, Zenon DEF RowsAre, s
<1>12. QED
  BY <1>10, <1>11, Zenon

\* The rows of a page are the groups of its heights.
LEMMA RowsAreGroups ==
  ASSUME NEW lines \in Seq(Pdf!Line), NEW at, Numbers(at, Len(lines), Ys(lines), Threshold)
  PROVE  /\ Pdf!GroupedRows(lines) \in Seq(Seq(Pdf!Line))
         /\ RowsAre(Pdf!GroupedRows(lines), Sorted(lines), at, Len(lines))
<1> DEFINE N == Len(lines)
           s == Sorted(lines)
<1>1. N \in Nat
  BY Places, Zenon
<1>2. PICK f : /\ Pdf!GroupedRows(lines) = f[N] /\ f[0] = << >>
               /\ \A n \in 0 .. N : f[n] \in Seq(Seq(Pdf!Line))
               /\ \A n \in 1 .. N : f[n] = Pdf!AddLine(f[n - 1], s[n])
  BY GroupedRowsIs, Zenon
<1> DEFINE bad == {m \in 0 .. N : ~ RowsAre(f[m], s, at, m)}
<1>3. ASSUME bad # {} PROVE FALSE
  <2>1. bad \in SUBSET Nat
    BY <1>1, SMT
  <2>2. PICK m \in bad : \A k \in bad : m <= k
    <3> HIDE DEF bad
    <3> QED BY <1>3, <2>1, LeastOf
  <2>3. m # 0
    <3>1. SUFFICES RowsAre(f[0], s, at, 0)
      BY <2>2, Zenon
    <3>2. at[0] = 0 /\ Len(<< >>) = 0 /\ 1 .. 0 = {} /\ ~ (0 > 0)
      BY SMT DEF Numbers
    <3>3. QED
      BY <1>2, <3>2, Zenon DEF RowsAre
  <2>4. m \in 1 .. N /\ m - 1 \in 0 .. N /\ ~ (m <= m - 1)
    BY <1>1, <2>2, <2>3, SMT
  <2>5. RowsAre(f[m - 1], s, at, m - 1)
    BY <2>2, <2>4, Zenon
  <2>6. f[m - 1] \in Seq(Seq(Pdf!Line)) /\ f[m] = Pdf!AddLine(f[m - 1], s[m])
    BY <1>2, <2>4, Zenon
  <2>7. RowsAre(f[m], s, at, m)
    BY <2>4, <2>5, <2>6, AddLineKeepsRows, Zenon
  <2>8. QED
    BY <2>2, <2>7, Zenon
<1>4. N \in 0 .. N
  BY <1>1, SMT
<1>5. QED
  BY <1>2, <1>3, <1>4, Zenon

-----------------------------------------------------------------------------
(* PDF: the rows of a page are its components                               *)

Near(lines, i, j) == Pdf!Abs(lines[i].y - lines[j].y) <= Threshold

\* What a chain of lines reaches in one step more.
Reached(lines, S) == S \cup {k \in DOMAIN lines : \E m \in S : Near(lines, m, k)}

\* Linked is what is reached in as many steps as there are lines.
LEMMA LinkedIs ==
  ASSUME NEW lines \in Seq(Pdf!Line), NEW i \in DOMAIN lines
  PROVE  \E f :
           /\ f[0] = {i}
           /\ \A n \in 1 .. Len(lines) : f[n] = Reached(lines, f[n - 1])
           /\ \A j : Pdf!Linked(lines, i, j) <=> j \in f[Len(lines)]
<1> DEFINE U == SUBSET (DOMAIN lines)
           N == Len(lines)
           step == [n \in 1 .. N |-> [S \in U |-> Reached(lines, S)]]
           Def(f) == f = [n \in 0 .. N |->
                            IF n = 0 THEN {i}
                            ELSE f[n - 1] \cup {k \in DOMAIN lines : \E m \in f[n - 1] :
                                   Pdf!Abs(lines[m].y - lines[k].y) <= Threshold}]
<1>1. N \in Nat
  BY Places, Zenon
<1>2. step \in [1 .. N -> [U -> U]]
  <2>1. \A S \in U : Reached(lines, S) \in U
    BY Zenon DEF Reached
  <2>2. QED
    BY <2>1, Zenon
<1>3. {i} \in U
  OBVIOUS
<1>4. PICK f : Solves(f, U, N, {i}, step)
  <2> HIDE DEF step, U, N
  <2> QED
    BY <1>1, <1>2, <1>3, RecursionExists, Zenon
<1> DEFINE whole == [n \in 0 .. N |->
                       IF n = 0 THEN {i}
                       ELSE f[n - 1] \cup {k \in DOMAIN lines : \E m \in f[n - 1] :
                              Pdf!Abs(lines[m].y - lines[k].y) <= Threshold}]
<1>5. ASSUME NEW n \in 0 .. N PROVE f[n] = whole[n]
  <2>1. CASE n = 0
    <3>1. f[0] = {i} /\ whole[0] = {i}
      BY <1>1, <1>4, <2>1, Zenon DEF Solves
    <3>2. QED
      BY <2>1, <3>1, Zenon
  <2>2. CASE n # 0
    <3>1. n \in 1 .. N /\ n - 1 \in 0 .. N
      BY <1>1, <2>2, SMT
    <3>2. f[n - 1] \in U
      BY <1>4, <3>1, Zenon DEF Solves
    <3>3. step[n][f[n - 1]] = Reached(lines, f[n - 1])
      BY <3>1, <3>2, Zenon
    <3>4. f[n] = step[n][f[n - 1]]
      BY <1>4, <3>1, Zenon DEF Solves
    <3> QED
      BY <2>2, <3>3, <3>4, Zenon DEF Reached, Near
  <2> QED
    BY <2>1, <2>2
<1>6. f = [n \in 0 .. N |-> f[n]]
  BY <1>4, Zenon DEF Solves
<1>7. Def(f)
  BY <1>5, <1>6, Zenon
<1>8. PICK g : Def(g) /\ \A j : Pdf!Linked(lines, i, j) <=> j \in g[N]
  <2> DEFINE g == CHOOSE g : Def(g)
  <2>1. \E d : Def(d)
    BY <1>7, Zenon
  <2>2. Def(g)
    <3> HIDE DEF whole, step
    <3> QED BY <2>1
  <2>3. \A j : Pdf!Linked(lines, i, j) <=> j \in g[N]
    BY Zenon DEF Pdf!Linked
  <2> HIDE DEF g
  <2>4. QED
    BY <2>2, <2>3, Zenon
<1>9. g[0] = {i} /\ \A n \in 1 .. N : g[n] = Reached(lines, g[n - 1])
  <2>1. 0 \in 0 .. N /\ \A n \in 1 .. N : n \in 0 .. N /\ n # 0
    BY <1>1, SMT
  <2>2. QED
    BY <1>8, <2>1, Zenon DEF Reached, Near
<1>10. QED
  BY <1>8, <1>9, Zenon

\* Lines are linked if and only if they are in one group.
LEMMA LinkedIsSameGroup ==
  ASSUME NEW lines \in Seq(Pdf!Line), NEW at, Numbers(at, Len(lines), Ys(lines), Threshold),
         NEW p \in 1 .. Len(lines), NEW q \in 1 .. Len(lines)
  PROVE  Pdf!Linked(lines, At(lines, p), At(lines, q)) <=> at[p] = at[q]
<1> DEFINE N == Len(lines)
           y == Ys(lines)
           a(k) == At(lines, k)
<1>1. /\ N \in Nat /\ DOMAIN lines = 1 .. N
      /\ \A k \in 1 .. N : a(k) \in 1 .. N /\ y[k] = lines[a(k)].y
      /\ \A i \in 1 .. N : \E k \in 1 .. N : a(k) = i
  <2>1. /\ \A k \in 1 .. N : /\ a(k) \in 1 .. N /\ Sorted(lines)[k] = lines[a(k)]
                             /\ y[k] = Sorted(lines)[k].y
        /\ \A i \in 1 .. N : \E k \in 1 .. N : a(k) = i
    BY SortedLines, YsTyped, Zenon
  <2>2. N \in Nat /\ DOMAIN lines = 1 .. N
    BY Places, Zenon
  <2>3. QED
    BY <2>1, <2>2, Zenon
<1>2. /\ y \in [1 .. N -> Int] /\ \A k, l \in 1 .. N : k <= l => y[k] <= y[l]
      /\ Threshold \in Nat
  BY YsTyped, PdfConstants, Zenon
<1>3. Numbers(at, N, y, Threshold)
  OBVIOUS
<1>4. PICK f : /\ f[0] = {a(p)}
               /\ \A n \in 1 .. N : f[n] = Reached(lines, f[n - 1])
               /\ \A j : Pdf!Linked(lines, a(p), j) <=> j \in f[N]
  BY <1>1, LinkedIs, Zenon
<1> HIDE DEF N, y, a
<1>5. /\ \A k \in 0 .. N : at[k] \in Nat
      /\ \A k, l \in 1 .. N : k <= l => at[k] <= at[l]
      /\ \A k, l \in 1 .. N : k <= l /\ y[l] - y[k] <= Threshold => at[k] = at[l]
  <2>1. Grouped(at, N, y, Threshold)
    BY <1>1, <1>2, <1>3, NumbersAre, Zenon
  <2>2. QED
    BY <2>1, Zenon DEF Grouped
<1>6. \A k, l \in 1 .. N : Near(lines, a(k), a(l)) <=> Pdf!Abs(y[k] - y[l]) <= Threshold
  BY <1>1, Zenon DEF Near
<1>7. ASSUME NEW k \in 1 .. N, NEW l \in 1 .. N, Near(lines, a(k), a(l)) PROVE at[k] = at[l]
  <2>1. Pdf!Abs(y[k] - y[l]) <= Threshold
    BY <1>6, <1>7, Zenon
  <2>2. y[k] \in Int /\ y[l] \in Int
    BY <1>2
  <2>3. y[k] - y[l] <= Threshold /\ y[l] - y[k] <= Threshold
    BY <1>2, <2>1, <2>2, SMT DEF Pdf!Abs
  <2>4. k <= l \/ l <= k
    BY <1>1, SMT
  <2>5. QED
    BY <1>5, <2>3, <2>4, Zenon
<1>8. ASSUME NEW k \in 1 .. N, k > 1, at[k] = at[k - 1]
      PROVE  Near(lines, a(k), a(k - 1)) /\ Near(lines, a(k - 1), a(k))
  <2>1. k - 1 \in 1 .. N /\ k - 1 \in 0 .. N /\ k - 1 <= k
    BY <1>1, <1>8, SMT
  <2>2. at[k] = IF k > 1 /\ y[k] - y[k - 1] <= Threshold THEN at[k - 1] ELSE at[k - 1] + 1
    BY <1>3, Zenon DEF Numbers
  <2>3. at[k - 1] \in Nat
    BY <1>5, <2>1, Zenon
  <2>4. y[k] - y[k - 1] <= Threshold
    BY <1>8, <2>2, <2>3, SMT
  <2>5. y[k] \in Int /\ y[k - 1] \in Int /\ y[k - 1] <= y[k]
    BY <1>2, <2>1
  <2>6. Pdf!Abs(y[k] - y[k - 1]) <= Threshold /\ Pdf!Abs(y[k - 1] - y[k]) <= Threshold
    BY <1>2, <2>4, <2>5, SMT DEF Pdf!Abs
  <2>7. QED
    BY <1>6, <2>1, <2>6, Zenon
<1> DEFINE Sound(n) == \A k \in 1 .. N : a(k) \in f[n] => at[k] = at[p]
           Whole(n) == \A k \in 1 .. N :
                         at[k] = at[p] /\ k - p <= n /\ p - k <= n => a(k) \in f[n]
           bad == {n \in 0 .. N : ~ (f[n] \subseteq 1 .. N /\ Sound(n) /\ Whole(n))}
<1>9. p \in 1 .. N /\ q \in 1 .. N
  BY Zenon DEF N
<1>10. ASSUME bad # {} PROVE FALSE
  <2>1. bad \in SUBSET Nat
    BY <1>1, SMT
  <2>2. PICK n \in bad : \A k \in bad : n <= k
    <3> HIDE DEF bad
    <3> QED BY <1>10, <2>1, LeastOf
  <2>3. n # 0
    <3>1. ASSUME n = 0 PROVE FALSE
      <4>1. f[0] \subseteq 1 .. N
        BY <1>1, <1>4, <1>9, Zenon
      <4>2. Sound(0)
        <5>1. ASSUME NEW k \in 1 .. N, a(k) \in f[0] PROVE at[k] = at[p]
          <6>1. a(k) = a(p)
            BY <1>4, <5>1, Zenon
          <6>2. y[k] = y[p]
            BY <1>1, <1>9, <6>1, Zenon
          <6>3. y[k] \in Int
            BY <1>2
          <6>4. Pdf!Abs(y[k] - y[p]) <= Threshold
            BY <1>2, <6>2, <6>3, SMT DEF Pdf!Abs
          <6>5. QED
            BY <1>6, <1>7, <1>9, <6>4, Zenon
        <5>2. QED
          BY <5>1, Zenon
      <4>3. Whole(0)
        <5>1. \A k \in 1 .. N : k - p <= 0 /\ p - k <= 0 => k = p
          BY <1>1, <1>9, SMT
        <5>2. a(p) \in f[0]
          BY <1>4, Zenon
        <5>3. QED
          BY <5>1, <5>2, Zenon
      <4>4. QED
        BY <2>2, <3>1, <4>1, <4>2, <4>3, Zenon
    <3>2. QED
      BY <3>1, Zenon
  <2>4. n \in 1 .. N /\ n - 1 \in 0 .. N /\ ~ (n <= n - 1) /\ n \in Nat
    BY <1>1, <2>2, <2>3, SMT
  <2>5. f[n - 1] \subseteq 1 .. N /\ Sound(n - 1) /\ Whole(n - 1)
    BY <2>2, <2>4, Zenon
  <2>6. f[n] = f[n - 1] \cup {k \in 1 .. N : \E m \in f[n - 1] : Near(lines, m, k)}
    BY <1>1, <1>4, <2>4, Zenon DEF Reached
  <2>7. f[n] \subseteq 1 .. N
    BY <2>5, <2>6, Zenon
  <2>8. Sound(n)
    <3>1. ASSUME NEW k \in 1 .. N, a(k) \in f[n] PROVE at[k] = at[p]
      <4>1. CASE a(k) \in f[n - 1]
        BY <2>5, <4>1, Zenon
      <4>2. CASE a(k) \notin f[n - 1]
        <5>1. PICK m \in f[n - 1] : Near(lines, m, a(k))
          BY <2>6, <3>1, <4>2, Zenon
        <5>2. PICK l \in 1 .. N : a(l) = m
          BY <1>1, <2>5, <5>1, Zenon
        <5>3. at[l] = at[p]
          BY <2>5, <5>1, <5>2, Zenon
        <5>4. at[l] = at[k]
          BY <1>7, <5>1, <5>2, Zenon
        <5>5. QED
          BY <5>3, <5>4, Zenon
      <4>3. QED
        BY <4>1, <4>2
    <3>2. QED
      BY <3>1, Zenon
  <2>9. Whole(n)
    <3>1. ASSUME NEW k \in 1 .. N, at[k] = at[p], k - p <= n, p - k <= n PROVE a(k) \in f[n]
      <4>1. CASE k - p <= n - 1 /\ p - k <= n - 1
        BY <2>5, <2>6, <3>1, <4>1, Zenon
      <4>2. CASE k - p = n
        <5>1. /\ k - 1 \in 1 .. N /\ p <= k - 1 /\ k - 1 <= k /\ k > 1
              /\ (k - 1) - p <= n - 1 /\ p - (k - 1) <= n - 1
          BY <1>1, <1>9, <2>4, <4>2, SMT
        <5>2. at[k - 1] = at[p]
          <6>1. at[p] <= at[k - 1] /\ at[k - 1] <= at[k]
            BY <1>5, <1>9, <5>1, Zenon
          <6>2. at[p] \in Nat /\ at[k - 1] \in Nat
            <7>1. p \in 0 .. N /\ k - 1 \in 0 .. N
              BY <1>9, <5>1, SMT
            <7>2. QED
              BY <1>5, <7>1, Zenon
          <6>3. QED
            BY <3>1, <6>1, <6>2, SMT
        <5>3. a(k - 1) \in f[n - 1]
          BY <2>5, <5>1, <5>2, Zenon
        <5>4. Near(lines, a(k - 1), a(k))
          BY <1>8, <3>1, <5>1, <5>2, Zenon
        <5>5. QED
          BY <1>1, <2>6, <5>3, <5>4, Zenon
      <4>3. CASE p - k = n
        <5>1. /\ k + 1 \in 1 .. N /\ k + 1 <= p /\ k <= k + 1 /\ k + 1 > 1 /\ (k + 1) - 1 = k
              /\ (k + 1) - p <= n - 1 /\ p - (k + 1) <= n - 1
          BY <1>1, <1>9, <2>4, <4>3, SMT
        <5>2. at[k + 1] = at[p]
          <6>1. at[k] <= at[k + 1] /\ at[k + 1] <= at[p]
            BY <1>5, <1>9, <5>1, Zenon
          <6>2. at[p] \in Nat /\ at[k + 1] \in Nat
            <7>1. p \in 0 .. N /\ k + 1 \in 0 .. N
              BY <1>9, <5>1, SMT
            <7>2. QED
              BY <1>5, <7>1, Zenon
          <6>3. QED
            BY <3>1, <6>1, <6>2, SMT
        <5>3. a(k + 1) \in f[n - 1]
          BY <2>5, <5>1, <5>2, Zenon
        <5>4. Near(lines, a(k + 1), a(k))
          <6>1. at[k + 1] = at[(k + 1) - 1]
            BY <3>1, <5>1, <5>2, Zenon
          <6>2. Near(lines, a(k + 1), a((k + 1) - 1))
            BY <1>8, <5>1, <6>1, Zenon
          <6>3. QED
            BY <5>1, <6>2, Zenon
        <5>5. QED
          BY <1>1, <2>6, <5>3, <5>4, Zenon
      <4>4. QED
        BY <1>1, <1>9, <2>4, <3>1, <4>1, <4>2, <4>3, SMT
    <3>2. QED
      BY <3>1, Zenon
  <2>10. QED
    <3> HIDE DEF Sound, Whole
    <3> QED BY <2>2, <2>7, <2>8, <2>9, Zenon
<1>11. N \in 0 .. N /\ q - p <= N /\ p - q <= N
  <2>1. N \in Nat
    BY <1>1, Zenon
  <2>2. QED
    BY <1>9, <2>1, SMT
<1>12. Sound(N) /\ Whole(N)
  BY <1>10, <1>11, Zenon
<1>13. a(q) \in f[N] <=> at[p] = at[q]
  BY <1>9, <1>11, <1>12, Zenon
<1>14. QED
  BY <1>4, <1>13, Zenon DEF a

\* The rows of a page, as sets of lines, are its components.
LEMMA RowsOfPage ==
  ASSUME NEW lines \in Seq(Pdf!Line)
  PROVE  {Pdf!ToSet(Pdf!GroupedRows(lines)[k]) : k \in DOMAIN Pdf!GroupedRows(lines)}
           = {{lines[j] : j \in {k \in DOMAIN lines : Pdf!Linked(lines, i, k)}} :
                i \in DOMAIN lines}
<1> DEFINE N == Len(lines)
           s == Sorted(lines)
           rs == Pdf!GroupedRows(lines)
           Component(i) == {lines[j] : j \in {k \in DOMAIN lines : Pdf!Linked(lines, i, k)}}
<1>1. N \in Nat /\ DOMAIN lines = 1 .. N
  BY Places, Zenon
<1>2. PICK at : Numbers(at, N, Ys(lines), Threshold)
  <2>1. Threshold \in Nat
    BY PdfConstants, Zenon
  <2>2. QED
    BY <1>1, <2>1, YsTyped, NumbersExist, Zenon
<1>3. rs \in Seq(Seq(Pdf!Line)) /\ RowsAre(rs, s, at, N)
  BY <1>2, RowsAreGroups, Zenon
<1>4. Grouped(at, N, Ys(lines), Threshold)
  <2>1. Threshold \in Nat
    BY PdfConstants, Zenon
  <2>2. QED
    BY <1>1, <1>2, <2>1, YsTyped, NumbersAre, Zenon
<1>5. DOMAIN rs = 1 .. at[N] /\ \A g \in 1 .. at[N] : Pdf!ToSet(rs[g]) = GroupLines(s, at, N, g)
  <2>1. DOMAIN rs = 1 .. Len(rs)
    BY <1>3, Places, Zenon
  <2>2. QED
    BY <1>3, <2>1, Zenon DEF RowsAre
<1>6. /\ \A k \in 1 .. N : At(lines, k) \in 1 .. N /\ s[k] = lines[At(lines, k)]
      /\ \A i \in 1 .. N : \E k \in 1 .. N : At(lines, k) = i
  BY SortedLines, Zenon
<1>7. ASSUME NEW p \in 1 .. N PROVE Component(At(lines, p)) = GroupLines(s, at, N, at[p])
  <2>1. \A q \in 1 .. N : Pdf!Linked(lines, At(lines, p), At(lines, q)) <=> at[p] = at[q]
    BY <1>2, LinkedIsSameGroup, Zenon
  <2>2. ASSUME NEW x \in Component(At(lines, p)) PROVE x \in GroupLines(s, at, N, at[p])
    <3>1. PICK j \in 1 .. N : Pdf!Linked(lines, At(lines, p), j) /\ x = lines[j]
      BY <1>1, <2>2, Zenon
    <3>2. PICK q \in 1 .. N : At(lines, q) = j
      BY <1>6, Zenon
    <3>3. at[q] = at[p] /\ x = s[q]
      BY <1>6, <2>1, <3>1, <3>2, Zenon
    <3>4. QED
      BY <3>3, Zenon DEF GroupLines
  <2>3. ASSUME NEW x \in GroupLines(s, at, N, at[p]) PROVE x \in Component(At(lines, p))
    <3>1. PICK q \in 1 .. N : at[q] = at[p] /\ x = s[q]
      BY <2>3, Zenon DEF GroupLines
    <3>2. Pdf!Linked(lines, At(lines, p), At(lines, q)) /\ x = lines[At(lines, q)]
      BY <1>6, <2>1, <3>1, Zenon
    <3>3. QED
      BY <1>1, <1>6, <3>2, Zenon
  <2>4. QED
    <3> HIDE DEF Component
    <3> QED BY <2>2, <2>3, Zenon
<1>8. \A p \in 1 .. N : at[p] \in 1 .. at[N]
  <2>1. SUFFICES ASSUME NEW p \in 1 .. N PROVE at[p] \in 1 .. at[N]
    OBVIOUS
  <2>2. p \in 0 .. N /\ N \in 0 .. N /\ p <= N /\ N \in 1 .. N
    BY <1>1, SMT
  <2>3. at[p] \in Nat /\ at[N] \in Nat /\ at[p] >= 1 /\ at[p] <= at[N]
    BY <1>4, <2>2, Zenon DEF Grouped
  <2>4. QED
    BY <2>3, SMT
<1>9. \A g \in 1 .. at[N] : \E p \in 1 .. N : at[p] = g
  BY <1>4, Zenon DEF Grouped
<1> HIDE DEF Component, N, s, rs
<1>10. \A g \in DOMAIN rs : \E i \in DOMAIN lines : Pdf!ToSet(rs[g]) = Component(i)
  <2>1. SUFFICES ASSUME NEW g \in 1 .. at[N]
                 PROVE  \E i \in DOMAIN lines : Pdf!ToSet(rs[g]) = Component(i)
    BY <1>5, Zenon
  <2>2. PICK p \in 1 .. N : at[p] = g
    BY <1>9, Zenon
  <2>3. Pdf!ToSet(rs[g]) = Component(At(lines, p))
    BY <1>5, <1>7, <2>2, Zenon
  <2>4. QED
    BY <1>1, <1>6, <2>3, Zenon
<1>11. \A i \in DOMAIN lines : \E g \in DOMAIN rs : Component(i) = Pdf!ToSet(rs[g])
  <2>1. SUFFICES ASSUME NEW i \in 1 .. N
                 PROVE  \E g \in DOMAIN rs : Component(i) = Pdf!ToSet(rs[g])
    BY <1>1, Zenon
  <2>2. PICK p \in 1 .. N : At(lines, p) = i
    BY <1>6, Zenon
  <2>3. at[p] \in DOMAIN rs /\ Component(i) = Pdf!ToSet(rs[at[p]])
    BY <1>5, <1>7, <1>8, <2>2, Zenon
  <2>4. QED
    BY <2>3, Zenon
<1>12. {Pdf!ToSet(rs[k]) : k \in DOMAIN rs} = {Component(i) : i \in DOMAIN lines}
  BY <1>10, <1>11, Zenon
<1>13. QED
  BY <1>12, Zenon DEF rs, Component

-----------------------------------------------------------------------------
(* PDF: the transactions                                                    *)

\* What rows of a set are read as.
OcrRows(all) ==
  {Pdf!OcrTransaction(words, n) :
     words \in {w \in Seq(Pdf!Word) : Pdf!IsRow(w) /\ w \in all}, n \in Nat}

LEMMA RowWordsTyped ==
  ASSUME NEW row \in Seq(Pdf!Line)
  PROVE  Pdf!RowWords(row) \in Seq(Pdf!Word)
<1> DEFINE key == [i \in DOMAIN row |-> row[i].x]
           sorted == SortedBy(row, key)
           lists == [k \in DOMAIN row |-> sorted[k].words]
<1>1. Len(row) \in Nat /\ DOMAIN row = 1 .. Len(row) /\ \A i \in 1 .. Len(row) : row[i] \in Pdf!Line
  BY Places, Zenon
<1>2. \A line \in Pdf!Line : line.words \in Seq(Pdf!Word) /\ line.x \in Int
  BY DEF Pdf!Line
<1>3. key \in [1 .. Len(row) -> Int]
  BY <1>1, <1>2, Zenon
<1>4. sorted \in Seq(Pdf!Line) /\ Len(sorted) = Len(row)
  <2> HIDE DEF key
  <2> QED BY <1>3, SortedByProperties, Zenon
<1>5. \A k \in 1 .. Len(row) : sorted[k] \in Pdf!Line
  <2> HIDE DEF sorted
  <2> QED BY <1>4, Places, Zenon
<1>6. lists \in [1 .. Len(row) -> Seq(Pdf!Word)]
  <2> HIDE DEF sorted
  <2> QED BY <1>1, <1>2, <1>5, Zenon
<1>7. lists \in Seq(Seq(Pdf!Word))
  <2> HIDE DEF lists
  <2> QED BY <1>1, <1>6
<1>8. Pdf!RowWords(row) = Pdf!FlattenSeq(lists)
  BY PdfLists, Zenon DEF Pdf!RowWords
<1>9. QED
  <2> HIDE DEF lists
  <2> QED BY <1>7, <1>8, FlattenTyped, Zenon

\* What a page is read as: transactions of rows with a date.
LEMMA PageTyped ==
  ASSUME NEW all, NEW lines \in Seq(Pdf!Line),
         \A k \in DOMAIN Pdf!GroupedRows(lines) :
           LET words == Pdf!RowWords(Pdf!GroupedRows(lines)[k])
           IN  Pdf!IsRow(words) => words \in all
  PROVE  Pdf!PageTransactions(lines) \in Seq(OcrRows(all))
<1> DEFINE rs == Pdf!GroupedRows(lines)
           read == [n \in DOMAIN rs |-> Pdf!OcrTransaction(Pdf!RowWords(rs[n]), n)]
           S == {n \in DOMAIN rs : Pdf!IsRow(Pdf!RowWords(rs[n]))}
           T == {read[n] : n \in DOMAIN rs}
           c == Cardinality(S)
<1>1. PICK at : Numbers(at, Len(lines), Ys(lines), Threshold)
  <2>1. Threshold \in Nat /\ Len(lines) \in Nat
    BY PdfConstants, Places, Zenon
  <2>2. QED
    BY <2>1, YsTyped, NumbersExist, Zenon
<1>2. rs \in Seq(Seq(Pdf!Line))
  BY <1>1, RowsAreGroups, Zenon
<1>3. Len(rs) \in Nat /\ DOMAIN rs = 1 .. Len(rs) /\ \A n \in 1 .. Len(rs) : rs[n] \in Seq(Pdf!Line)
  <2> HIDE DEF rs
  <2> QED BY <1>2, Places, Zenon
<1>4. read \in [1 .. Len(rs) -> T] /\ DOMAIN read = 1 .. Len(rs)
  BY <1>3, Zenon
<1>5. read \in Seq(T)
  <2> HIDE DEF read, T, rs
  <2> QED BY <1>3, <1>4
<1>6. S \in SUBSET DOMAIN read
  BY <1>3, <1>4, Zenon
<1>7. Pdf!PageTransactions(lines) = AtPlaces(read, S)
  BY PdfLists, Zenon DEF Pdf!PageTransactions
<1>8. ASSUME NEW n \in S PROVE read[n] \in OcrRows(all)
  <2>1. n \in 1 .. Len(rs) /\ Pdf!IsRow(Pdf!RowWords(rs[n])) /\ Pdf!RowWords(rs[n]) \in all
    BY <1>3, Zenon
  <2>2. Pdf!RowWords(rs[n]) \in Seq(Pdf!Word)
    BY <1>3, <2>1, RowWordsTyped, Zenon
  <2>3. n \in Nat
    BY <1>3, <2>1, SMT
  <2>4. read[n] = Pdf!OcrTransaction(Pdf!RowWords(rs[n]), n)
    BY <1>3, <2>1, Zenon
  <2> HIDE DEF read, rs
  <2>5. PICK w \in Seq(Pdf!Word) : w = Pdf!RowWords(rs[n])
    BY <2>2, Zenon
  <2>6. Pdf!IsRow(w) /\ w \in all /\ read[n] = Pdf!OcrTransaction(w, n)
    BY <2>1, <2>4, <2>5, Zenon
  <2>7. w \in {v \in Seq(Pdf!Word) : Pdf!IsRow(v) /\ v \in all}
    BY <2>6, SMT
  <2>8. QED
    BY <2>3, <2>6, <2>7, SMT DEF OcrRows
<1> HIDE DEF read, S, T
<1>9. /\ c \in Nat /\ Len(AtPlaces(read, S)) = c
      /\ \A k \in 1 .. c : Place(S, k) \in S /\ AtPlaces(read, S)[k] = read[Place(S, k)]
  BY <1>5, <1>6, AtPlacesProperties, Zenon
<1>10. AtPlaces(read, S) \in [1 .. c -> OcrRows(all)]
  <2>1. AtPlaces(read, S) = [k \in 1 .. c |-> read[Place(S, k)]]
    BY Zenon DEF AtPlaces
  <2>2. QED
    BY <1>8, <1>9, <2>1, Zenon
<1> HIDE DEF c
<1>11. AtPlaces(read, S) \in Seq(OcrRows(all))
  BY <1>9, <1>10
<1>12. QED
  BY <1>7, <1>11, Zenon

\* The transactions of all pages; no two say the same.
LEMMA OcrTyped ==
  ASSUME NEW pages \in Seq(Seq(Pdf!Line))
  PROVE  /\ Pdf!OcrTransactions(pages) \in Seq(OcrRows(Pdf!RowsOf(pages)))
         /\ \A i, j \in DOMAIN Pdf!OcrTransactions(pages) :
              i # j => Pdf!SeenKey(Pdf!OcrTransactions(pages)[i])
                         # Pdf!SeenKey(Pdf!OcrTransactions(pages)[j])
<1> DEFINE all == Pdf!RowsOf(pages)
           lists == [p \in DOMAIN pages |-> Pdf!PageTransactions(pages[p])]
           s == Pdf!FlattenSeq(lists)
           S == {i \in DOMAIN s : \A j \in 1..(i - 1) : Pdf!SeenKey(s[j]) # Pdf!SeenKey(s[i])}
           c == Cardinality(S)
           part == AtPlaces(s, S)
<1>1. Len(pages) \in Nat /\ DOMAIN pages = 1 .. Len(pages)
      /\ \A p \in 1 .. Len(pages) : pages[p] \in Seq(Pdf!Line)
  BY Places, Zenon
<1>2. lists \in [1 .. Len(pages) -> Seq(OcrRows(all))]
  <2>1. ASSUME NEW p \in 1 .. Len(pages) PROVE Pdf!PageTransactions(pages[p]) \in Seq(OcrRows(all))
    <3> DEFINE of(q) == {Pdf!RowWords(Pdf!GroupedRows(pages[q])[l]) :
                           l \in DOMAIN Pdf!GroupedRows(pages[q])}
    <3>1. ASSUME NEW k \in DOMAIN Pdf!GroupedRows(pages[p]),
                 Pdf!IsRow(Pdf!RowWords(Pdf!GroupedRows(pages[p])[k]))
          PROVE  Pdf!RowWords(Pdf!GroupedRows(pages[p])[k]) \in all
      <4>1. PICK words : words = Pdf!RowWords(Pdf!GroupedRows(pages[p])[k])
        OBVIOUS
      <4>2. words \in of(p) /\ p \in DOMAIN pages
        BY <1>1, <4>1, Zenon
      <4>3. all = {w \in UNION {of(q) : q \in DOMAIN pages} : Pdf!IsRow(w)}
        BY Zenon DEF Pdf!RowsOf
      <4> HIDE DEF of, all
      <4>4. words \in UNION {of(q) : q \in DOMAIN pages}
        BY <4>2, Zenon
      <4>5. QED
        BY <3>1, <4>1, <4>3, <4>4, Zenon
    <3> HIDE DEF all
    <3>2. QED
      BY <1>1, <3>1, PageTyped, Zenon
  <2> HIDE DEF all
  <2>2. QED
    BY <1>1, <2>1, Zenon
<1> HIDE DEF all
<1>3. lists \in Seq(Seq(OcrRows(all)))
  <2>1. PICK n \in Nat : n = Len(pages)
    BY <1>1, Zenon
  <2>2. lists \in [1 .. n -> Seq(OcrRows(all))]
    BY <1>2, <2>1, Zenon
  <2> HIDE DEF lists
  <2>3. QED
    BY <2>2, SMT
<1>4. s \in Seq(OcrRows(all))
  <2> HIDE DEF lists
  <2> QED BY <1>3, FlattenTyped, Zenon
<1>5. Pdf!OcrTransactions(pages) = part
  BY PdfLists, Zenon DEF Pdf!OcrTransactions
<1> HIDE DEF lists, s
<1>6. S \in SUBSET DOMAIN s
  BY Zenon
<1>7. ASSUME NEW i \in S, NEW j \in S, i < j PROVE Pdf!SeenKey(s[i]) # Pdf!SeenKey(s[j])
  <2>1. Len(s) \in Nat /\ DOMAIN s = 1 .. Len(s)
    BY <1>4, Places, Zenon
  <2>2. i \in 1 .. Len(s) /\ j \in 1 .. Len(s)
    BY <2>1, Zenon
  <2>3. i \in 1 .. (j - 1)
    BY <1>7, <2>1, <2>2, SMT
  <2>4. QED
    BY <2>3, Zenon
<1> HIDE DEF S
<1>8. /\ c \in Nat /\ part \in Seq(OcrRows(all)) /\ Len(part) = c
      /\ \A k \in 1 .. c : Place(S, k) \in S /\ part[k] = s[Place(S, k)]
      /\ \A k, l \in 1 .. c : k < l => Place(S, k) < Place(S, l)
  BY <1>4, <1>6, AtPlacesProperties, Zenon
<1> HIDE DEF part, c
<1>9. DOMAIN part = 1 .. c
  BY <1>8, Places, Zenon
<1>10. ASSUME NEW i \in DOMAIN part, NEW j \in DOMAIN part, i < j
       PROVE  Pdf!SeenKey(part[i]) # Pdf!SeenKey(part[j])
  <2>1. i \in 1 .. c /\ j \in 1 .. c
    BY <1>9, <1>10, Zenon
  <2>2. Place(S, i) < Place(S, j)
    BY <1>8, <1>10, <2>1, Zenon
  <2>3. Place(S, i) \in S /\ Place(S, j) \in S
    BY <1>8, <2>1, Zenon
  <2>4. Pdf!SeenKey(s[Place(S, i)]) # Pdf!SeenKey(s[Place(S, j)])
    BY <1>7, <2>2, <2>3, Zenon
  <2>5. part[i] = s[Place(S, i)] /\ part[j] = s[Place(S, j)]
    BY <1>8, <2>1, Zenon
  <2>6. QED
    BY <2>4, <2>5, Zenon
<1>11. ASSUME NEW i \in DOMAIN part, NEW j \in DOMAIN part, i # j
       PROVE  Pdf!SeenKey(part[i]) # Pdf!SeenKey(part[j])
  <2>1. i < j \/ j < i
    BY <1>8, <1>9, <1>11, SMT
  <2>2. QED
    BY <1>10, <2>1, Zenon
<1>12. QED
  BY <1>5, <1>8, <1>11, Zenon DEF all

-----------------------------------------------------------------------------
(* PDF: tables                                                              *)

\* The last two of three.
LEMMA LastTwo ==
  ASSUME NEW U, NEW s \in Seq(U), Len(s) = 3, NEW m \in Int, m = 2, NEW n \in Int, n = 3
  PROVE  SubSeq(s, m, n) = << s[2], s[3] >>
<1>1. \A i \in m .. n : s[i] \in U
  <2>1. s[2] \in U /\ s[3] \in U
    <3>1. 2 \in 1 .. 3 /\ 3 \in 1 .. 3
      OBVIOUS
    <3>2. QED
      BY <3>1, Places, Zenon
  <2>2. \A i \in m .. n : i = 2 \/ i = 3
    OBVIOUS
  <2>3. QED
    BY <2>1, <2>2, Zenon
<1>2. /\ SubSeq(s, m, n) \in Seq(U)
      /\ Len(SubSeq(s, m, n)) = IF m <= n THEN n - m + 1 ELSE 0
      /\ \A i \in 1 .. n - m + 1 : SubSeq(s, m, n)[i] = s[m + i - 1]
  BY <1>1, SubSeqProperties
<1>3. PICK p \in Seq(U) : p = SubSeq(s, m, n)
  BY <1>2, Zenon
<1>4. /\ Len(p) = IF m <= n THEN n - m + 1 ELSE 0
      /\ \A i \in 1 .. n - m + 1 : p[i] = s[m + i - 1]
  BY <1>2, <1>3, Zenon
<1>5. Len(p) = 2 /\ p[1] = s[2] /\ p[2] = s[3]
  BY <1>4
<1>6. p = << p[1], p[2] >>
  BY <1>5
<1>7. QED
  BY <1>3, <1>5, <1>6, Zenon

\* The first of two.
LEMMA FirstOne ==
  ASSUME NEW U, NEW s \in Seq(U), Len(s) = 2, NEW m \in Int, m = 1
  PROVE  SubSeq(s, m, m) = << s[1] >>
<1>1. \A i \in m .. m : s[i] \in U
  OBVIOUS
<1>2. /\ SubSeq(s, m, m) \in Seq(U)
      /\ Len(SubSeq(s, m, m)) = IF m <= m THEN m - m + 1 ELSE 0
      /\ \A i \in 1 .. m - m + 1 : SubSeq(s, m, m)[i] = s[m + i - 1]
  BY <1>1, SubSeqProperties
<1>3. PICK p \in Seq(U) : p = SubSeq(s, m, m)
  BY <1>2, Zenon
<1>4. /\ Len(p) = IF m <= m THEN m - m + 1 ELSE 0
      /\ \A i \in 1 .. m - m + 1 : p[i] = s[m + i - 1]
  BY <1>2, <1>3, Zenon
<1>5. Len(p) = 1 /\ p[1] = s[1]
  BY <1>4
<1>6. p = << p[1] >>
  BY <1>5
<1>7. QED
  BY <1>3, <1>5, <1>6, Zenon

\* A row of three cells, a date, a text and an amount, is read like a table's row
\* when it is recognised on a picture.
LEMMA TableRowReadsAlike ==
  ASSUME NEW row \in Seq(Pdf!Word), Len(row) = 3, Pdf!IsTableRow(row),
         row[3].kind = "amount", row[2].kind \notin {"dr", "cr"} \cup Pdf!Figure
  PROVE  /\ Pdf!TableTransaction(row).tx_date = Head(Pdf!Dates(row)).value
         /\ Pdf!TableTransaction(row).amount = Pdf!Abs(Pdf!AmountOf(row))
         /\ Pdf!TableTransaction(row).is_debit = Pdf!IsDebit(row)
         /\ Pdf!TableTransaction(row).description = Pdf!DescriptionOf(row)
<1>1. /\ row[1].kind = "date" /\ row[3].kind = "amount"
      /\ row[2].kind # "date" /\ row[2].kind \notin Pdf!Figure
      /\ row[2].kind # "dr" /\ row[2].kind # "cr"
      /\ "date" \in Pdf!Figure /\ "amount" \in Pdf!Figure
  BY SMT DEF Pdf!IsTableRow, Pdf!Figure
<1>2. DOMAIN row = {1, 2, 3}
  <2>1. DOMAIN row = 1 .. 3
    BY Places, Zenon
  <2>2. QED
    BY <2>1, SMT
<1>3. /\ DatePlaces(row) = {1}
      /\ FigurePlaces(row) = {1, 3}
  BY <1>1, <1>2, SMT DEF DatePlaces, FigurePlaces
<1>4. Head(Pdf!Dates(row)) = row[1]
  <2>1. Pdf!Dates(row) = AtPlaces(row, DatePlaces(row))
    BY PdfLists, Zenon DEF Pdf!Dates, DatePlaces
  <2>2. {1} \in SUBSET DOMAIN row /\ 1 \in {1} /\ \A k \in {1} : 1 <= k /\ k <= 1
    BY <1>2, SMT
  <2>3. Head(AtPlaces(row, {1})) = row[1]
    BY <2>2, EndsOfPlaces, Zenon
  <2>4. QED
    BY <1>3, <2>1, <2>3, Zenon
<1>5. Pdf!Last(Pdf!Figures(row)) = row[3]
  <2>1. Pdf!Figures(row) = AtPlaces(row, FigurePlaces(row))
    BY PdfLists, Zenon DEF Pdf!Figures, FigurePlaces
  <2>2. /\ {1, 3} \in SUBSET DOMAIN row /\ 1 \in {1, 3} /\ 3 \in {1, 3}
        /\ \A k \in {1, 3} : 1 <= k /\ k <= 3
    BY <1>2, SMT
  <2>3. Pdf!Last(AtPlaces(row, {1, 3})) = row[3]
    BY <2>2, EndsOfPlaces, Zenon
  <2>4. QED
    BY <1>3, <2>1, <2>3, Zenon
<1>6. Pdf!DescriptionOf(row) = << row[2] >>
  <2>1. PICK d \in Pdf!Word, t \in Pdf!Word, a \in Pdf!Word : row = << d, t, a >>
    <3>1. row[1] \in Pdf!Word /\ row[2] \in Pdf!Word /\ row[3] \in Pdf!Word
      BY <1>2, Places, Zenon
    <3>2. row = << row[1], row[2], row[3] >>
      OBVIOUS
    <3>3. QED
      BY <3>1, <3>2, Zenon
  <2>2. d = row[1] /\ t = row[2] /\ a = row[3]
    BY <2>1
  <2>3. ASSUME NEW part PROVE ~ Pdf!Holds(t, part) \/ t = part
    <3>1. ASSUME << t, part >> \in DOMAIN Rest PROVE FALSE
      <4>1. << t, part >>[1].kind \in Pdf!Figure
        BY <3>1, PdfConstants, Zenon
      <4>2. << t, part >>[1] = t
        OBVIOUS
      <4>3. QED
        BY <1>1, <2>2, <4>1, <4>2, Zenon
    <3>2. QED
      BY <3>1, Zenon DEF Pdf!Holds
  <2>4. Pdf!Removed(<< d, t, a >>, d) = << t, a >>
    <3>1. Pdf!Holds(d, d) /\ Pdf!Left(d, d) = << >>
      BY Zenon DEF Pdf!Holds, Pdf!Left
    <3>2. PICK list \in Seq(Pdf!Word) : list = << d, t, a >>
      BY <2>1, Zenon
    <3> DEFINE holding == {i \in DOMAIN list : Pdf!Holds(list[i], d)}
    <3>3. DOMAIN list = {1, 2, 3} /\ list[1] = d /\ Len(list) = 3
      BY <3>2
    <3>4. 1 \in holding /\ \A i \in holding : i \in Nat /\ 1 <= i
      BY <3>1, <3>3
    <3>5. Pdf!Min(holding) = 1
      <4> HIDE DEF holding
      <4>1. \A m \in holding : (\A k \in holding : m <= k) => m = 1
        BY <3>4
      <4>2. QED
        BY <3>4, <4>1, Zenon DEF Pdf!Min
    <3>6. Pdf!Removed(list, d) = SubSeq(list, 1, 1 - 1) \o << >> \o SubSeq(list, 1 + 1, 3)
      <4>1. holding # {}
        BY <3>4, Zenon
      <4>2. QED
        BY <3>1, <3>3, <3>5, <4>1, Zenon DEF Pdf!Removed
    <3>7. SubSeq(<< d, t, a >>, 1, 1 - 1) \o << >> \o SubSeq(<< d, t, a >>, 1 + 1, 3) = << t, a >>
      <4>1. SubSeq(<< d, t, a >>, 1, 1 - 1) = << >>
        OBVIOUS
      <4>2. SubSeq(<< d, t, a >>, 1 + 1, 3) = << t, a >>
        <5>1. PICK m \in Int, n \in Int : m = 2 /\ n = 3
          OBVIOUS
        <5>2. m = 1 + 1
          BY <5>1
        <5>3. SubSeq(list, m, n) = << list[2], list[3] >>
          BY <3>3, <5>1, LastTwo, Zenon
        <5>4. list[2] = t /\ list[3] = a
          BY <3>2
        <5>5. QED
          BY <3>2, <5>1, <5>2, <5>3, <5>4, Zenon
      <4>3. << >> \o << >> \o << t, a >> = << t, a >>
        OBVIOUS
      <4>4. QED
        BY <4>1, <4>2, <4>3, Zenon
    <3>8. QED
      BY <3>2, <3>6, <3>7, Zenon
  <2>5. Pdf!Fragment(a) = a
    <3>1. a.kind = "amount"
      BY <1>1, <2>2, Zenon
    <3>2. QED
      BY <3>1 DEF Pdf!Fragment, Pdf!Word
  <2>6. Pdf!Removed(<< t, a >>, a) = << t >>
    <3>1. Pdf!Holds(a, a) /\ Pdf!Left(a, a) = << >> /\ t # a
      BY <1>1, <2>2, Zenon DEF Pdf!Holds, Pdf!Left
    <3>2. PICK list \in Seq(Pdf!Word) : list = << t, a >>
      <4>1. d.kind \in {"date", "amount"} /\ << d, t, a >> \in Seq(Pdf!Word)
        BY <1>1, <2>1, <2>2
      <4>2. QED
        BY <2>4, <4>1, RemovedKeepsMarks, Zenon
    <3> DEFINE holding == {i \in DOMAIN list : Pdf!Holds(list[i], a)}
    <3>3. DOMAIN list = {1, 2} /\ list[1] = t /\ list[2] = a /\ Len(list) = 2
      BY <3>2
    <3>4. ~ Pdf!Holds(t, a)
      BY <2>3, <3>1
    <3>5. holding = {2}
      BY <3>1, <3>3, <3>4, Zenon
    <3>6. Pdf!Min({2}) = 2
      <4>1. 2 \in {2} /\ \A k \in {2} : 2 <= k
        OBVIOUS
      <4>2. \A m \in {2} : m = 2
        OBVIOUS
      <4>3. QED
        BY <4>1, <4>2, Zenon DEF Pdf!Min
    <3>7. Pdf!Removed(list, a) = SubSeq(list, 1, 2 - 1) \o << >> \o SubSeq(list, 2 + 1, 2)
      <4>1. holding # {} /\ Pdf!Min(holding) = 2
        BY <3>5, <3>6, Zenon
      <4>2. QED
        BY <3>1, <3>3, <4>1, Zenon DEF Pdf!Removed
    <3>8. SubSeq(<< t, a >>, 1, 2 - 1) \o << >> \o SubSeq(<< t, a >>, 2 + 1, 2) = << t >>
      <4>1. SubSeq(<< t, a >>, 1, 2 - 1) = << t >>
        <5>1. PICK m \in Int : m = 1
          OBVIOUS
        <5>2. m = 2 - 1
          BY <5>1
        <5>3. SubSeq(list, m, m) = << list[1] >>
          BY <3>3, <5>1, FirstOne, Zenon
        <5>4. QED
          BY <3>2, <3>3, <5>1, <5>2, <5>3, Zenon
      <4>2. SubSeq(<< t, a >>, 2 + 1, 2) = << >>
        OBVIOUS
      <4>3. << t >> \o << >> \o << >> = << t >>
        OBVIOUS
      <4>4. QED
        BY <4>1, <4>2, <4>3, Zenon
    <3>9. QED
      BY <3>2, <3>7, <3>8, Zenon
  <2>7. QED
    BY <1>4, <1>5, <2>1, <2>2, <2>4, <2>5, <2>6, Zenon DEF Pdf!DescriptionOf
<1>7. Pdf!AmountOf(row) = row[3].value
  BY <1>5, Zenon DEF Pdf!AmountOf
<1>8. Pdf!IsDebit(row) = (row[3].value < 0)
  <2>1. "date" # "cr" /\ "date" # "dr" /\ "amount" # "cr" /\ "amount" # "dr"
    BY SMT
  <2>2. ~ Pdf!Says(row, "cr") /\ ~ Pdf!Says(row, "dr")
    BY <1>1, <1>2, <2>1, Zenon DEF Pdf!Says
  <2>3. Pdf!IsDebit(row) = (Pdf!AmountOf(row) < 0)
    <3>1. PICK x \in Int : x = Pdf!AmountOf(row)
      <4>1. 3 \in DOMAIN row /\ row[3] \in Pdf!Word
        BY <1>2, Places, Zenon
      <4>2. row[3].value \in Int
        BY <4>1, SMT DEF Pdf!Word
      <4>3. QED
        BY <1>7, <4>2, Zenon
    <3>2. Pdf!IsDebit(row) <=> x < 0
      BY <2>2, <3>1, Zenon DEF Pdf!IsDebit
    <3>3. Pdf!IsDebit(row) \in BOOLEAN
      BY Zenon DEF Pdf!IsDebit
    <3>4. PICK d \in BOOLEAN : d = Pdf!IsDebit(row)
      BY <3>3, Zenon
    <3>5. d = (x < 0)
      BY <3>2, <3>4, SMT
    <3>6. QED
      BY <3>1, <3>4, <3>5, Zenon
  <2>4. QED
    BY <1>7, <2>3, Zenon
<1>9. /\ Pdf!TableTransaction(row).tx_date = row[1].value
      /\ Pdf!TableTransaction(row).description = << row[2] >>
      /\ Pdf!TableTransaction(row).amount = Pdf!Abs(row[3].value)
      /\ Pdf!TableTransaction(row).is_debit = (row[3].value < 0)
  BY Zenon DEF Pdf!TableTransaction
<1>10. QED
  BY <1>4, <1>6, <1>7, <1>8, <1>9, Zenon

\* What is read of a page's table.
TableRows == {Pdf!TableTransaction(row) : row \in {r \in Seq(Pdf!Word) : Pdf!IsTableRow(r)}}

LEMMA TableTyped ==
  ASSUME NEW tables \in Seq(Seq(Seq(Pdf!Word)))
  PROVE  Pdf!TableTransactions(tables) \in Seq(TableRows)
<1> DEFINE S(table) == {i \in DOMAIN table : i > 1 /\ Pdf!IsTableRow(table[i])}
           body(table) == Pdf!AtPlaces(table, S(table))
           page(table) == [k \in DOMAIN body(table) |-> Pdf!TableTransaction(body(table)[k])]
           lists == [p \in DOMAIN tables |-> page(tables[p])]
<1>1. Len(tables) \in Nat /\ DOMAIN tables = 1 .. Len(tables)
      /\ \A p \in 1 .. Len(tables) : tables[p] \in Seq(Seq(Pdf!Word))
  BY Places, Zenon
<1>2. ASSUME NEW table \in Seq(Seq(Pdf!Word)) PROVE page(table) \in Seq(TableRows)
  <2> DEFINE P == S(table)
             c == Cardinality(P)
             part == AtPlaces(table, P)
  <2>1. P \in SUBSET DOMAIN table
    BY Zenon
  <2>2. body(table) = part
    BY PdfLists, Zenon
  <2>3. \A i \in P : i \in DOMAIN table /\ Pdf!IsTableRow(table[i])
    BY Zenon
  <2> HIDE DEF P
  <2>4. /\ c \in Nat /\ part \in Seq(Seq(Pdf!Word)) /\ Len(part) = c
        /\ \A k \in 1 .. c : Place(P, k) \in P /\ part[k] = table[Place(P, k)]
    <3>1. PICK U : U = Seq(Pdf!Word)
      OBVIOUS
    <3>2. table \in Seq(U)
      BY <3>1, Zenon
    <3>3. /\ Cardinality(P) \in Nat /\ AtPlaces(table, P) \in Seq(U)
          /\ Len(AtPlaces(table, P)) = Cardinality(P)
          /\ \A k \in 1 .. Cardinality(P) : Place(P, k) \in P /\ AtPlaces(table, P)[k] = table[Place(P, k)]
      BY <2>1, <3>2, AtPlacesProperties, SMT
    <3>4. QED
      BY <3>1, <3>3, Zenon
  <2> HIDE DEF part, c
  <2>5. DOMAIN part = 1 .. c /\ \A k \in 1 .. c : part[k] \in Seq(Pdf!Word)
    BY <2>4, Places, Zenon
  <2>6. \A k \in 1 .. c : Pdf!TableTransaction(part[k]) \in TableRows
    <3>1. SUFFICES ASSUME NEW k \in 1 .. c PROVE Pdf!TableTransaction(part[k]) \in TableRows
      OBVIOUS
    <3>2. PICK r \in Seq(Pdf!Word) : r = part[k]
      BY <2>5, Zenon
    <3>3. Pdf!IsTableRow(r)
      BY <2>3, <2>4, <3>2, Zenon
    <3>4. r \in {v \in Seq(Pdf!Word) : Pdf!IsTableRow(v)}
      BY <3>3, SMT
    <3>5. QED
      BY <3>2, <3>4, Zenon DEF TableRows
  <2>7. PICK n \in Nat : n = c
    BY <2>4, Zenon
  <2>8. page(table) = [k \in 1 .. n |-> Pdf!TableTransaction(part[k])]
    BY <2>2, <2>5, <2>7, Zenon
  <2>9. [k \in 1 .. n |-> Pdf!TableTransaction(part[k])] \in [1 .. n -> TableRows]
    BY <2>6, <2>7, Zenon
  <2>10. PICK f : f = [k \in 1 .. n |-> Pdf!TableTransaction(part[k])]
    OBVIOUS
  <2>11. f \in Seq(TableRows)
    <3>1. f \in [1 .. n -> TableRows]
      BY <2>9, <2>10, Zenon
    <3>2. QED
      BY <3>1, SMT
  <2>12. QED
    BY <2>8, <2>10, <2>11, Zenon
<1>3. Pdf!TableTransactions(tables) = Pdf!FlattenSeq(lists)
  BY Zenon DEF Pdf!TableTransactions
<1> HIDE DEF page
<1>4. PICK n \in Nat : n = Len(tables)
  BY <1>1, Zenon
<1>5. lists \in [1 .. n -> Seq(TableRows)]
  BY <1>1, <1>2, <1>4, Zenon
<1> HIDE DEF lists
<1>6. lists \in Seq(Seq(TableRows))
  BY <1>5, SMT
<1>7. QED
  BY <1>3, <1>6, FlattenTyped, Zenon

-----------------------------------------------------------------------------
(* PDF: the invariant                                                       *)

\* What is loaded is what the tables say, what the pictures say, or nothing.
PdfInv ==
  /\ doc \in PdfDocuments
  /\ pdf_stage \in {"received", "loaded"}
  /\ pdf_stage = "received" => txs = << >>
  /\ pdf_stage = "loaded" =>
       \/ txs = Pdf!TableTransactions(doc.tables)
       \/ txs = Pdf!OcrTransactions(doc.pages)
       \/ txs = << >>

LEMMA PdfStarts == Pdf!Init => PdfInv
BY Zenon DEF Pdf!Init, PdfInv

LEMMA PdfKeeps == PdfInv /\ [Pdf!Next]_pdf_vars => PdfInv'
<1> SUFFICES ASSUME PdfInv, [Pdf!Next]_pdf_vars PROVE PdfInv'
  OBVIOUS
<1>1. CASE Pdf!Load
  <2>1. doc' = doc /\ pdf_stage' = "loaded"
    BY <1>1, Zenon DEF Pdf!Load
  <2>2. \/ txs' = Pdf!TableTransactions(doc.tables)
        \/ txs' = Pdf!OcrTransactions(doc.pages)
        \/ txs' = << >>
    BY <1>1, Zenon DEF Pdf!Load
  <2>3. doc \in PdfDocuments /\ "loaded" # "received"
    BY SMT DEF PdfInv
  <2>4. QED
    BY <2>1, <2>2, <2>3, Zenon DEF PdfInv
<1>2. CASE Pdf!Terminated \/ UNCHANGED pdf_vars
  <2>1. pdf_stage' = pdf_stage /\ doc' = doc /\ txs' = txs
    BY <1>2 DEF Pdf!Terminated, Pdf!vars, pdf_vars
  <2>2. QED
    BY <2>1, Zenon DEF PdfInv
<1>3. QED
  BY <1>1, <1>2 DEF Pdf!Next

\* The pages, the ids and the two readings are as a statement should be read.
LEMMA PdfInvSaysAll == PdfInv => Pdf!PageReadsAsPrinted
<1> SUFFICES ASSUME PdfInv PROVE Pdf!PageReadsAsPrinted
  OBVIOUS
<1>1. doc.tables \in Seq(Seq(Seq(Pdf!Word))) /\ doc.pages \in Seq(Seq(Pdf!Line))
  BY PdfConstants, Zenon DEF PdfInv
<1>2. Pdf!RowsAreComponents
  <2>1. \A p \in DOMAIN doc.pages : doc.pages[p] \in Seq(Pdf!Line)
    BY <1>1, Places, Zenon
  <2>2. QED
    BY <2>1, RowsOfPage DEF Pdf!RowsAreComponents
<1>3. Pdf!OcrIdsAreUnique
  <2>1. SUFFICES ASSUME pdf_stage = "loaded", Pdf!TableTransactions(doc.tables) = << >>,
                        \A words \in Pdf!RowsOf(doc.pages) : Pdf!LeavesNoMark(words),
                        NEW i \in DOMAIN txs, NEW j \in DOMAIN txs, i # j
                 PROVE  txs[i].tx_id # txs[j].tx_id
    BY Zenon DEF Pdf!OcrIdsAreUnique
  <2>2. txs # << >>
    <3>1. SUFFICES ASSUME txs = << >> PROVE FALSE
      OBVIOUS
    <3>2. DOMAIN txs = {}
      BY <3>1, SMT
    <3>3. QED
      BY <3>2, <2>1, Zenon
  <2>3. txs = Pdf!OcrTransactions(doc.pages)
    BY <2>1, <2>2, Zenon DEF PdfInv
  <2>4. /\ txs \in Seq(OcrRows(Pdf!RowsOf(doc.pages)))
        /\ Pdf!SeenKey(txs[i]) # Pdf!SeenKey(txs[j])
    BY <1>1, <2>1, <2>3, OcrTyped, Zenon
  <2>5. txs[i] \in OcrRows(Pdf!RowsOf(doc.pages)) /\ txs[j] \in OcrRows(Pdf!RowsOf(doc.pages))
    BY <2>1, <2>4, Places, Zenon
  <2>6. PICK v \in {w \in Seq(Pdf!Word) : Pdf!IsRow(w) /\ w \in Pdf!RowsOf(doc.pages)}, m \in Nat :
          txs[i] = Pdf!OcrTransaction(v, m)
    BY <2>5, SMT DEF OcrRows
  <2>7. PICK w \in {w \in Seq(Pdf!Word) : Pdf!IsRow(w) /\ w \in Pdf!RowsOf(doc.pages)}, n \in Nat :
          txs[j] = Pdf!OcrTransaction(w, n)
    BY <2>5, SMT DEF OcrRows
  <2>8. /\ v \in Seq(Pdf!Word) /\ Pdf!IsRow(v) /\ Pdf!LeavesNoMark(v)
        /\ w \in Seq(Pdf!Word) /\ Pdf!IsRow(w) /\ Pdf!LeavesNoMark(w)
    BY <2>1
  <2>9. Pdf!SeenKey(Pdf!OcrTransaction(v, m)) # Pdf!SeenKey(Pdf!OcrTransaction(w, n))
    BY <2>4, <2>6, <2>7, Zenon
  <2>10. Pdf!OcrTransaction(v, m).tx_id # Pdf!OcrTransaction(w, n).tx_id
    <3>1. SUFFICES ASSUME Pdf!OcrTransaction(v, m).tx_id = Pdf!OcrTransaction(w, n).tx_id PROVE FALSE
      OBVIOUS
    <3>2. PICK x \in Seq(Pdf!Word), y \in Seq(Pdf!Word) :
            /\ x = v /\ y = w /\ Pdf!IsRow(x) /\ Pdf!IsRow(y)
            /\ Pdf!LeavesNoMark(x) /\ Pdf!LeavesNoMark(y)
      BY <2>8, Zenon
    <3>3. Pdf!OcrTransaction(x, m).tx_id = Pdf!OcrTransaction(y, n).tx_id
      BY <3>1, <3>2, Zenon
    <3>4. Pdf!SeenKey(Pdf!OcrTransaction(x, m)) = Pdf!SeenKey(Pdf!OcrTransaction(y, n))
      BY <3>2, <3>3, IdTellsSide
    <3>5. QED
      BY <2>9, <3>2, <3>4, Zenon
  <2>11. QED
    BY <2>6, <2>7, <2>10, Zenon
<1>4. Pdf!TableAndOcrAgree
  <2>1. \A p \in DOMAIN doc.tables : doc.tables[p] \in Seq(Seq(Pdf!Word))
    BY <1>1, Places, Zenon
  <2>2. ASSUME NEW p \in DOMAIN doc.tables, NEW k \in DOMAIN doc.tables[p]
        PROVE  doc.tables[p][k] \in Seq(Pdf!Word)
    BY <2>1, Places, Zenon
  <2>3. QED
    BY <2>2, TableRowReadsAlike DEF Pdf!TableAndOcrAgree
<1>5. QED
  BY <1>2, <1>3, <1>4 DEF Pdf!PageReadsAsPrinted

\* Amounts are numbers that are not negative.
LEMMA PdfInvTypes == PdfInv => Pdf!TypeOK
<1> SUFFICES ASSUME PdfInv PROVE Pdf!TypeOK
  OBVIOUS
<1>1. doc.tables \in Seq(Seq(Seq(Pdf!Word))) /\ doc.pages \in Seq(Seq(Pdf!Line))
  BY PdfConstants, Zenon DEF PdfInv
<1>2. ASSUME NEW tx \in TableRows PROVE tx.amount \in Nat /\ tx.is_debit \in BOOLEAN
  <2>1. PICK row \in {r \in Seq(Pdf!Word) : Pdf!IsTableRow(r)} : tx = Pdf!TableTransaction(row)
    BY <1>2, SMT DEF TableRows
  <2>2. row \in Seq(Pdf!Word) /\ Len(row) >= 3
    BY <2>1, SMT DEF Pdf!IsTableRow
  <2>3. row[3].value \in Int
    <3>1. 3 \in DOMAIN row
      BY <2>2
    <3>2. row[3] \in Pdf!Word
      BY <2>2, <3>1, Places, Zenon
    <3>3. QED
      BY <3>2, SMT DEF Pdf!Word
  <2>4. Pdf!Abs(row[3].value) \in Nat /\ (row[3].value < 0) \in BOOLEAN
    BY <2>3, SMT DEF Pdf!Abs
  <2>5. QED
    BY <2>1, <2>4, Zenon DEF Pdf!TableTransaction
<1>3. ASSUME NEW tx \in OcrRows(Pdf!RowsOf(doc.pages)) PROVE tx.amount \in Nat /\ tx.is_debit \in BOOLEAN
  <2>1. PICK v \in {w \in Seq(Pdf!Word) : Pdf!IsRow(w)}, m \in Nat : tx = Pdf!OcrTransaction(v, m)
    BY <1>3, SMT DEF OcrRows
  <2>2. v \in Seq(Pdf!Word) /\ Pdf!IsRow(v)
    BY SMT
  <2>3. QED
    BY <2>1, <2>2, OcrTransactionTyped, Zenon
<1>4. ASSUME NEW i \in DOMAIN txs PROVE txs[i].amount \in Nat /\ txs[i].is_debit \in BOOLEAN
  <2>1. txs # << >>
    <3>1. SUFFICES ASSUME txs = << >> PROVE FALSE
      OBVIOUS
    <3>2. DOMAIN txs = {}
      BY <3>1, SMT
    <3>3. QED
      BY <1>4, <3>2, Zenon
  <2>2. \/ txs = Pdf!TableTransactions(doc.tables)
        \/ txs = Pdf!OcrTransactions(doc.pages)
    BY <2>1, Zenon DEF PdfInv
  <2>3. txs \in Seq(TableRows) \/ txs \in Seq(OcrRows(Pdf!RowsOf(doc.pages)))
    BY <1>1, <2>2, TableTyped, OcrTyped, Zenon
  <2>4. txs[i] \in TableRows \/ txs[i] \in OcrRows(Pdf!RowsOf(doc.pages))
    BY <1>4, <2>3, Places, Zenon
  <2>5. QED
    BY <1>2, <1>3, <2>4, Zenon
<1>5. QED
  BY <1>4, Zenon DEF Pdf!TypeOK, PdfInv

-----------------------------------------------------------------------------
(* Leaks: rows                                                              *)

LEMMA LeakConstants ==
  /\ MaxRows \in Nat /\ MaxRepeats \in Nat
  /\ None \notin Keys /\ None \notin Summary
  /\ Tokens \in SUBSET Keys /\ IsFiniteSet(Tokens)
  /\ \A key \in Keys : FamilyOf[key] \in {"video", "chat", "docs", None}
  /\ Charges \in SUBSET Charge
BY ConstantsAssumption, Zenon

RowsOf(i) == {RowOf(i, c) : c \in Charges}
Row == UNION {RowsOf(i) : i \in 1 .. MaxRows}

LEMMA RowFields ==
  ASSUME NEW row \in Row
  PROVE  /\ row.id \in 1 .. MaxRows
         /\ row.amount \in Nat \ {0} /\ row.day \in Nat
         /\ row.debit \in BOOLEAN /\ row.invoice \in BOOLEAN /\ row.review \in BOOLEAN
         /\ row.category \in {"business", "personal", "unknown"}
         /\ row.clues \in [1 .. 3 -> Keys \cup {None}]
         /\ row.tokens \in SUBSET Tokens /\ row.word \in Keys /\ row.text \in SUBSET Keys
         /\ row.confidence \in Percent
<1>1. PICK i \in 1 .. MaxRows, c \in Charges : row = RowOf(i, c)
  BY Zenon DEF Row, RowsOf
<1>2. c \in Charge
  BY LeakConstants, Zenon
<1>3. DOMAIN c = {"amount", "day", "debit", "category", "clues", "tokens", "word", "text", "marker",
                  "bare", "hint", "billable", "invoice", "confidence", "review"}
  BY <1>2, SMT DEF Charge
<1>4. row = [field \in DOMAIN c \cup {"id"} |-> IF field = "id" THEN i ELSE c[field]]
  BY <1>1, Zenon DEF RowOf
<1>5. row.id = i
  BY <1>4, SMT
<1>6. /\ row.amount = c.amount /\ row.day = c.day
      /\ row.debit = c.debit /\ row.invoice = c.invoice /\ row.review = c.review
      /\ row.category = c.category
      /\ row.clues = c.clues /\ row.tokens = c.tokens /\ row.word = c.word
      /\ row.text = c.text /\ row.confidence = c.confidence
  BY <1>3, <1>4, SMT
<1>7. /\ c.amount \in Nat \ {0} /\ c.day \in Nat
      /\ c.debit \in BOOLEAN /\ c.invoice \in BOOLEAN /\ c.review \in BOOLEAN
      /\ c.category \in {"business", "personal", "unknown"}
      /\ c.clues \in [1 .. 3 -> Keys \cup {None}]
      /\ c.tokens \in SUBSET Tokens /\ c.word \in Keys /\ c.text \in SUBSET Keys
      /\ c.confidence \in Percent
  BY <1>2, SMT DEF Charge
<1>8. QED
  BY <1>5, <1>6, <1>7, Zenon

-----------------------------------------------------------------------------
(* Leaks: lists of rows                                                     *)

\* What passes a test is a list of the same kind.
LEMMA WhereTyped ==
  ASSUME NEW T, NEW list \in Seq(T), NEW S \in SUBSET DOMAIN list
  PROVE  AtPlaces(list, S) \in Seq(T)
BY AtPlacesProperties

LEMMA DebitsTyped ==
  ASSUME NEW T, NEW list \in Seq(T), NEW key
  PROVE  Debits(list, key) \in Seq(T)
<1> DEFINE S == {i \in DOMAIN list : list[i].debit /\ MerchantKey(list[i]) = key}
<1>1. Debits(list, key) = AtPlaces(list, S)
  BY Zenon DEF Debits, Where
<1>2. S \in SUBSET DOMAIN list
  BY Zenon
<1> HIDE DEF S
<1>3. QED
  BY <1>1, <1>2, WhereTyped, Zenon

LEMMA ByDayTyped ==
  ASSUME NEW list \in Seq(Row)
  PROVE  ByDay(list) \in Seq(Row) /\ Len(ByDay(list)) = Len(list)
<1> DEFINE day == [i \in DOMAIN list |-> list[i].day]
<1>1. DOMAIN list = 1 .. Len(list) /\ \A i \in 1 .. Len(list) : list[i] \in Row
  BY Places, Zenon
<1>2. \A i \in 1 .. Len(list) : list[i].day \in Int
  BY <1>1, RowFields, SMT
<1>3. day \in [1 .. Len(list) -> Int]
  BY <1>1, <1>2, Zenon
<1>4. ByDay(list) = SortedBy(list, day)
  BY Zenon DEF ByDay
<1> HIDE DEF day
<1>5. QED
  BY <1>3, <1>4, SortedByProperties, Zenon

LEMMA ListIsFinite ==
  ASSUME NEW T, NEW list \in Seq(T), NEW S \in SUBSET DOMAIN list
  PROVE  IsFiniteSet(S) /\ Cardinality(S) \in Nat /\ Cardinality(S) <= Len(list)
BY AtPlacesProperties

LEMMA SpentIsNat ==
  ASSUME NEW list \in Seq(Row)
  PROVE  Spent(list) \in Nat
<1> DEFINE f == [i \in DOMAIN list |-> list[i].amount]
<1>1. DOMAIN list \in SUBSET DOMAIN list /\ DOMAIN f = DOMAIN list
  BY Zenon
<1>2. \A i \in DOMAIN list : f[i] \in Nat
  <2>1. SUFFICES ASSUME NEW i \in DOMAIN list PROVE list[i].amount \in Nat
    BY Zenon
  <2>2. list[i] \in Row
    BY Places, Zenon
  <2>3. QED
    BY <2>2, RowFields, SMT
<1>3. IsFiniteSet(DOMAIN list)
  BY <1>1, ListIsFinite, Zenon
<1>4. Spent(list) = SumFunctionOnSet(f, DOMAIN list)
  BY <1>1, Zenon DEF Spent, SumFunction
<1> HIDE DEF f
<1>5. QED
  BY <1>2, <1>3, <1>4, SumIsNat, Zenon

LEMMA IdsTyped ==
  ASSUME NEW list \in Seq(Row)
  PROVE  Ids(list) \in SUBSET (1 .. MaxRows)
<1>1. SUFFICES ASSUME NEW i \in DOMAIN list PROVE list[i].id \in 1 .. MaxRows
  BY Zenon DEF Ids
<1>2. list[i] \in Row
  BY Places, Zenon
<1>3. QED
  BY <1>2, RowFields, Zenon

\* A merchant key is one of the keys.
LEMMA MerchantKeyTyped ==
  ASSUME NEW row \in Row, tokens \in Seq(Tokens)
  PROVE  MerchantKey(row) \in Keys
<1> DEFINE C == {i \in DOMAIN row.clues : row.clues[i] # None}
           F == {i \in DOMAIN tokens : tokens[i] \in row.tokens}
           clues == AtPlaces(row.clues, C)
           found == AtPlaces(tokens, F)
<1>1. MerchantKey(row) = IF clues # << >> THEN Head(clues) ELSE IF found # << >> THEN Head(found) ELSE row.word
  BY Zenon DEF MerchantKey, Where
<1>2. row.clues \in Seq(Keys \cup {None}) /\ row.word \in Keys
  <2>1. row.clues \in [1 .. 3 -> Keys \cup {None}] /\ row.word \in Keys
    BY RowFields, Zenon
  <2>2. PICK K : K = Keys \cup {None}
    OBVIOUS
  <2>3. PICK n \in Nat : n = 3
    OBVIOUS
  <2>4. row.clues \in Seq(K)
    <3>1. PICK f : f = row.clues
      OBVIOUS
    <3>2. f \in [1 .. n -> K]
      BY <2>1, <2>2, <2>3, <3>1, Zenon
    <3>3. QED
      BY <3>1, <3>2, SMT
  <2>5. QED
    BY <2>1, <2>2, <2>4, Zenon
<1>3. C \in SUBSET DOMAIN row.clues /\ \A i \in C : row.clues[i] # None
  BY Zenon
<1>4. F \in SUBSET DOMAIN tokens
  BY Zenon
<1> HIDE DEF C, F
<1>5. ASSUME clues # << >> PROVE Head(clues) \in Keys
  <2>1. /\ clues \in Seq(Keys \cup {None}) /\ Len(clues) = Cardinality(C)
        /\ \A k \in 1 .. Cardinality(C) : Place(C, k) \in C /\ clues[k] = row.clues[Place(C, k)]
    BY <1>2, <1>3, AtPlacesProperties, ZenonT(90)
  <2> HIDE DEF clues
  <2>2. Cardinality(C) \in Nat /\ Cardinality(C) # 0
    BY <1>5, <2>1, Places, Zenon
  <2>3. 1 \in 1 .. Cardinality(C)
    BY <2>2, SMT
  <2>4. clues[1] # None /\ clues[1] \in Keys \cup {None}
    <3>1. clues[1] # None
      BY <1>3, <2>1, <2>3, Zenon
    <3>2. clues[1] \in Keys \cup {None}
      BY <2>1, <2>3, Places, Zenon
    <3>3. QED
      BY <3>1, <3>2, Zenon
  <2>5. Head(clues) = clues[1]
    BY <1>5, <2>1, HeadTailProperties
  <2>6. QED
    BY <2>4, <2>5, Zenon
<1>6. ASSUME found # << >> PROVE Head(found) \in Keys
  <2>1. found \in Seq(Tokens)
    BY <1>4, WhereTyped, Zenon
  <2> HIDE DEF found
  <2>2. Head(found) \in Tokens
    BY <1>6, <2>1, HeadTailProperties
  <2>3. QED
    BY <2>2, LeakConstants, Zenon
<1>7. QED
  <2> HIDE DEF clues, found
  <2> QED BY <1>1, <1>2, <1>5, <1>6, Zenon

-----------------------------------------------------------------------------
(* Leaks: clusters                                                          *)

\* The first of the groups that a row fits, if any.
LEMMA JoinIs ==
  ASSUME NEW groups \in Seq(Seq(Row)), NEW row \in Row
  PROVE  /\ Join(groups, row) \in Seq(Seq(Row))
         /\ \/ /\ \A g \in DOMAIN groups : ~ Fits(row, groups[g])
               /\ Join(groups, row) = Append(groups, <<row>>)
            \/ \E g \in DOMAIN groups :
                 /\ Fits(row, groups[g]) /\ \A h \in DOMAIN groups : h < g => ~ Fits(row, groups[h])
                 /\ Join(groups, row) = [groups EXCEPT ![g] = Append(groups[g], row)]
<1> DEFINE fitting == {g \in DOMAIN groups : Fits(row, groups[g])}
<1>1. PICK U : U = Seq(Row)
  OBVIOUS
<1>2. groups \in Seq(U)
  BY <1>1, Zenon
<1>3. Len(groups) \in Nat /\ DOMAIN groups = 1 .. Len(groups) /\ \A g \in 1 .. Len(groups) : groups[g] \in U
  BY <1>2, Places, Zenon
<1>4. CASE fitting = {}
  <2>1. Join(groups, row) = Append(groups, <<row>>)
    BY <1>4, Zenon DEF Join
  <2>2. <<row>> \in U
    BY <1>1
  <2>3. Append(groups, <<row>>) \in Seq(U)
    BY <1>2, <2>2, AppendProperties
  <2>4. \A g \in DOMAIN groups : ~ Fits(row, groups[g])
    BY <1>4, Zenon
  <2>5. QED
    BY <1>1, <2>1, <2>3, <2>4, Zenon
<1>5. CASE fitting # {}
  <2>1. fitting \in SUBSET Nat
    BY <1>3, SMT
  <2>2. \E m \in fitting : \A k \in fitting : m <= k
    <3> HIDE DEF fitting
    <3> QED BY <1>5, <2>1, LeastOf
  <2>3. PICK m : m = Min(fitting)
    OBVIOUS
  <2>4. m \in fitting /\ \A k \in fitting : m <= k
    <3> HIDE DEF fitting
    <3> QED BY <2>2, <2>3, Zenon DEF Min
  <2>5. Join(groups, row) = [groups EXCEPT ![m] = Append(@, row)]
    BY <1>5, <2>3, Zenon DEF Join
  <2>6. m \in DOMAIN groups /\ Fits(row, groups[m])
    BY <2>4, Zenon
  <2>7. ASSUME NEW h \in DOMAIN groups, h < m PROVE ~ Fits(row, groups[h])
    <3>1. ~ (m <= h)
      BY <1>3, <2>6, <2>7, SMT
    <3>2. QED
      BY <2>4, <3>1, Zenon
  <2>8. groups[m] \in U
    BY <1>3, <2>6, Zenon
  <2>9. PICK new : new = Append(groups[m], row)
    OBVIOUS
  <2>10. new \in U
    BY <1>1, <2>8, <2>9, AppendProperties
  <2>11. Join(groups, row) = [groups EXCEPT ![m] = new]
    BY <2>5, <2>9, Zenon
  <2>12. [groups EXCEPT ![m] = new] \in Seq(U)
    BY <1>2, <2>6, <2>10, SMT
  <2>13. QED
    BY <1>1, <2>6, <2>7, <2>9, <2>11, <2>12, Zenon
<1>6. QED
  BY <1>4, <1>5, Zenon

\* The rows of a list in the order of their amounts.
ByAmount(list) == SortedBy(list, [i \in DOMAIN list |-> list[i].amount])

LEMMA ByAmountIs ==
  ASSUME NEW list \in Seq(Row)
  PROVE  /\ ByAmount(list) \in Seq(Row) /\ Len(ByAmount(list)) = Len(list) /\ Len(list) \in Nat
         /\ \A n \in 1 .. Len(list) : ByAmount(list)[n] \in Row
         /\ \A k, l \in 1 .. Len(list) : k < l => ByAmount(list)[k].amount <= ByAmount(list)[l].amount
         /\ \A i \in 1 .. Len(list) : \E k \in 1 .. Len(list) : ByAmount(list)[k] = list[i]
<1> DEFINE key == [i \in DOMAIN list |-> list[i].amount]
<1>1. Len(list) \in Nat /\ DOMAIN list = 1 .. Len(list) /\ \A i \in 1 .. Len(list) : list[i] \in Row
  BY Places, Zenon
<1>2. \A i \in 1 .. Len(list) : list[i].amount \in Int
  BY <1>1, RowFields, SMT
<1>3. key \in [1 .. Len(list) -> Int] /\ \A i \in 1 .. Len(list) : key[i] = list[i].amount
  BY <1>1, <1>2, Zenon
<1>4. ByAmount(list) = SortedBy(list, key)
  BY Zenon DEF ByAmount
<1> HIDE DEF key
<1>5. /\ ByAmount(list) \in Seq(Row) /\ Len(ByAmount(list)) = Len(list)
      /\ \A k \in 1 .. Len(list) : /\ StablePlace(key, k) \in 1 .. Len(list)
                                   /\ ByAmount(list)[k] = list[StablePlace(key, k)]
      /\ \A k, l \in 1 .. Len(list) : k < l => Earlier(key, StablePlace(key, k), StablePlace(key, l))
      /\ \A i \in 1 .. Len(list) : \E k \in 1 .. Len(list) : StablePlace(key, k) = i
  <2>1. key \in [1 .. Len(list) -> Int]
    BY <1>3, Zenon
  <2>2. PICK s : s = SortedBy(list, key)
    OBVIOUS
  <2>3. /\ s \in Seq(Row) /\ Len(s) = Len(list)
        /\ \A k \in 1 .. Len(list) : StablePlace(key, k) \in 1 .. Len(list) /\ s[k] = list[StablePlace(key, k)]
        /\ \A k, l \in 1 .. Len(list) : k < l => Earlier(key, StablePlace(key, k), StablePlace(key, l))
        /\ \A i \in 1 .. Len(list) : \E k \in 1 .. Len(list) : StablePlace(key, k) = i
    BY <2>1, <2>2, SortedByProperties, Zenon
  <2>4. QED
    BY <1>4, <2>2, <2>3, Zenon
<1>6. \A n \in 1 .. Len(list) : ByAmount(list)[n] \in Row
  BY <1>1, <1>5, Zenon
<1>7. ASSUME NEW k \in 1 .. Len(list), NEW l \in 1 .. Len(list), k < l
      PROVE  ByAmount(list)[k].amount <= ByAmount(list)[l].amount
  <2>1. Earlier(key, StablePlace(key, k), StablePlace(key, l))
    BY <1>5, <1>7, Zenon
  <2>2. PICK i \in 1 .. Len(list) : i = StablePlace(key, k)
    BY <1>5, Zenon
  <2>3. PICK j \in 1 .. Len(list) : j = StablePlace(key, l)
    BY <1>5, Zenon
  <2>4. key[i] \in Int /\ key[j] \in Int /\ (key[i] < key[j] \/ key[i] = key[j])
    BY <1>3, <2>1, <2>2, <2>3, Zenon DEF Earlier
  <2>5. key[i] <= key[j]
    BY <2>4, SMT
  <2>6. key[i] = ByAmount(list)[k].amount /\ key[j] = ByAmount(list)[l].amount
    BY <1>3, <1>5, <2>2, <2>3, Zenon
  <2>7. QED
    BY <2>5, <2>6, Zenon
<1>8. \A i \in 1 .. Len(list) : \E k \in 1 .. Len(list) : ByAmount(list)[k] = list[i]
  BY <1>5, Zenon
<1>9. QED
  BY <1>1, <1>5, <1>6, <1>7, <1>8, Zenon

\* The groups that the first n rows make, for every n.
Grouping(f, list) ==
  /\ f[0] = << >>
  /\ \A n \in 0 .. Len(list) : f[n] \in Seq(Seq(Row))
  /\ \A n \in 1 .. Len(list) : f[n] = Join(f[n - 1], ByAmount(list)[n])

LEMMA ClusterIs ==
  ASSUME NEW list \in Seq(Row)
  PROVE  \E f : ClusterByAmount(list) = f[Len(list)] /\ Grouping(f, list)
<1> DEFINE U == Seq(Seq(Row))
           N == Len(list)
           step == [n \in 1 .. N |-> [gs \in U |-> Join(gs, ByAmount(list)[n])]]
           Def(f) == f = [n \in 0 .. N |-> IF n = 0 THEN << >>
                                           ELSE Join(f[n - 1], ByAmount(list)[n])]
<1>1. N \in Nat /\ \A n \in 1 .. N : ByAmount(list)[n] \in Row
  BY ByAmountIs, Zenon
<1>2. step \in [1 .. N -> [U -> U]]
  BY <1>1, JoinIs, Zenon
<1>3. << >> \in U
  OBVIOUS
<1>4. PICK f : Solves(f, U, N, << >>, step)
  <2> HIDE DEF step, U, N
  <2> QED
    BY <1>1, <1>2, <1>3, RecursionExists, Zenon
<1> DEFINE whole == [n \in 0 .. N |-> IF n = 0 THEN << >>
                                      ELSE Join(f[n - 1], ByAmount(list)[n])]
<1>5. ASSUME NEW n \in 0 .. N PROVE f[n] = whole[n]
  <2>1. CASE n = 0
    <3>1. f[0] = << >> /\ whole[0] = << >>
      BY <1>1, <1>4, <2>1, Zenon DEF Solves
    <3>2. QED
      BY <2>1, <3>1, Zenon
  <2>2. CASE n # 0
    <3>1. n \in 1 .. N /\ n - 1 \in 0 .. N
      BY <1>1, <2>2, SMT
    <3>2. f[n - 1] \in U
      BY <1>4, <3>1, Zenon DEF Solves
    <3>3. step[n][f[n - 1]] = Join(f[n - 1], ByAmount(list)[n])
      BY <3>1, <3>2, Zenon
    <3>4. f[n] = step[n][f[n - 1]]
      BY <1>4, <3>1, Zenon DEF Solves
    <3> QED
      BY <2>2, <3>3, <3>4, Zenon
  <2> QED
    BY <2>1, <2>2
<1>6. f = [n \in 0 .. N |-> f[n]]
  BY <1>4, Zenon DEF Solves
<1>7. Def(f)
  BY <1>5, <1>6, Zenon
<1>8. PICK g : Def(g) /\ ClusterByAmount(list) = g[N]
  BY <1>7, Zenon DEF ClusterByAmount, ByAmount
<1>9. g[0] = << >> /\ \A n \in 1 .. N : g[n] = Join(g[n - 1], ByAmount(list)[n])
  <2>1. 0 \in 0 .. N /\ \A n \in 1 .. N : n \in 0 .. N /\ n # 0
    BY <1>1, SMT
  <2>2. QED
    BY <1>8, <2>1, Zenon
<1>10. ASSUME NEW n \in 0 .. N PROVE g[n] \in U
  <2> DEFINE bad == {m \in 0 .. N : g[m] \notin U}
  <2>1. ASSUME bad # {} PROVE FALSE
    <3>1. bad \in SUBSET Nat
      BY <1>1, SMT
    <3>2. PICK m \in bad : \A k \in bad : m <= k
      <4> HIDE DEF bad
      <4> QED BY <2>1, <3>1, LeastOf
    <3>3. m # 0
      BY <1>3, <1>9, <3>2, Zenon
    <3>4. m \in 1 .. N /\ m - 1 \in 0 .. N /\ ~ (m <= m - 1)
      BY <1>1, <3>2, <3>3, SMT
    <3>5. g[m - 1] \in U
      BY <3>2, <3>4, Zenon
    <3>6. g[m] \in U
      <4>1. PICK row \in Row : row = ByAmount(list)[m]
        BY <1>1, <3>4, Zenon
      <4>2. PICK gs \in Seq(Seq(Row)) : gs = g[m - 1]
        BY <3>5, Zenon
      <4>3. Join(gs, row) \in Seq(Seq(Row))
        BY JoinIs, Zenon
      <4>4. g[m] = Join(gs, row)
        BY <1>9, <3>4, <4>1, <4>2, Zenon
      <4>5. QED
        BY <4>3, <4>4, Zenon
    <3>7. QED
      BY <3>2, <3>6, Zenon
  <2>2. QED
    BY <2>1, Zenon
<1>11. QED
  BY <1>8, <1>9, <1>10, Zenon DEF Grouping

LEMMA ClustersTyped ==
  ASSUME NEW list \in Seq(Row)
  PROVE  ClusterByAmount(list) \in Seq(Seq(Row))
<1>1. PICK f : ClusterByAmount(list) = f[Len(list)] /\ Grouping(f, list)
  BY ClusterIs, Zenon
<1>2. Len(list) \in 0 .. Len(list)
  <2>1. Len(list) \in Nat
    BY Places, Zenon
  <2>2. QED
    BY <2>1, SMT
<1>3. QED
  BY <1>1, <1>2, Zenon DEF Grouping

-----------------------------------------------------------------------------
(* Leaks: findings                                                          *)

LEMMA ProductIsNat ==
  ASSUME NEW x \in Nat, NEW y \in Nat
  PROVE  x * y \in Nat
BY SMT

LEMMA QuotientIsNat ==
  ASSUME NEW x \in Nat, NEW y \in Nat \ {0}
  PROVE  x \div y \in Nat /\ y * (x \div y) <= x /\ x < y * (x \div y) + y
BY SMT

\* A finite set of findings.
Found(set) == IsFiniteSet(set) /\ set \subseteq Findings

LEMMA FindingTyped ==
  ASSUME NEW type \in {"duplicate", "trial", "zombie", "hike", "sprawl", "tax"},
         NEW severity \in {"P1", "P2"}, NEW impact \in Nat, NEW list \in Seq(Row)
  PROVE  Finding(type, severity, impact, list) \in Findings
<1>1. PICK s \in SUBSET (1 .. MaxRows) : s = Ids(list)
  BY IdsTyped, Zenon
<1>2. Finding(type, severity, impact, list) =
        [type |-> type, severity |-> severity, impact |-> impact, ids |-> s]
  BY <1>1, Zenon DEF Finding
<1>3. PICK S : S = SUBSET (1 .. MaxRows)
  OBVIOUS
<1>4. [type |-> type, severity |-> severity, impact |-> impact, ids |-> s] \in
        [type: {"duplicate", "trial", "zombie", "hike", "sprawl", "tax"},
         severity: {"P1", "P2"}, impact: Nat, ids: S]
  BY <1>1, <1>3, SMT
<1>5. QED
  BY <1>2, <1>3, <1>4, Zenon DEF Findings

\* One finding for each of finitely many things.
LEMMA FindingsOf ==
  ASSUME NEW S, IsFiniteSet(S), NEW h, \A x \in S : h[x] \in Findings
  PROVE  Found({h[x] : x \in S})
<1>1. IsFiniteSet({h[x] : x \in S})
  BY ImageIsFinite, Zenon
<1>2. {h[x] : x \in S} \subseteq Findings
  BY Zenon
<1>3. QED
  BY <1>1, <1>2, Zenon DEF Found

LEMMA FoundOne ==
  ASSUME NEW f \in Findings
  PROVE  Found({f}) /\ Found({})
<1>1. IsFiniteSet({f}) /\ IsFiniteSet({})
  BY FS_Singleton, FS_EmptySet, Zenon
<1>2. QED
  BY <1>1, Zenon DEF Found

LEMMA FoundBoth ==
  ASSUME NEW A, NEW B, Found(A), Found(B)
  PROVE  Found(A \cup B)
<1>1. IsFiniteSet(A \cup B)
  BY FS_Union, Zenon DEF Found
<1>2. QED
  BY <1>1, Zenon DEF Found

LEMMA FoundAll ==
  ASSUME NEW S, IsFiniteSet(S), NEW h, \A x \in S : Found(h[x])
  PROVE  Found(UNION {h[x] : x \in S})
<1> DEFINE sets == {h[x] : x \in S}
<1>1. IsFiniteSet(sets)
  BY ImageIsFinite, Zenon
<1>2. \A T \in sets : IsFiniteSet(T) /\ T \subseteq Findings
  BY Zenon DEF Found
<1>3. IsFiniteSet(UNION sets)
  <2> HIDE DEF sets
  <2> QED BY <1>1, <1>2, FS_UNION, Zenon
<1>4. UNION sets \subseteq Findings
  <2> HIDE DEF sets
  <2> QED BY <1>2, Zenon
<1>5. QED
  BY <1>3, <1>4, Zenon DEF Found

LEMMA DuplicatesTyped ==
  ASSUME NEW debits \in Seq(Row), NEW key
  PROVE  Found(DetectDuplicates(debits, key))
<1> DEFINE S == {i \in DOMAIN debits :
                   debits[i].amount > 300 /\ Subscription(debits[i], key)}
           group == ClusterByAmount(AtPlaces(debits, S))
           G == {g \in DOMAIN group : Len(group[g]) >= 2}
           F(g) == Finding("duplicate", "P1", 1200 * ((Spent(group[g]) * (Len(group[g]) - 1)) \div Len(group[g])), group[g])
<1>0. PICK h : \A g \in G : h[g] = F(g)
  <2> HIDE DEF G, F
  <2>1. \A g \in G : [x \in G |-> F(x)][g] = F(g)
    BY Zenon
  <2>2. QED
    BY <2>1, Zenon
<1>1. DetectDuplicates(debits, key) = {h[g] : g \in G}
  <2>1. DetectDuplicates(debits, key) = {F(g) : g \in G}
    BY Zenon DEF DetectDuplicates, Where
  <2> HIDE DEF G, F
  <2>2. QED
    BY <1>0, <2>1, Zenon
<1>2. S \in SUBSET DOMAIN debits
  BY Zenon
<1>3. group \in Seq(Seq(Row))
  <2> HIDE DEF S
  <2>1. PICK few \in Seq(Row) : few = AtPlaces(debits, S)
    BY <1>2, WhereTyped, Zenon
  <2>2. QED
    BY <2>1, ClustersTyped, Zenon
<1> HIDE DEF S
<1>4. G \in SUBSET DOMAIN group
  BY Zenon
<1>5. IsFiniteSet(G)
  <2> HIDE DEF group, G
  <2> QED BY <1>3, <1>4, ListIsFinite, Zenon
<1>6. ASSUME NEW g \in G PROVE h[g] \in Findings
  <2>1. PICK few \in Seq(Row) : few = group[g]
    <3>1. g \in 1 .. Len(group)
      <4> HIDE DEF group
      <4> QED BY <1>3, Places, Zenon
    <3>2. QED
      BY <1>3, <3>1, Places, Zenon
  <2>2. Len(few) >= 2 /\ g \in DOMAIN group
    BY <2>1, Zenon
  <2>3. h[g] = Finding("duplicate", "P1", 1200 * ((Spent(few) * (Len(few) - 1)) \div Len(few)), few)
    <3>1. h[g] = F(g)
      <4> HIDE DEF G, F
      <4> QED BY <1>0, Zenon
    <3> HIDE DEF G, group, S
    <3>2. F(g) = Finding("duplicate", "P1", 1200 * ((Spent(group[g]) * (Len(group[g]) - 1)) \div Len(group[g])), group[g])
      BY Zenon
    <3>3. QED
      BY <2>1, <3>1, <3>2
  <2>4. PICK n \in Nat, s \in Nat : n = Len(few) /\ s = Spent(few)
    BY SpentIsNat, Places, Zenon
  <2>5. n - 1 \in Nat /\ n \in Nat \ {0}
    BY <2>2, <2>4, SMT
  <2>6. PICK x \in Nat : x = s * (n - 1)
    BY <2>5, ProductIsNat, Zenon
  <2>7. PICK y \in Nat : y = x \div n
    BY <2>5, QuotientIsNat, Zenon
  <2>8. PICK z \in Nat : z = 1200 * y
    BY SMT
  <2>9. h[g] = Finding("duplicate", "P1", z, few)
    <3> HIDE DEF G, group
    <3> QED BY <2>3, <2>4, <2>6, <2>7, <2>8
  <2>10. QED
    BY <2>9, FindingTyped, Zenon
<1>7. QED
  <2> HIDE DEF G
  <2>1. Found({h[x] : x \in G})
    BY <1>5, <1>6, FindingsOf
  <2>2. QED
    BY <1>1, <2>1, Zenon

LEMMA TrialsTyped ==
  ASSUME NEW debits \in Seq(Row), NEW key
  PROVE  Found(DetectFreeTrials(debits, key))
<1> DEFINE ordered == ByDay(debits)
           Trials(i) == {j \in Larger(1, i - 4) .. i - 1 :
                      /\ ordered[i].day - ordered[j].day <= 60
                      /\ 10 * ordered[j].amount <= Larger(500, ordered[i].amount)}
           I == {i \in DOMAIN ordered : /\ ordered[i].amount >= 199
                                        /\ Subscription(ordered[i], key)
                                        /\ Trials(i) # {}}
           F(i) == Finding("trial", "P2", 1200 * ordered[i].amount, <<ordered[Min(Trials(i))], ordered[i]>>)
<1>0. PICK h : \A i \in I : h[i] = F(i)
  <2> HIDE DEF I, F
  <2>1. \A i \in I : [x \in I |-> F(x)][i] = F(i)
    BY Zenon
  <2>2. QED
    BY <2>1, Zenon
<1>1. DetectFreeTrials(debits, key) = {h[i] : i \in I}
  <2>1. DetectFreeTrials(debits, key) = {F(i) : i \in I}
    BY Zenon DEF DetectFreeTrials
  <2> HIDE DEF I, F
  <2>2. QED
    BY <1>0, <2>1, Zenon
<1>2. ordered \in Seq(Row)
  BY ByDayTyped, Zenon
<1>3. I \in SUBSET DOMAIN ordered
  BY Zenon
<1>4. IsFiniteSet(I)
  <2> HIDE DEF ordered, I
  <2> QED BY <1>2, <1>3, ListIsFinite, Zenon
<1>5. ASSUME NEW i \in I PROVE h[i] \in Findings
  <2>1. Len(ordered) \in Nat /\ DOMAIN ordered = 1 .. Len(ordered) /\ \A k \in 1 .. Len(ordered) : ordered[k] \in Row
    <3> HIDE DEF ordered
    <3> QED BY <1>2, Places, Zenon
  <2>2. i \in 1 .. Len(ordered) /\ Trials(i) # {}
    BY <2>1, Zenon
  <2>3. Trials(i) \in SUBSET (1 .. i - 1)
    <3> HIDE DEF ordered
    <3> QED BY <2>1, <2>2, SMT DEF Larger
  <2>4. PICK m : m = Min(Trials(i))
    OBVIOUS
  <2>5. m \in Trials(i)
    <3>1. Trials(i) \in SUBSET Nat
      <4> HIDE DEF Trials, ordered
      <4> QED BY <2>1, <2>2, <2>3, SMT
    <3>2. \E k \in Trials(i) : \A l \in Trials(i) : k <= l
      <4> HIDE DEF Trials, ordered
      <4> QED BY <2>2, <3>1, LeastOf
    <3>3. QED
      <4> HIDE DEF Trials, ordered
      <4> QED BY <2>4, <3>2, Zenon DEF Min
  <2>6. m \in 1 .. Len(ordered)
    <3> HIDE DEF Trials, ordered
    <3> QED BY <2>1, <2>2, <2>3, <2>5, SMT
  <2>7. PICK a \in Row, b \in Row : a = ordered[m] /\ b = ordered[i]
    BY <2>1, <2>2, <2>6, Zenon
  <2>8. h[i] = Finding("trial", "P2", 1200 * b.amount, <<a, b>>)
    <3>1. h[i] = F(i)
      <4> HIDE DEF I, F
      <4> QED BY <1>0, Zenon
    <3> HIDE DEF I, Trials, ordered
    <3>2. F(i) = Finding("trial", "P2", 1200 * ordered[i].amount, <<ordered[Min(Trials(i))], ordered[i]>>)
      BY Zenon
    <3>3. QED
      BY <2>4, <2>7, <3>1, <3>2
  <2>9. PICK pair \in Seq(Row) : pair = <<a, b>>
    <3>1. PICK R : R = Row
      OBVIOUS
    <3>2. a \in R /\ b \in R
      BY <3>1, Zenon
    <3>3. <<a, b>> \in Seq(R)
      BY <3>2, SMT
    <3>4. QED
      BY <3>1, <3>3, Zenon
  <2>10. PICK z \in Nat : z = 1200 * b.amount
    <3>1. b.amount \in Nat
      BY RowFields, SMT
    <3>2. QED
      BY <3>1, SMT
  <2>11. h[i] = Finding("trial", "P2", z, pair)
    <3> HIDE DEF I, Trials, ordered
    <3> QED BY <2>8, <2>9, <2>10
  <2>12. QED
    BY <2>11, FindingTyped, Zenon
<1>6. QED
  <2> HIDE DEF I
  <2>1. Found({h[x] : x \in I})
    BY <1>4, <1>5, FindingsOf
  <2>2. QED
    BY <1>1, <2>1, Zenon

\* A hundred times what a list of rows spends.
LEMMA SpentTimes ==
  ASSUME NEW list \in Seq(Row)
  PROVE  100 * Spent(list) \in Nat /\ 30 * Spent(list) \in Nat
<1>1. PICK s \in Nat : s = Spent(list)
  BY SpentIsNat, Zenon
<1>2. QED
  BY <1>1, SMT

LEMMA ZombiesTyped ==
  ASSUME NEW debits \in Seq(Row)
  PROVE  Found(DetectZombies(debits))
<1> DEFINE R == {i \in DOMAIN debits : debits[i].amount > 199 /\ debits[i].marker}
           recurring == AtPlaces(debits, R)
           Z == {i \in DOMAIN recurring : recurring[i].category = "unknown" /\ recurring[i].bare}
           zombies == AtPlaces(recurring, Z)
<1>1. DetectZombies(debits) = IF Len(recurring) >= 3 /\ Len(zombies) >= 2
                                 THEN {Finding("zombie", "P1", 100 * Spent(zombies), zombies)} ELSE {}
  BY Zenon DEF DetectZombies, Where
<1>2. R \in SUBSET DOMAIN debits /\ Z \in SUBSET DOMAIN recurring
  BY Zenon
<1>4. recurring \in Seq(Row)
  <2> HIDE DEF R
  <2> QED BY <1>2, WhereTyped, Zenon
<1>5. zombies \in Seq(Row)
  <2> HIDE DEF recurring, Z
  <2> QED BY <1>2, <1>4, WhereTyped, Zenon
<1>6. QED
  <2> HIDE DEF recurring, zombies
  <2>1. PICK z \in Nat : z = 100 * Spent(zombies)
    BY <1>5, SpentTimes, Zenon
  <2>2. Finding("zombie", "P1", z, zombies) \in Findings
    BY <1>5, FindingTyped, Zenon
  <2>3. QED
    BY <1>1, <2>1, <2>2, FoundOne, Zenon

LEMMA SprawlTyped ==
  ASSUME NEW list \in Seq(Row)
  PROVE  Found(DetectSprawl(list))
<1> DEFINE S(fam) == {i \in DOMAIN list : list[i].debit /\ FamilyOf[MerchantKey(list[i])] = fam}
           F(fam) == AtPlaces(list, S(fam))
           T == {fam \in {"video", "chat", "docs"} : Cardinality(Merchants(F(fam))) >= 2}
           E(fam) == Finding("sprawl", "P2", 30 * Spent(F(fam)), F(fam))
<1>0. PICK h : \A fam \in T : h[fam] = E(fam)
  <2> HIDE DEF T, E
  <2>1. \A fam \in T : [x \in T |-> E(x)][fam] = E(fam)
    BY Zenon
  <2>2. QED
    BY <2>1, Zenon
<1>1. DetectSprawl(list) = {h[fam] : fam \in T}
  <2>1. DetectSprawl(list) = {E(fam) : fam \in T}
    BY Zenon DEF DetectSprawl, Where
  <2> HIDE DEF T, E
  <2>2. QED
    BY <1>0, <2>1, Zenon
<1>2. IsFiniteSet(T)
  <2>1. IsFiniteSet({"video", "chat", "docs"})
    <3>1. {"video", "chat", "docs"} = ({"video"} \cup {"chat"}) \cup {"docs"}
      OBVIOUS
    <3>2. IsFiniteSet({"video"}) /\ IsFiniteSet({"chat"}) /\ IsFiniteSet({"docs"})
      BY FS_Singleton, Zenon
    <3>3. IsFiniteSet(({"video"} \cup {"chat"}) \cup {"docs"})
      BY <3>2, FS_Union, Zenon
    <3>4. QED
      BY <3>1, <3>3, Zenon
  <2>2. T \subseteq {"video", "chat", "docs"}
    BY Zenon
  <2> HIDE DEF T
  <2>3. QED
    BY <2>1, <2>2, FS_Subset, Zenon
<1>3. ASSUME NEW fam \in T PROVE h[fam] \in Findings
  <2>1. S(fam) \in SUBSET DOMAIN list
    BY Zenon
  <2>2. PICK few \in Seq(Row) : few = F(fam)
    <3> HIDE DEF S
    <3> QED BY <2>1, WhereTyped, Zenon
  <2>3. PICK z \in Nat : z = 30 * Spent(few)
    BY SpentTimes, Zenon
  <2>4. h[fam] = Finding("sprawl", "P2", z, few)
    <3> HIDE DEF T, F
    <3> QED BY <1>0, <2>2, <2>3, Zenon
  <2>5. QED
    BY <2>4, FindingTyped, Zenon
<1>4. QED
  <2> HIDE DEF T
  <2>1. Found({h[x] : x \in T})
    BY <1>2, <1>3, FindingsOf
  <2>2. QED
    BY <1>1, <2>1, Zenon

LEMMA TaxTyped ==
  ASSUME NEW list \in Seq(Row)
  PROVE  Found(DetectTaxMiscategory(list))
<1> DEFINE R == {i \in DOMAIN list : list[i].category = "personal" /\ list[i].hint}
           risky == AtPlaces(list, R)
<1>1. DetectTaxMiscategory(list) =
        IF risky # << >> THEN {Finding("tax", "P1", 100 * Spent(risky), risky)} ELSE {}
  BY Zenon DEF DetectTaxMiscategory, Where
<1>2. R \in SUBSET DOMAIN list
  BY Zenon
<1>3. risky \in Seq(Row)
  <2> HIDE DEF R
  <2> QED BY <1>2, WhereTyped, Zenon
<1>4. QED
  <2> HIDE DEF risky
  <2>1. PICK z \in Nat : z = 100 * Spent(risky)
    BY <1>3, SpentTimes, Zenon
  <2>2. Finding("tax", "P1", z, risky) \in Findings
    BY <1>3, FindingTyped, Zenon
  <2>3. QED
    BY <1>1, <2>1, <2>2, FoundOne, Zenon

LEMMA TwiceBaseTyped ==
  ASSUME NEW values \in Seq(Nat), Len(values) >= 3
  PROVE  TwiceBase(values) \in Nat
<1> DEFINE n == Len(values)
           before == SubSeq(values, 1, n - 1)
           earlier == SortedBy(before, before)
<1>1. TwiceBase(values) = IF n > 3 THEN earlier[n \div 2] + earlier[(n + 1) \div 2] ELSE 2 * Min(Range(values))
  BY Zenon DEF TwiceBase
<1>2. n \in Nat /\ DOMAIN values = 1 .. n /\ \A i \in 1 .. n : values[i] \in Nat
  BY Places, Zenon
<1>3. CASE n > 3
  <2>1. PICK m \in Nat, one \in Nat : m = n - 1 /\ one = 1
    <3>1. n - 1 \in Nat /\ 1 \in Nat
      <4> HIDE DEF n
      <4> QED BY <1>2, <1>3, SMT
    <3>2. QED
      BY <3>1, Zenon
  <2>2. one \in 1 .. Len(values) + 1 /\ m \in one - 1 .. Len(values) /\ m - one + 1 = n - 1
    BY <1>2, <1>3, <2>1, SMT
  <2>3. PICK s : s = SubSeq(values, one, m)
    OBVIOUS
  <2>4. s \in Seq(Nat) /\ Len(s) = m
    BY <2>1, <2>2, <2>3, SubSeqProperties
  <2>5. s \in [1 .. Len(s) -> Int]
    BY <2>4
  <2>6. SortedBy(s, s) \in Seq(Nat) /\ Len(SortedBy(s, s)) = m
    BY <2>4, <2>5, SortedByProperties, Zenon
  <2>7. s = before
    BY <2>1, <2>3, Zenon
  <2>8. earlier \in Seq(Nat) /\ Len(earlier) = m
    BY <2>6, <2>7, Zenon
  <2> HIDE DEF earlier
  <2>9. n \div 2 \in 1 .. m /\ (n + 1) \div 2 \in 1 .. m
    BY <1>2, <1>3, <2>1, SMT
  <2>10. earlier[n \div 2] \in Nat /\ earlier[(n + 1) \div 2] \in Nat
    BY <2>8, <2>9, Places, Zenon
  <2>11. QED
    <3>1. PICK a \in Nat, b \in Nat : a = earlier[n \div 2] /\ b = earlier[(n + 1) \div 2]
      BY <2>10, Zenon
    <3>2. TwiceBase(values) = a + b
      <4> HIDE DEF n
      <4> QED BY <1>1, <1>3, <3>1, Zenon
    <3>3. QED
      BY <3>2, SMT
<1>4. CASE ~ (n > 3)
  <2>1. Range(values) \in SUBSET Nat
    <3> HIDE DEF n
    <3> QED BY <1>2, Zenon DEF Range
  <2>2. values[1] \in Range(values)
    <3>1. 1 \in 1 .. n
      BY <1>2, SMT
    <3>2. QED
      BY <1>2, <3>1, Zenon DEF Range
  <2>3. \E m \in Range(values) : \A k \in Range(values) : m <= k
    BY <2>1, <2>2, LeastOf
  <2>4. Min(Range(values)) \in Range(values)
    BY <2>3, Zenon DEF Min
  <2>5. PICK m \in Nat : m = Min(Range(values))
    BY <2>1, <2>4, Zenon
  <2>6. TwiceBase(values) = 2 * m
    <3> HIDE DEF n, earlier
    <3> QED BY <1>1, <1>4, <2>5, Zenon
  <2>7. QED
    BY <2>6, SMT
<1>5. QED
  BY <1>3, <1>4, Zenon

LEMMA HikesTyped ==
  ASSUME NEW debits \in Seq(Row)
  PROVE  Found(DetectHikes(debits))
<1> DEFINE days == ByDay(debits)
           S == {i \in DOMAIN days : days[i].amount > 100}
           ordered == AtPlaces(days, S)
           values == [i \in DOMAIN ordered |-> ordered[i].amount]
           rise == 2 * Last(values) - TwiceBase(values)
<1>1. DetectHikes(debits) = IF Len(values) >= 3 /\ 4 * rise >= TwiceBase(values)
                               THEN {Finding("hike", "P2", 600 * rise, ordered)} ELSE {}
  BY DEF DetectHikes, Where
<1>2. days \in Seq(Row)
  BY ByDayTyped, Zenon
<1>3. S \in SUBSET DOMAIN days
  BY Zenon
<1>4. ordered \in Seq(Row)
  <2> HIDE DEF days, S
  <2> QED BY <1>2, <1>3, WhereTyped, Zenon
<1> HIDE DEF ordered
<1>5. values \in Seq(Nat)
  <2>1. PICK n \in Nat : n = Len(ordered)
    BY <1>4, Places, Zenon
  <2>2. DOMAIN ordered = 1 .. n /\ \A i \in 1 .. n : ordered[i].amount \in Nat
    <3>1. DOMAIN ordered = 1 .. n /\ \A i \in 1 .. n : ordered[i] \in Row
      BY <1>4, <2>1, Places, Zenon
    <3>2. QED
      BY <3>1, RowFields, SMT
  <2>3. values \in [1 .. n -> Nat]
    BY <2>2, Zenon
  <2> HIDE DEF values
  <2>4. QED
    BY <2>3, SMT
<1> HIDE DEF values
<1>6. CASE Len(values) >= 3 /\ 4 * rise >= TwiceBase(values)
  <2>1. PICK base \in Nat : base = TwiceBase(values)
    BY <1>5, <1>6, TwiceBaseTyped, Zenon
  <2>2. PICK last \in Nat : last = Last(values)
    <3>1. values[Len(values)] \in Nat
      <4>1. Len(values) \in Nat
        BY <1>5, Places, Zenon
      <4>2. Len(values) \in 1 .. Len(values)
        BY <1>6, <4>1, SMT
      <4>3. QED
        BY <1>5, <4>2, Places, Zenon
    <3>2. QED
      BY <3>1, Zenon DEF Last
  <2>3. PICK z \in Nat : z = 600 * rise
    <3>1. rise = 2 * last - base
      BY <2>1, <2>2, Zenon
    <3>2. 4 * rise >= base
      BY <1>6, <2>1, Zenon
    <3>3. 600 * rise \in Nat
      <4> HIDE DEF rise
      <4> QED BY <3>1, <3>2, SMT
    <3>4. QED
      BY <3>3, Zenon
  <2>4. DetectHikes(debits) = {Finding("hike", "P2", z, ordered)}
    <3>1. DetectHikes(debits) = {Finding("hike", "P2", 600 * rise, ordered)}
      BY <1>1, <1>6
    <3>2. QED
      <4> HIDE DEF rise
      <4> QED BY <2>3, <3>1
  <2>5. Finding("hike", "P2", z, ordered) \in Findings
    BY <1>4, FindingTyped, Zenon
  <2>6. QED
    BY <2>4, <2>5, FoundOne, Zenon
<1>7. CASE ~ (Len(values) >= 3 /\ 4 * rise >= TwiceBase(values))
  <2>1. DetectHikes(debits) = {}
    BY <1>1, <1>7
  <2>2. IsFiniteSet({})
    BY FS_EmptySet, Zenon
  <2>3. QED
    BY <2>1, <2>2, Zenon DEF Found
<1>8. QED
  BY <1>6, <1>7, Zenon

LEMMA MerchantLeaksTyped ==
  ASSUME NEW debits \in Seq(Row), NEW key
  PROVE  Found(DetectMerchantLeaks(debits, key))
<1>1. Found(DetectDuplicates(debits, key) \cup DetectFreeTrials(debits, key))
  BY DuplicatesTyped, TrialsTyped, FoundBoth, Zenon
<1>2. Found(DetectDuplicates(debits, key) \cup DetectFreeTrials(debits, key) \cup DetectZombies(debits))
  BY <1>1, ZombiesTyped, FoundBoth, Zenon
<1>3. QED
  BY <1>2, HikesTyped, FoundBoth, Zenon DEF DetectMerchantLeaks

\* Every finding has an amount and rows of the statement, and they are finitely many.
LEMMA LeaksTyped ==
  ASSUME NEW list \in Seq(Row)
  PROVE  Found(DetectLeaks(list))
<1> DEFINE M == Merchants(list)
           All(key) == DetectMerchantLeaks(Debits(list, key), key)
<1>1. IsFiniteSet(M)
  <2>1. PICK h : \A i \in DOMAIN list : h[i] = MerchantKey(list[i])
    <3>1. \A i \in DOMAIN list : [x \in DOMAIN list |-> MerchantKey(list[x])][i] = MerchantKey(list[i])
      BY Zenon
    <3>2. QED
      BY <3>1, Zenon
  <2> DEFINE D == {i \in DOMAIN list : list[i].debit}
  <2>2. M = {h[i] : i \in D}
    BY <2>1, Zenon DEF Merchants
  <2>3. D \in SUBSET DOMAIN list
    BY Zenon
  <2> HIDE DEF D
  <2>4. IsFiniteSet(D)
    BY <2>3, ListIsFinite, Zenon
  <2>5. IsFiniteSet({h[i] : i \in D})
    BY <2>4, ImageIsFinite, Zenon
  <2>6. QED
    BY <2>2, <2>5, Zenon
<1>2. ASSUME NEW key PROVE Found(All(key))
  BY DebitsTyped, MerchantLeaksTyped, Zenon
<1>3. DetectLeaks(list) = (UNION {All(key) : key \in M}) \cup DetectSprawl(list) \cup DetectTaxMiscategory(list)
  BY DEF DetectLeaks
<1> HIDE DEF All, M
<1>4. PICK h : \A key \in M : h[key] = All(key)
  <2>1. \A key \in M : [x \in M |-> All(x)][key] = All(key)
    BY Zenon
  <2>2. QED
    BY <2>1, Zenon
<1>5. UNION {All(key) : key \in M} = UNION {h[key] : key \in M}
  BY <1>4, Zenon
<1>6. Found(UNION {h[key] : key \in M})
  <2>1. \A key \in M : Found(h[key])
    BY <1>2, <1>4, Zenon
  <2>2. QED
    BY <1>1, <2>1, FoundAll
<1>7. Found((UNION {All(key) : key \in M}) \cup DetectSprawl(list))
  BY <1>5, <1>6, SprawlTyped, FoundBoth, Zenon
<1>8. QED
  BY <1>3, <1>7, TaxTyped, FoundBoth, Zenon

-----------------------------------------------------------------------------
(* Leaks: sums                                                              *)

SeverityOf(f) == IF f.severity = "P1" THEN 100 ELSE 60

LEMMA FindingFields ==
  ASSUME NEW f \in Findings
  PROVE  /\ SeverityOf(f) \in Nat /\ f.impact \in Nat /\ f.ids \in SUBSET (1 .. MaxRows)
         /\ f.type \in {"duplicate", "trial", "zombie", "hike", "sprawl", "tax"}
<1>1. PICK S : S = SUBSET (1 .. MaxRows)
  OBVIOUS
<1>2. f \in [type: {"duplicate", "trial", "zombie", "hike", "sprawl", "tax"},
             severity: {"P1", "P2"}, impact: Nat, ids: S]
  BY <1>1, Zenon DEF Findings
<1>3. /\ f.impact \in Nat /\ f.ids \in S
      /\ f.type \in {"duplicate", "trial", "zombie", "hike", "sprawl", "tax"}
  BY <1>2, SMT
<1>4. SeverityOf(f) \in Nat
  BY SMT DEF SeverityOf
<1>5. QED
  BY <1>1, <1>3, <1>4, Zenon

\* A sum over all of a set and over all but one of its elements.
LEMMA SumOfOneLess ==
  ASSUME NEW S, IsFiniteSet(S), NEW x \in S, NEW fun, NEW gun, DOMAIN fun = S, DOMAIN gun = S \ {x},
         \A y \in S : fun[y] \in Nat, \A y \in S \ {x} : gun[y] = fun[y]
  PROVE  SumFunction(fun) \in Nat /\ SumFunction(gun) \in Nat /\ SumFunction(gun) <= SumFunction(fun)
<1>1. IsFiniteSet(S \ {x})
  BY FS_RemoveElement, Zenon
<1>2. SumFunction(fun) = SumFunctionOnSet(fun, S) /\ SumFunction(gun) = SumFunctionOnSet(gun, S \ {x})
  BY Zenon DEF SumFunction
<1>3. SumFunctionOnSet(fun, S) \in Nat /\ SumFunctionOnSet(fun, S \ {x}) \in Nat
      /\ SumFunctionOnSet(fun, S) = fun[x] + SumFunctionOnSet(fun, S \ {x})
  BY SumIsNat, SumTakesOut, Zenon
<1>4. SumFunctionOnSet(gun, S \ {x}) = SumFunctionOnSet(fun, S \ {x})
  <2>1. \A y \in S \ {x} : gun[y] = fun[y] /\ gun[y] \in Nat
    BY Zenon
  <2>2. PICK s : s = S \ {x}
    OBVIOUS
  <2>3. SumFunctionOnSet(gun, s) = SumFunctionOnSet(fun, s)
    BY <1>1, <2>1, <2>2, SumIsSame, Zenon
  <2>4. QED
    BY <2>2, <2>3, Zenon
<1>5. PICK a \in Nat, b \in Nat, c \in Nat : /\ a = SumFunctionOnSet(fun, S) /\ b = fun[x]
                                             /\ c = SumFunctionOnSet(fun, S \ {x})
  BY <1>3, Zenon
<1>6. a = b + c
  BY <1>3, <1>5, Zenon
<1>7. c <= a
  BY <1>6, SMT
<1>8. QED
  BY <1>2, <1>4, <1>5, <1>7, Zenon

LEMMA FindingsSum ==
  ASSUME NEW found, Found(found)
  PROVE  Severity(found) \in Nat /\ Impact(found) \in Nat /\ Cardinality(found) \in Nat
<1>1. IsFiniteSet(found) /\ \A f \in found : SeverityOf(f) \in Nat /\ f.impact \in Nat
  BY FindingFields, Zenon DEF Found
<1>2. Cardinality(found) \in Nat
  BY <1>1, FS_CardinalityType, Zenon
<1>3. Severity(found) \in Nat
  <2> DEFINE fun == [f \in found |-> SeverityOf(f)]
  <2>1. DOMAIN fun = found /\ \A f \in found : fun[f] \in Nat
    BY <1>1, Zenon
  <2>2. Severity(found) = SumFunctionOnSet(fun, DOMAIN fun)
    BY Zenon DEF Severity, SumFunction, SeverityOf
  <2> HIDE DEF fun
  <2>3. QED
    BY <1>1, <2>1, <2>2, SumIsNat, Zenon
<1>4. Impact(found) \in Nat
  <2> DEFINE fun == [f \in found |-> f.impact]
  <2>1. DOMAIN fun = found /\ \A f \in found : fun[f] \in Nat
    BY <1>1, Zenon
  <2>2. Impact(found) = SumFunctionOnSet(fun, DOMAIN fun)
    BY Zenon DEF Impact, SumFunction
  <2> HIDE DEF fun
  <2>3. QED
    BY <1>1, <2>1, <2>2, SumIsNat, Zenon
<1>5. QED
  BY <1>2, <1>3, <1>4, Zenon

LEMMA FindingsSumLess ==
  ASSUME NEW found, Found(found), NEW f \in found
  PROVE  /\ Found(found \ {f})
         /\ Severity(found \ {f}) <= Severity(found) /\ Impact(found \ {f}) <= Impact(found)
         /\ Cardinality(found \ {f}) <= Cardinality(found)
<1>1. IsFiniteSet(found) /\ \A g \in found : SeverityOf(g) \in Nat /\ g.impact \in Nat
  BY FindingFields, Zenon DEF Found
<1>2. /\ IsFiniteSet(found \ {f}) /\ Cardinality(found) \in Nat
      /\ Cardinality(found \ {f}) = Cardinality(found) - 1
  BY <1>1, FS_RemoveElement, FS_CardinalityType, Zenon
<1>3. Found(found \ {f})
  BY <1>2, Zenon DEF Found
<1>4. Cardinality(found \ {f}) <= Cardinality(found)
  BY <1>2, SMT
<1>5. Severity(found \ {f}) <= Severity(found)
  <2> DEFINE fun == [g \in found |-> SeverityOf(g)]
             gun == [g \in found \ {f} |-> SeverityOf(g)]
  <2>1. /\ DOMAIN fun = found /\ DOMAIN gun = found \ {f}
        /\ \A g \in found : fun[g] \in Nat
        /\ \A g \in found \ {f} : gun[g] = fun[g]
    BY <1>1, Zenon
  <2>2. Severity(found) = SumFunction(fun)
    BY Zenon DEF Severity, SeverityOf
  <2>3. Severity(found \ {f}) = SumFunction(gun)
    BY Zenon DEF Severity, SeverityOf
  <2> HIDE DEF fun, gun
  <2>4. SumFunction(gun) <= SumFunction(fun)
    BY <1>1, <2>1, SumOfOneLess, Zenon
  <2>5. QED
    BY <2>2, <2>3, <2>4, Zenon
<1>6. Impact(found \ {f}) <= Impact(found)
  <2> DEFINE fun == [g \in found |-> g.impact]
             gun == [g \in found \ {f} |-> g.impact]
  <2>1. /\ DOMAIN fun = found /\ DOMAIN gun = found \ {f}
        /\ \A g \in found : fun[g] \in Nat
        /\ \A g \in found \ {f} : gun[g] = fun[g]
    BY <1>1, Zenon
  <2>2. Impact(found) = SumFunction(fun)
    BY Zenon DEF Impact
  <2>3. Impact(found \ {f}) = SumFunction(gun)
    BY Zenon DEF Impact
  <2> HIDE DEF fun, gun
  <2>4. SumFunction(gun) <= SumFunction(fun)
    BY <1>1, <2>1, SumOfOneLess, Zenon
  <2>5. QED
    BY <2>2, <2>3, <2>4, Zenon
<1>7. QED
  BY <1>3, <1>4, <1>5, <1>6, Zenon

\* What GstSentinel says of a row.
Said == [id: 1 .. MaxRows, invoice: BOOLEAN, itc: Nat]

LEMMA SaidFields ==
  ASSUME NEW g \in Said
  PROVE  g.id \in 1 .. MaxRows /\ g.invoice \in BOOLEAN /\ g.itc \in Nat
<1>1. PICK S : S = 1 .. MaxRows
  OBVIOUS
<1>2. g \in [id: S, invoice: BOOLEAN, itc: Nat]
  BY <1>1, Zenon DEF Said
<1>3. g.id \in S /\ g.invoice \in BOOLEAN /\ g.itc \in Nat
  BY <1>2, SMT
<1>4. QED
  BY <1>1, <1>3, Zenon

LEMMA MissedIs ==
  ASSUME NEW G \in SUBSET Said, IsFiniteSet(G)
  PROVE  /\ Missed(G) \in Nat
         /\ \A x \in G : Missed(G \ {x}) \in Nat /\ Missed(G \ {x}) <= Missed(G)
<1> DEFINE fun == [g \in G |-> g.itc]
           S == {g \in G : ~g.invoice}
<1>1. \A g \in G : g.itc \in Nat
  BY SaidFields, Zenon
<1>2. \A g \in S : fun[g] \in Nat
  BY <1>1, Zenon
<1>3. IsFiniteSet(S)
  <2>1. S \subseteq G
    BY Zenon
  <2> HIDE DEF S
  <2>2. QED
    BY <2>1, FS_Subset, Zenon
<1>4. Missed(G) = SumFunctionOnSet(fun, S)
  BY Zenon DEF Missed
<1>5. Missed(G) \in Nat
  <2> HIDE DEF S, fun
  <2> QED BY <1>2, <1>3, <1>4, SumIsNat, Zenon
<1>6. ASSUME NEW x \in G PROVE Missed(G \ {x}) \in Nat /\ Missed(G \ {x}) <= Missed(G)
  <2> DEFINE gun == [g \in G \ {x} |-> g.itc]
             T == {g \in G \ {x} : ~g.invoice}
  <2>1. Missed(G \ {x}) = SumFunctionOnSet(gun, T)
    BY Zenon DEF Missed
  <2>2. T = S \ {x} /\ T \subseteq S
    BY Zenon
  <2>3. IsFiniteSet(T)
    <3> HIDE DEF S, T
    <3> QED BY <1>3, <2>2, FS_Subset, Zenon
  <2>4. \A g \in T : gun[g] = fun[g] /\ gun[g] \in Nat
    BY <1>1, Zenon
  <2>5. SumFunctionOnSet(gun, T) = SumFunctionOnSet(fun, T) /\ SumFunctionOnSet(gun, T) \in Nat
    <3> HIDE DEF T, gun, fun
    <3> QED BY <2>3, <2>4, SumIsSame, SumIsNat, Zenon
  <2>6. CASE x \in S
    <3> HIDE DEF S, T, gun, fun
    <3>1. SumFunctionOnSet(fun, S) = fun[x] + SumFunctionOnSet(fun, S \ {x}) /\ fun[x] \in Nat
      BY <1>2, <1>3, <2>6, SumTakesOut, Zenon
    <3>2. PICK a \in Nat, b \in Nat, c \in Nat : a = Missed(G) /\ b = fun[x] /\ c = SumFunctionOnSet(fun, T)
      BY <1>5, <2>5, <3>1, Zenon
    <3>3. a = b + c
      BY <1>4, <2>2, <3>1, <3>2, Zenon
    <3>4. c <= a
      BY <3>3, SMT
    <3>5. QED
      BY <2>1, <2>5, <3>2, <3>4, Zenon
  <2>7. CASE x \notin S
    <3>1. T = S
      <4> HIDE DEF S, T
      <4> QED BY <2>2, <2>7, Zenon
    <3> HIDE DEF S, T, gun, fun
    <3>2. PICK a \in Nat : a = Missed(G)
      BY <1>5, Zenon
    <3>3. Missed(G \ {x}) = a
      BY <1>4, <2>1, <2>5, <3>1, <3>2, Zenon
    <3>4. a <= a
      BY SMT
    <3>5. QED
      BY <3>2, <3>3, <3>4, Zenon
  <2>8. QED
    BY <2>6, <2>7, Zenon
<1>7. QED
  BY <1>5, <1>6, Zenon

-----------------------------------------------------------------------------
(* Leaks: the risk score                                                    *)

LEMMA DivIsMonotone ==
  ASSUME NEW a \in Nat, NEW b \in Nat, a <= b, NEW w \in Nat \ {0}
  PROVE  a \div w <= b \div w
<1>1. PICK q \in Nat, r \in Nat : q = a \div w /\ r = b \div w
  BY QuotientIsNat, Zenon
<1>2. w * q <= a /\ b < w * r + w
  BY <1>1, QuotientIsNat, Zenon
<1>3. w * q < w * r + w
  <2>1. PICK x \in Nat, y \in Nat : x = w * q /\ y = w * r
    BY ProductIsNat, Zenon
  <2>2. QED
    BY <1>2, <2>1, SMT
<1>4. ASSUME ~ (q <= r) PROVE FALSE
  <2>1. PICK d \in Nat : q = r + 1 + d
    <3>1. q - r - 1 \in Nat /\ q = r + 1 + (q - r - 1)
      BY <1>4, SMT
    <3>2. QED
      BY <3>1, Zenon
  <2>2. w * q = w * r + w + w * d
    BY <2>1, SMT
  <2>3. PICK x \in Nat, y \in Nat, z \in Nat : x = w * q /\ y = w * r /\ z = w * d
    BY ProductIsNat, Zenon
  <2>4. QED
    BY <1>3, <2>2, <2>3, SMT
<1>5. QED
  BY <1>1, <1>4, Zenon

Thousandths == 0 .. 1000

LEMMA RatioIs ==
  ASSUME NEW p \in Nat, NEW q \in Nat, p <= q, NEW w \in Nat \ {0}
  PROVE  Ratio(p, w) \in Thousandths /\ Ratio(q, w) \in Thousandths /\ Ratio(p, w) <= Ratio(q, w)
<1>1. ASSUME NEW x \in Nat PROVE Ratio(x, w) \in Thousandths
  <2>1. CASE x >= w
    BY <2>1, SMT DEF Ratio, Thousandths
  <2>2. CASE ~ (x >= w)
    <3>1. x * 1000 \in Nat
      BY SMT
    <3>2. PICK y \in Nat : y = x * 1000 /\ y < 1000 * w
      BY <2>2, <3>1, SMT
    <3>3. PICK z \in Nat : z = y \div w /\ w * z <= y
      BY QuotientIsNat, Zenon
    <3>4. z <= 1000
      <4>1. ASSUME ~ (z <= 1000) PROVE FALSE
        <5>1. PICK d \in Nat : z = 1000 + d
          <6>1. z - 1000 \in Nat /\ z = 1000 + (z - 1000)
            BY <4>1, SMT
          <6>2. QED
            BY <6>1
        <5>2. w * z = 1000 * w + w * d
          BY <5>1, SMT
        <5>3. w * d \in Nat
          BY ProductIsNat, Zenon
        <5>4. QED
          BY <3>2, <3>3, <5>2, <5>3, SMT
      <4>2. QED
        BY <4>1, Zenon
    <3>5. Ratio(x, w) = z
      BY <2>2, <3>2, <3>3, SMT DEF Ratio
    <3>6. QED
      BY <3>4, <3>5, SMT DEF Thousandths
  <2>3. QED
    BY <2>1, <2>2, Zenon
<1>2. Ratio(p, w) <= Ratio(q, w)
  <2>1. CASE q >= w
    <3>1. Ratio(q, w) = 1000
      BY <2>1 DEF Ratio
    <3>2. Ratio(p, w) \in Thousandths
      BY <1>1, Zenon
    <3>3. QED
      BY <3>1, <3>2, SMT DEF Thousandths
  <2>2. CASE ~ (q >= w)
    <3>1. ~ (p >= w)
      BY <2>2, SMT
    <3>2. p * 1000 \in Nat /\ q * 1000 \in Nat /\ p * 1000 <= q * 1000
      BY SMT
    <3>3. (p * 1000) \div w <= (q * 1000) \div w
      BY <3>2, DivIsMonotone, SMT
    <3>4. QED
      BY <2>2, <3>1, <3>3, SMT DEF Ratio
  <2>3. QED
    BY <2>1, <2>2, Zenon
<1>3. QED
  BY <1>1, <1>2, Zenon

LEMMA LargerIs ==
  ASSUME NEW a \in Nat \ {0}, NEW b \in Nat
  PROVE  Larger(a, b) \in Nat \ {0}
BY SMT DEF Larger

LEMMA ListSums ==
  ASSUME NEW list \in Seq(Row)
  PROVE  /\ Reviews(list) \in Nat /\ Confidence(list) \in Nat
         /\ 100 * Len(list) - Confidence(list) \in Nat
         /\ Spent(Where(list, LAMBDA row : row.debit)) \in Nat
<1> DEFINE R == {i \in DOMAIN list : list[i].review}
           D == {i \in DOMAIN list : list[i].debit}
           f == [i \in DOMAIN list |-> list[i].confidence]
<1>0. /\ Len(list) \in Nat /\ DOMAIN list = 1 .. Len(list)
      /\ \A i \in 1 .. Len(list) : list[i] \in Row
  BY Places, Zenon
<1>1. Reviews(list) \in Nat
  <2>1. R \in SUBSET DOMAIN list
    BY Zenon
  <2>2. Reviews(list) = Cardinality(R)
    BY Zenon DEF Reviews
  <2> HIDE DEF R
  <2>3. QED
    BY <2>1, <2>2, ListIsFinite, Zenon
<1>2. Spent(Where(list, LAMBDA row : row.debit)) \in Nat
  <2>1. D \in SUBSET DOMAIN list
    BY Zenon
  <2>2. Where(list, LAMBDA row : row.debit) = AtPlaces(list, D)
    BY Zenon DEF Where
  <2> HIDE DEF D
  <2>3. PICK few \in Seq(Row) : few = AtPlaces(list, D)
    BY <2>1, WhereTyped, Zenon
  <2>4. Spent(few) \in Nat
    BY SpentIsNat, Zenon
  <2>5. QED
    BY <2>2, <2>3, <2>4
<1>3. \A i \in DOMAIN list : f[i] \in Percent
  <2>1. SUFFICES ASSUME NEW i \in DOMAIN list PROVE list[i].confidence \in Percent
    BY Zenon
  <2>2. QED
    BY <1>0, RowFields, Zenon
<1>4. Confidence(list) = SumFunctionOnSet(f, DOMAIN list)
  BY Zenon DEF Confidence, SumFunction
<1>5. IsFiniteSet(DOMAIN list) /\ Cardinality(DOMAIN list) \in Nat /\ Cardinality(DOMAIN list) <= Len(list)
  BY ListIsFinite, Zenon
<1> HIDE DEF f
<1>6. Confidence(list) \in Nat
  <2>1. Percent \subseteq Nat
    BY SMT DEF Percent
  <2>2. QED
    BY <1>3, <1>4, <1>5, <2>1, SumIsNat, Zenon
<1>7. Confidence(list) <= 100 * Cardinality(DOMAIN list)
  <2>1. PICK b \in Nat : b = 100
    OBVIOUS
  <2>2. \A i \in DOMAIN list : f[i] \in 0 .. b
    <3>1. Percent = 0 .. b
      BY <2>1 DEF Percent
    <3>2. QED
      BY <1>3, <3>1, Zenon
  <2>3. SumFunctionOnSet(f, DOMAIN list) <= b * Cardinality(DOMAIN list)
    BY <1>5, <2>2, SumIsBounded, Zenon
  <2>4. QED
    BY <1>4, <2>1, <2>3
<1>8. 100 * Len(list) - Confidence(list) \in Nat
  <2>1. PICK n \in Nat, c \in Nat, k \in Nat : n = Len(list) /\ c = Confidence(list) /\ k = Cardinality(DOMAIN list)
    BY <1>0, <1>5, <1>6, Zenon
  <2>2. k <= n /\ c <= 100 * k
    BY <1>5, <1>7, <2>1
  <2>3. 100 * n - c \in Nat
    BY <2>2, SMT
  <2>4. QED
    BY <2>1, <2>3
<1>9. QED
  BY <1>1, <1>2, <1>6, <1>8, Zenon

\* What the parts of a risk score come to.
Weighed(a, b, c, d, e, f) == (35 * a + 20 * b + 20 * c + 10 * d + 10 * e + 5 * f + 500) \div 1000

LEMMA WeighedIsMonotone ==
  ASSUME NEW a \in Thousandths, NEW b \in Thousandths, NEW c \in Thousandths, NEW d \in Thousandths,
         NEW e \in Thousandths, NEW f \in Thousandths,
         NEW k \in Thousandths, NEW l \in Thousandths, NEW m \in Thousandths, NEW n \in Thousandths,
         k <= a, l <= b, m <= c, n <= d
  PROVE  /\ Weighed(a, b, c, d, e, f) \in Percent
         /\ Weighed(k, l, m, n, e, f) <= Weighed(a, b, c, d, e, f)
BY SMT DEF Weighed, Percent, Thousandths

\* The risk score is a percentage and falls with what it is made of.
LEMMA RiskIs ==
  ASSUME NEW list \in Seq(Row),
         NEW F, Found(F), NEW H, Found(H), NEW G \in SUBSET Said, IsFiniteSet(G), NEW x,
         Severity(H) <= Severity(F), Impact(H) <= Impact(F), Cardinality(H) <= Cardinality(F),
         Missed(x) \in Nat, Missed(x) <= Missed(G)
  PROVE  /\ ComputeRiskScore(F, G, list) \in Percent
         /\ ComputeRiskScore(H, x, list) <= ComputeRiskScore(F, G, list)
<1>1. CASE Len(list) = 0
  <2>1. ComputeRiskScore(F, G, list) = 0 /\ ComputeRiskScore(H, x, list) = 0
    BY <1>1, Zenon DEF ComputeRiskScore
  <2>2. QED
    BY <2>1, SMT DEF Percent
<1>2. CASE Len(list) # 0
  <2> DEFINE Spend == Spent(Where(list, LAMBDA row : row.debit))
  <2>1. PICK n \in Nat \ {0} : n = Len(list)
    <3>1. Len(list) \in Nat
      BY Places, Zenon
    <3>2. QED
      BY <1>2, <3>1, Zenon
  <2>2. PICK spend \in Nat : spend = Spend
    BY ListSums, Zenon
  <2>3. PICK review \in Nat, confidence \in Nat : /\ review = Reviews(list)
                                                  /\ confidence = 100 * Len(list) - Confidence(list)
    BY ListSums, Zenon
  <2>4. ASSUME NEW X, Found(X), NEW Y, Missed(Y) \in Nat
        PROVE  ComputeRiskScore(X, Y, list) =
                 Weighed(Ratio(Severity(X), Larger(100, 8 * n)), Ratio(10 * Cardinality(X), Larger(10, 2 * n)),
                         Ratio(Impact(X), Larger(100, 25 * spend)), Ratio(Missed(Y), Larger(100, 10 * spend)),
                         Ratio(review, n), Ratio(confidence, 100 * n))
    <3>1. /\ spend = Spent(Where(list, LAMBDA row : row.debit)) /\ n = Len(list) /\ review = Reviews(list)
          /\ confidence = 100 * n - Confidence(list) /\ n # 0
      BY <2>1, <2>2, <2>3
    <3> HIDE DEF Spend
    <3>2. QED
      BY <3>1 DEF ComputeRiskScore, Weighed
  <2>5. PICK w1 \in Nat \ {0}, w2 \in Nat \ {0}, w3 \in Nat \ {0}, w4 \in Nat \ {0}, w5 \in Nat \ {0} :
          /\ w1 = Larger(100, 8 * n) /\ w2 = Larger(10, 2 * n) /\ w3 = Larger(100, 25 * spend)
          /\ w4 = Larger(100, 10 * spend) /\ w5 = 100 * n
    <3>1. /\ Larger(100, 8 * n) \in Nat \ {0} /\ Larger(10, 2 * n) \in Nat \ {0}
          /\ Larger(100, 25 * spend) \in Nat \ {0} /\ Larger(100, 10 * spend) \in Nat \ {0}
          /\ 100 * n \in Nat \ {0}
      BY SMT DEF Larger
    <3>2. QED
      BY <3>1
  <2>6. /\ Severity(F) \in Nat /\ Severity(H) \in Nat /\ Impact(F) \in Nat /\ Impact(H) \in Nat
        /\ Cardinality(F) \in Nat /\ Cardinality(H) \in Nat /\ Missed(G) \in Nat
    BY FindingsSum, MissedIs, Zenon
  <2>7. /\ 10 * Cardinality(F) \in Nat /\ 10 * Cardinality(H) \in Nat
        /\ 10 * Cardinality(H) <= 10 * Cardinality(F)
    BY <2>6, SMT
  <2>8. PICK a \in Thousandths, k \in Thousandths : a = Ratio(Severity(F), w1) /\ k = Ratio(Severity(H), w1) /\ k <= a
    <3>1. PICK p \in Nat, q \in Nat : p = Severity(H) /\ q = Severity(F) /\ p <= q
      BY <2>6, Zenon
    <3>2. QED
      BY <3>1, RatioIs, Zenon
  <2>9. PICK b \in Thousandths, l \in Thousandths : b = Ratio(10 * Cardinality(F), w2) /\ l = Ratio(10 * Cardinality(H), w2) /\ l <= b
    <3>1. PICK p \in Nat, q \in Nat : p = 10 * Cardinality(H) /\ q = 10 * Cardinality(F) /\ p <= q
      BY <2>7, Zenon
    <3>2. Ratio(q, w2) \in Thousandths /\ Ratio(p, w2) \in Thousandths /\ Ratio(p, w2) <= Ratio(q, w2)
      BY <3>1, RatioIs, Zenon
    <3>3. Ratio(q, w2) = Ratio(10 * Cardinality(F), w2) /\ Ratio(p, w2) = Ratio(10 * Cardinality(H), w2)
      BY <3>1
    <3>4. PICK y, z : y = Ratio(10 * Cardinality(F), w2) /\ z = Ratio(10 * Cardinality(H), w2)
      OBVIOUS
    <3>5. y \in Thousandths /\ z \in Thousandths /\ z <= y
      BY <3>2, <3>3, <3>4
    <3>6. QED
      BY <3>4, <3>5
  <2>10. PICK c \in Thousandths, m \in Thousandths : c = Ratio(Impact(F), w3) /\ m = Ratio(Impact(H), w3) /\ m <= c
    <3>1. PICK p \in Nat, q \in Nat : p = Impact(H) /\ q = Impact(F) /\ p <= q
      BY <2>6, Zenon
    <3>2. QED
      BY <3>1, RatioIs, Zenon
  <2>11. PICK d \in Thousandths, o \in Thousandths : d = Ratio(Missed(G), w4) /\ o = Ratio(Missed(x), w4) /\ o <= d
    <3>1. PICK p \in Nat, q \in Nat : p = Missed(x) /\ q = Missed(G) /\ p <= q
      BY <2>6, Zenon
    <3>2. QED
      BY <3>1, RatioIs, Zenon
  <2>12. PICK e \in Thousandths, f \in Thousandths : e = Ratio(review, n) /\ f = Ratio(confidence, w5)
    <3>1. review <= review /\ confidence <= confidence
      BY SMT
    <3>2. Ratio(review, n) \in Thousandths /\ Ratio(confidence, w5) \in Thousandths
      BY <3>1, RatioIs, Zenon
    <3>3. QED
      BY <3>2, Zenon
  <2>13. ComputeRiskScore(F, G, list) = Weighed(a, b, c, d, e, f)
    <3>1. ComputeRiskScore(F, G, list) =
            Weighed(Ratio(Severity(F), w1), Ratio(10 * Cardinality(F), w2), Ratio(Impact(F), w3),
                    Ratio(Missed(G), w4), Ratio(review, n), Ratio(confidence, w5))
      BY <2>4, <2>5, <2>6
    <3>2. QED
      BY <2>8, <2>9, <2>10, <2>11, <2>12, <3>1, Zenon
  <2>14. ComputeRiskScore(H, x, list) = Weighed(k, l, m, o, e, f)
    <3>1. ComputeRiskScore(H, x, list) =
            Weighed(Ratio(Severity(H), w1), Ratio(10 * Cardinality(H), w2), Ratio(Impact(H), w3),
                    Ratio(Missed(x), w4), Ratio(review, n), Ratio(confidence, w5))
      BY <2>4, <2>5, <2>6
    <3>2. QED
      BY <2>8, <2>9, <2>10, <2>11, <2>12, <3>1, Zenon
  <2>15. QED
    <3>1. Weighed(a, b, c, d, e, f) \in Percent /\ Weighed(k, l, m, o, e, f) <= Weighed(a, b, c, d, e, f)
      <4>1. k <= a /\ l <= b /\ m <= c /\ o <= d
        BY <2>8, <2>9, <2>10, <2>11, Zenon
      <4>2. QED
        BY <4>1, WeighedIsMonotone
    <3>2. QED
      BY <2>13, <2>14, <3>1, Zenon
<1>3. QED
  BY <1>1, <1>2, Zenon

-----------------------------------------------------------------------------
(* Leaks: tax credits and tasks                                             *)

\* The rows of a statement are numbered in its order.
Numbered(list) == list \in Seq(Row) /\ Len(list) <= MaxRows /\ \A i \in DOMAIN list : list[i].id = i

SaidOf(row) == [id |-> row.id, invoice |-> row.invoice, itc |-> 18 * row.amount]

Claimable(row) == row.category = "business" /\ row.debit /\ row.billable

LEMMA AnalyzeIs ==
  ASSUME NEW list, Numbered(list)
  PROVE  /\ Analyze(list) \in SUBSET Said /\ IsFiniteSet(Analyze(list))
         /\ \A g \in Analyze(list) : g.id \in DOMAIN list /\ Claimable(list[g.id]) /\ g = SaidOf(list[g.id])
<1> DEFINE I == {i \in DOMAIN list : Claimable(list[i])}
<1>0. list \in Seq(Row) /\ \A i \in DOMAIN list : list[i] \in Row /\ list[i].id = i
  BY Places, Zenon DEF Numbered
<1>1. Analyze(list) = {SaidOf(list[i]) : i \in I}
  BY Zenon DEF Analyze, ToSet, SaidOf, Claimable
<1>2. PICK h : \A i \in I : h[i] = SaidOf(list[i])
  <2> HIDE DEF I
  <2>1. \A i \in I : [x \in I |-> SaidOf(list[x])][i] = SaidOf(list[i])
    BY Zenon
  <2>2. QED
    BY <2>1, Zenon
<1>3. ASSUME NEW row \in Row PROVE SaidOf(row) \in Said /\ SaidOf(row).id = row.id
  <2>1. PICK S : S = 1 .. MaxRows
    OBVIOUS
  <2>2. row.id \in S /\ row.invoice \in BOOLEAN /\ row.amount \in Nat
    BY <2>1, RowFields, SMT
  <2>3. PICK i \in S, b \in BOOLEAN, n \in Nat : i = row.id /\ b = row.invoice /\ n = 18 * row.amount
    <3>1. 18 * row.amount \in Nat
      BY <2>2, SMT
    <3>2. QED
      BY <2>2, <3>1
  <2>4. SaidOf(row) = [id |-> i, invoice |-> b, itc |-> n]
    BY <2>3 DEF SaidOf
  <2>5. [id |-> i, invoice |-> b, itc |-> n] \in [id: S, invoice: BOOLEAN, itc: Nat]
    BY SMT
  <2>6. SaidOf(row) \in Said
    BY <2>1, <2>4, <2>5, Zenon DEF Said
  <2>7. QED
    BY <2>3, <2>4, <2>6
<1>4. I \in SUBSET DOMAIN list
  BY Zenon
<1>5. IsFiniteSet(Analyze(list))
  <2> HIDE DEF I
  <2>1. IsFiniteSet(I)
    BY <1>0, <1>4, ListIsFinite, Zenon
  <2>2. IsFiniteSet({h[i] : i \in I})
    BY <2>1, ImageIsFinite, Zenon
  <2>3. {h[i] : i \in I} = {SaidOf(list[i]) : i \in I}
    BY <1>2, Zenon
  <2>4. QED
    BY <1>1, <2>2, <2>3, Zenon
<1>6. ASSUME NEW g \in Analyze(list)
      PROVE  g \in Said /\ g.id \in DOMAIN list /\ Claimable(list[g.id]) /\ g = SaidOf(list[g.id])
  <2>1. PICK i \in DOMAIN list : Claimable(list[i]) /\ g = SaidOf(list[i])
    BY <1>1, Zenon
  <2>2. list[i] \in Row /\ list[i].id = i
    BY <1>0, Zenon
  <2>3. g \in Said /\ g.id = i
    BY <1>3, <2>1, <2>2, Zenon
  <2>4. QED
    BY <2>1, <2>3, Zenon
<1>7. QED
  BY <1>5, <1>6, Zenon

\* What each kind of task is about.
LEMMA PlanIs ==
  ASSUME NEW F, NEW G
  PROVE  /\ \A t \in Plan(F, G) : t.type \in {"ledger_reclass", "email_draft", "invoice_fetch", "gst_recon"}
         /\ UNION {t.about : t \in {t \in Plan(F, G) : t.type = "invoice_fetch"}}
              = {g.id : g \in {g \in G : ~g.invoice}}
         /\ UNION {t.about : t \in {t \in Plan(F, G) : t.type \in {"ledger_reclass", "email_draft"}}}
              = {f \in F : f.type \in {"tax", "duplicate", "sprawl"}}
         /\ (\E t \in Plan(F, G) : t.type = "gst_recon") <=> {g \in G : ~g.invoice} # {}
<1> DEFINE Task(type, about) == IF about = {} THEN {} ELSE {[type |-> type, about |-> about]}
<1>1. PICK tax, cancel, missing, ids :
        /\ tax = {f \in F : f.type = "tax"} /\ cancel = {f \in F : f.type \in ToCancel}
        /\ missing = {g \in G : ~g.invoice} /\ ids = {g.id : g \in missing}
  OBVIOUS
<1>2. Plan(F, G) = Task("ledger_reclass", tax) \cup Task("email_draft", cancel)
                     \cup Task("invoice_fetch", ids) \cup Task("gst_recon", missing)
  BY <1>1, Zenon DEF Plan
<1>3. ASSUME NEW type, NEW about, NEW t
      PROVE  t \in Task(type, about) <=> about # {} /\ t = [type |-> type, about |-> about]
  BY Zenon
<1> HIDE DEF Task
<1>4. \A t : t \in Plan(F, G) <=>
        \/ tax # {} /\ t = [type |-> "ledger_reclass", about |-> tax]
        \/ cancel # {} /\ t = [type |-> "email_draft", about |-> cancel]
        \/ ids # {} /\ t = [type |-> "invoice_fetch", about |-> ids]
        \/ missing # {} /\ t = [type |-> "gst_recon", about |-> missing]
  BY <1>2, <1>3, Zenon
<1>5. PICK a, b, c, d : /\ a = [type |-> "ledger_reclass", about |-> tax]
                        /\ b = [type |-> "email_draft", about |-> cancel]
                        /\ c = [type |-> "invoice_fetch", about |-> ids]
                        /\ d = [type |-> "gst_recon", about |-> missing]
  OBVIOUS
<1>6. /\ a.type = "ledger_reclass" /\ a.about = tax /\ b.type = "email_draft" /\ b.about = cancel
      /\ c.type = "invoice_fetch" /\ c.about = ids /\ d.type = "gst_recon" /\ d.about = missing
  BY <1>5, SMT
<1>7. \A t : t \in Plan(F, G) <=>
        \/ tax # {} /\ t = a
        \/ cancel # {} /\ t = b
        \/ ids # {} /\ t = c
        \/ missing # {} /\ t = d
  BY <1>4, <1>5, SMT
<1>8. PICK P : P = Plan(F, G)
  OBVIOUS
<1>9. \A t \in P : t.type \in {"ledger_reclass", "email_draft", "invoice_fetch", "gst_recon"}
  BY <1>6, <1>7, <1>8, SMT
<1>10. UNION {t.about : t \in {t \in P : t.type = "invoice_fetch"}} = ids
  <2>1. ASSUME NEW x \in UNION {t.about : t \in {t \in P : t.type = "invoice_fetch"}} PROVE x \in ids
    <3>1. PICK t \in P : t.type = "invoice_fetch" /\ x \in t.about
      BY Zenon
    <3>2. t = c
      BY <1>6, <1>7, <1>8, <3>1, SMT
    <3>3. QED
      BY <1>6, <3>1, <3>2, Zenon
  <2>2. ASSUME NEW x \in ids PROVE x \in UNION {t.about : t \in {t \in P : t.type = "invoice_fetch"}}
    <3>1. c \in P
      <4>1. ids # {}
        BY Zenon
      <4>2. QED
        BY <1>7, <1>8, <4>1
    <3>2. QED
      BY <1>6, <3>1, Zenon
  <2>3. QED
    BY <2>1, <2>2, Zenon
<1>11. UNION {t.about : t \in {t \in P : t.type \in {"ledger_reclass", "email_draft"}}} = tax \cup cancel
  <2>1. ASSUME NEW x \in UNION {t.about : t \in {t \in P : t.type \in {"ledger_reclass", "email_draft"}}}
        PROVE  x \in tax \cup cancel
    <3>1. PICK t \in P : t.type \in {"ledger_reclass", "email_draft"} /\ x \in t.about
      BY Zenon
    <3>2. t = a \/ t = b
      BY <1>6, <1>7, <1>8, <3>1, SMT
    <3>3. QED
      BY <1>6, <3>1, <3>2, Zenon
  <2>2. ASSUME NEW x \in tax \cup cancel
        PROVE  x \in UNION {t.about : t \in {t \in P : t.type \in {"ledger_reclass", "email_draft"}}}
    <3>1. (x \in tax /\ a \in P) \/ (x \in cancel /\ b \in P)
      <4>1. (x \in tax /\ tax # {}) \/ (x \in cancel /\ cancel # {})
        BY Zenon
      <4>2. QED
        BY <1>7, <1>8, <4>1
    <3>2. QED
      BY <1>6, <3>1, Zenon
  <2>3. QED
    BY <2>1, <2>2, Zenon
<1>12. tax \cup cancel = {f \in F : f.type \in {"tax", "duplicate", "sprawl"}}
  BY <1>1, SMT DEF ToCancel
<1>13. (\E t \in P : t.type = "gst_recon") <=> missing # {}
  <2>1. ASSUME NEW t \in P, t.type = "gst_recon" PROVE missing # {}
    BY <1>6, <1>7, <1>8, <2>1, SMT
  <2>2. ASSUME missing # {} PROVE \E t \in P : t.type = "gst_recon"
    <3>1. d \in P
      BY <1>7, <1>8, <2>2, Zenon
    <3>2. QED
      BY <1>6, <3>1, Zenon
  <2>3. QED
    BY <2>1, <2>2, Zenon
<1>14. QED
  BY <1>1, <1>8, <1>9, <1>10, <1>11, <1>12, <1>13, Zenon

\* The tax credit of the rows without an invoice is what GstSentinel says it is.
LEMMA MissedIsOfRows ==
  ASSUME NEW list, Numbered(list), NEW ids,
         ids = {g.id : g \in {g \in Analyze(list) : ~g.invoice}}
  PROVE  Missed(Analyze(list)) = SumFunctionOnSet([i \in DOMAIN list |-> 18 * list[i].amount], ids)
<1> DEFINE G == Analyze(list)
           S == {g \in G : ~g.invoice}
           fun == [g \in G |-> g.itc]
           gun == [i \in DOMAIN list |-> 18 * list[i].amount]
<1>1. /\ G \in SUBSET Said /\ IsFiniteSet(G)
      /\ \A g \in G : g.id \in DOMAIN list /\ g = SaidOf(list[g.id])
  BY AnalyzeIs, Zenon
<1> HIDE DEF G
<1>2. S \subseteq G /\ \A g \in S : g.id \in DOMAIN list /\ g = SaidOf(list[g.id]) /\ g \in Said
  BY <1>1, Zenon
<1>3. Missed(G) = SumFunctionOnSet(fun, S)
  BY Zenon DEF Missed
<1>4. \A g \in S : fun[g] = gun[g.id] /\ fun[g] \in Nat
  <2>1. SUFFICES ASSUME NEW g \in S PROVE g.itc = 18 * list[g.id].amount /\ g.itc \in Nat
    BY <1>2, Zenon
  <2>2. g.itc \in Nat
    BY <1>2, SaidFields, Zenon
  <2>3. g = SaidOf(list[g.id])
    BY <1>2, Zenon
  <2>4. PICK row : row = list[g.id]
    OBVIOUS
  <2>5. SaidOf(row).itc = 18 * row.amount
    BY SMT DEF SaidOf
  <2>6. QED
    BY <2>2, <2>3, <2>4, <2>5
<1>5. IsFiniteSet(S)
  <2> HIDE DEF S
  <2> QED BY <1>1, <1>2, FS_Subset, Zenon
<1>6. PICK h : \A g \in S : h[g] = g.id
  <2> HIDE DEF S
  <2>1. \A g \in S : [x \in S |-> x.id][g] = g.id
    BY Zenon
  <2>2. QED
    BY <2>1, Zenon
<1>7. ids = {h[g] : g \in S}
  <2>1. ids = {g.id : g \in S}
    BY Zenon DEF G
  <2> HIDE DEF S
  <2>2. QED
    BY <1>6, <2>1, Zenon
<1>8. \A x, y \in S : h[x] = h[y] => x = y
  <2> HIDE DEF S
  <2> QED BY <1>2, <1>6, Zenon
<1>9. SumFunctionOnSet(fun, S) = SumFunctionOnSet(gun, {h[g] : g \in S})
  <2>1. \A g \in S : fun[g] = gun[h[g]] /\ fun[g] \in Nat
    <3> HIDE DEF S, fun, gun
    <3> QED BY <1>4, <1>6, Zenon
  <2> HIDE DEF S, fun, gun
  <2>2. QED
    BY <1>5, <1>8, <2>1, SumIsRenamed
<1>10. QED
  <2>1. Missed(G) = SumFunctionOnSet(gun, ids)
    <3> HIDE DEF S, fun, gun
    <3> QED BY <1>3, <1>7, <1>9, Zenon
  <2>2. QED
    BY <2>1, Zenon DEF G

-----------------------------------------------------------------------------
(* Leaks: as long as the tokens keep their order                            *)

LEMMA KeysStay ==
  ASSUME tokens' = tokens
  PROVE  \A row : MerchantKey(row)' = MerchantKey(row)
<1> SUFFICES ASSUME NEW row PROVE MerchantKey(row)' = MerchantKey(row)
  OBVIOUS
<1> DEFINE F == {i \in DOMAIN tokens : tokens[i] \in row.tokens}
<1>1. F' = F
  BY Zenon
<1>2. AtPlaces(tokens, F)' = AtPlaces(tokens, F)
  <2> HIDE DEF F
  <2> QED BY <1>1, Zenon
<1>3. QED
  BY <1>2, Zenon DEF MerchantKey, Where

LEMMA DebitsStay ==
  ASSUME tokens' = tokens
  PROVE  \A list, key : Debits(list, key)' = Debits(list, key)
<1> SUFFICES ASSUME NEW list, NEW key PROVE Debits(list, key)' = Debits(list, key)
  OBVIOUS
<1>1. \A row : MerchantKey(row)' = MerchantKey(row)
  BY KeysStay
<1> DEFINE S == {i \in DOMAIN list : list[i].debit /\ MerchantKey(list[i]) = key}
<1>2. S' = S
  BY <1>1, Zenon
<1>3. Debits(list, key)' = AtPlaces(list, S')
  BY Zenon DEF Debits, Where
<1>4. Debits(list, key) = AtPlaces(list, S)
  BY Zenon DEF Debits, Where
<1> HIDE DEF S
<1>5. QED
  BY <1>2, <1>3, <1>4, Zenon

LEMMA MerchantsStay ==
  ASSUME tokens' = tokens
  PROVE  \A list : Merchants(list)' = Merchants(list)
<1>1. \A row : MerchantKey(row)' = MerchantKey(row)
  BY KeysStay
<1>2. QED
  BY <1>1, Zenon DEF Merchants

FamilyRows(list, fam) == Where(list, LAMBDA row : row.debit /\ FamilyOf[MerchantKey(row)] = fam)
SprawlOf(list, fam) == Finding("sprawl", "P2", 30 * Spent(FamilyRows(list, fam)), FamilyRows(list, fam))
Sprawling(list) ==
  {fam \in {"video", "chat", "docs"} : Cardinality(Merchants(FamilyRows(list, fam))) >= 2}

LEMMA SprawlIs ==
  \A list : DetectSprawl(list) = {SprawlOf(list, fam) : fam \in Sprawling(list)}
BY Zenon DEF DetectSprawl, FamilyRows, SprawlOf, Sprawling

LEMMA SprawlStays ==
  ASSUME tokens' = tokens
  PROVE  \A list : DetectSprawl(list)' = DetectSprawl(list)
<1>1. \A row : MerchantKey(row)' = MerchantKey(row)
  BY KeysStay
<1>2. ASSUME NEW list, NEW fam PROVE FamilyRows(list, fam)' = FamilyRows(list, fam)
  <2> DEFINE S == {i \in DOMAIN list : list[i].debit /\ FamilyOf[MerchantKey(list[i])] = fam}
  <2>1. S' = S
    BY <1>1, Zenon
  <2>2. FamilyRows(list, fam)' = AtPlaces(list, S')
    BY Zenon DEF FamilyRows, Where
  <2>3. FamilyRows(list, fam) = AtPlaces(list, S)
    BY Zenon DEF FamilyRows, Where
  <2> HIDE DEF S
  <2>4. QED
    BY <2>1, <2>2, <2>3, Zenon
<1>3. ASSUME NEW list, NEW fam PROVE SprawlOf(list, fam)' = SprawlOf(list, fam)
  BY <1>2, Zenon DEF SprawlOf
<1>4. ASSUME NEW list, NEW fam PROVE Merchants(FamilyRows(list, fam))' = Merchants(FamilyRows(list, fam))
  BY <1>1, <1>2, Zenon DEF Merchants
<1>5. ASSUME NEW list PROVE Sprawling(list)' = Sprawling(list)
  BY <1>4, Zenon DEF Sprawling
<1>6. SUFFICES ASSUME NEW list PROVE DetectSprawl(list)' = DetectSprawl(list)
  OBVIOUS
<1>7. DetectSprawl(list)' = {SprawlOf(list, fam)' : fam \in Sprawling(list)'}
  BY Zenon DEF DetectSprawl, FamilyRows, SprawlOf, Sprawling
<1>8. {SprawlOf(list, fam)' : fam \in Sprawling(list)'} = {SprawlOf(list, fam) : fam \in Sprawling(list)}
  BY <1>3, <1>5, Zenon
<1>9. QED
  BY <1>7, <1>8, SprawlIs, Zenon

LEMMA LeaksStay ==
  ASSUME tokens' = tokens
  PROVE  \A list : DetectLeaks(list)' = DetectLeaks(list)
<1> SUFFICES ASSUME NEW list PROVE DetectLeaks(list)' = DetectLeaks(list)
  OBVIOUS
<1>1. Merchants(list)' = Merchants(list)
  BY MerchantsStay
<1>2. \A key : Debits(list, key)' = Debits(list, key)
  BY DebitsStay
<1>3. DetectSprawl(list)' = DetectSprawl(list)
  BY SprawlStays
<1> DEFINE U == UNION {DetectMerchantLeaks(Debits(list, key), key) : key \in Merchants(list)}
<1>4. U' = U
  <2>1. ASSUME NEW key PROVE DetectMerchantLeaks(Debits(list, key), key)' = DetectMerchantLeaks(Debits(list, key), key)
    BY <1>2, Zenon
  <2>2. QED
    BY <1>1, <2>1, Zenon
<1>5. DetectLeaks(list) = U \cup DetectSprawl(list) \cup DetectTaxMiscategory(list)
  BY Zenon DEF DetectLeaks
<1>6. DetectLeaks(list)' = U' \cup DetectSprawl(list)' \cup DetectTaxMiscategory(list)
  BY Zenon DEF DetectLeaks
<1> HIDE DEF U
<1>7. QED
  BY <1>3, <1>4, <1>5, <1>6, Zenon

-----------------------------------------------------------------------------
(* Leaks: equal charges meet                                                *)

LEMMA SpentOfAppend ==
  ASSUME NEW list \in Seq(Row), NEW row \in Row
  PROVE  Spent(Append(list, row)) = Spent(list) + row.amount
<1> DEFINE n == Len(list)
           new == Append(list, row)
           f == [i \in DOMAIN new |-> new[i].amount]
           g == [i \in DOMAIN list |-> list[i].amount]
<1>1. n \in Nat /\ DOMAIN list = 1 .. n /\ \A i \in 1 .. n : list[i] \in Row
  BY Places, Zenon
<1>2. /\ new \in Seq(Row) /\ Len(new) = n + 1
      /\ \A i \in 1 .. n : new[i] = list[i]
      /\ new[n + 1] = row
  BY AppendProperties
<1>3. DOMAIN new = 1 .. n + 1
  <2> HIDE DEF new
  <2> QED BY <1>2, Places, Zenon
<1> HIDE DEF new
<1>4. n + 1 \in 1 .. n + 1 /\ (1 .. n + 1) \ {n + 1} = 1 .. n
  <2> HIDE DEF n
  <2> QED BY <1>1, SMT
<1>5. \A i \in 1 .. n : i \in 1 .. n + 1
  <2> HIDE DEF n
  <2> QED BY <1>1, SMT
<1>6. \A i \in 1 .. n : f[i] = g[i] /\ f[i] \in Nat
  <2>1. SUFFICES ASSUME NEW i \in 1 .. n PROVE new[i].amount = list[i].amount /\ new[i].amount \in Nat
    BY <1>1, <1>3, <1>5, Zenon
  <2>2. new[i] = list[i] /\ list[i] \in Row
    BY <1>1, <1>2, Zenon
  <2>3. QED
    BY <2>2, RowFields, SMT
<1>7. f[n + 1] = row.amount /\ row.amount \in Nat
  BY <1>2, <1>3, <1>4, RowFields, SMT
<1>8. \A i \in 1 .. n + 1 : f[i] \in Nat
  BY <1>4, <1>6, <1>7, Zenon
<1>9. IsFiniteSet(1 .. n + 1) /\ IsFiniteSet(1 .. n)
  <2>1. n + 1 \in Nat
    BY <1>1, SMT
  <2>2. QED
    BY <1>1, <2>1, FS_Interval, SMT
<1>10. Spent(new) = SumFunctionOnSet(f, 1 .. n + 1) /\ Spent(list) = SumFunctionOnSet(g, 1 .. n)
  BY <1>1, <1>3, Zenon DEF Spent, SumFunction
<1> HIDE DEF f, g, n
<1>11. SumFunctionOnSet(f, 1 .. n + 1) = f[n + 1] + SumFunctionOnSet(f, (1 .. n + 1) \ {n + 1})
  BY <1>4, <1>8, <1>9, SumTakesOut, Zenon
<1>12. SumFunctionOnSet(f, 1 .. n) = SumFunctionOnSet(g, 1 .. n)
  BY <1>6, <1>9, SumIsSame, Zenon
<1>13. PICK a \in Nat, b \in Nat : a = row.amount /\ b = SumFunctionOnSet(f, 1 .. n)
  BY <1>6, <1>7, <1>9, SumIsNat, Zenon
<1>14. Spent(new) = a + b /\ Spent(list) = b
  BY <1>4, <1>7, <1>10, <1>11, <1>12, <1>13, Zenon
<1>15. a + b = b + a
  BY SMT
<1>16. QED
  BY <1>13, <1>14, <1>15, Zenon DEF new

LEMMA SpentOfOne ==
  ASSUME NEW row \in Row
  PROVE  Spent(<<row>>) = row.amount
<1>1. <<row>> = Append(<< >>, row)
  OBVIOUS
<1>2. << >> \in Seq(Row)
  OBVIOUS
<1>3. Spent(<< >>) = 0
  <2>1. DOMAIN << >> = {}
    OBVIOUS
  <2>2. PICK f : f = [i \in DOMAIN << >> |-> << >>[i].amount]
    OBVIOUS
  <2>3. DOMAIN f = {}
    BY <2>1, <2>2
  <2>4. Spent(<< >>) = SumFunctionOnSet(f, DOMAIN f)
    BY <2>2, Zenon DEF Spent, SumFunction
  <2>5. QED
    BY <2>3, <2>4, SumOfNone, Zenon
<1>4. Spent(Append(<< >>, row)) = 0 + row.amount
  BY <1>2, <1>3, SpentOfAppend, Zenon
<1>5. row.amount \in Nat
  BY RowFields, SMT
<1>6. 0 + row.amount = row.amount
  BY <1>5, SMT
<1>7. QED
  BY <1>1, <1>4, <1>6, Zenon

LEMMA FitsByAmount ==
  ASSUME NEW row, NEW other, row.amount = other.amount, NEW group
  PROVE  Fits(row, group) <=> Fits(other, group)
BY SMT DEF Fits

\* A charge that has joined a group, or begun it, leaves room in it for its equals.
LEMMA FitsAfter ==
  ASSUME NEW row \in Row, NEW group \in Seq(Row), Fits(row, group)
  PROVE  Fits(row, Append(group, row))
<1>1. PICK n \in Nat, sum \in Nat, a \in Nat, x \in Nat :
        n = Len(group) /\ sum = Spent(group) /\ a = row.amount /\ x = a * n
  <2>1. Len(group) \in Nat
    BY Places, Zenon
  <2>2. PICK a \in Nat : a = row.amount
    BY RowFields, SMT
  <2>3. a * Len(group) \in Nat
    BY <2>1, <2>2, ProductIsNat, Zenon
  <2>4. QED
    BY <2>1, <2>2, <2>3, SpentIsNat, Zenon
<1>2. Len(Append(group, row)) = n + 1 /\ Spent(Append(group, row)) = sum + a
  BY <1>1, SpentOfAppend, AppendProperties
<1>3. 20 * (IF x - sum < 0 THEN - (x - sum) ELSE x - sum) <= Larger(20 * n, sum)
  <2>1. row.amount * Len(group) = x
    BY <1>1, Zenon
  <2>2. PICK y \in Nat : y = row.amount * Len(group) /\ y = x
    BY <2>1, Zenon
  <2>3. 20 * (IF y - sum < 0 THEN - (y - sum) ELSE y - sum) <= Larger(20 * n, sum)
    BY <1>1, <2>2, SMT DEF Fits
  <2>4. QED
    BY <2>2, <2>3, Zenon
<1>4. a * (n + 1) = x + a
  <2>1. a * (n + 1) = a * n + a
    BY SMT
  <2>2. QED
    BY <1>1, <2>1, Zenon
<1>5. 20 * (IF (x + a) - (sum + a) < 0 THEN - ((x + a) - (sum + a)) ELSE (x + a) - (sum + a))
        <= Larger(20 * (n + 1), sum + a)
  BY <1>3, SMT DEF Larger
<1>6. QED
  <2>1. PICK group2 : group2 = Append(group, row)
    OBVIOUS
  <2>2. Len(group2) = n + 1 /\ Spent(group2) = sum + a
    BY <1>2, <2>1, Zenon
  <2>3. row.amount * Len(group2) = x + a
    BY <1>1, <1>4, <2>2
  <2>4. Fits(row, group2)
    BY <1>5, <2>2, <2>3 DEF Fits
  <2>5. QED
    BY <2>1, <2>4, Zenon

LEMMA FitsAlone ==
  ASSUME NEW row \in Row
  PROVE  Fits(row, <<row>>)
<1>1. PICK a \in Nat : a = row.amount
  BY RowFields, SMT
<1>2. PICK group : group = <<row>>
  OBVIOUS
<1>3. Len(group) = 1 /\ Spent(group) = a
  BY <1>1, <1>2, SpentOfOne
<1>4. row.amount * Len(group) - Spent(group) = 0
  BY <1>1, <1>3, SMT
<1>5. 20 * 0 <= Larger(20 * 1, a)
  BY SMT DEF Larger
<1>6. Fits(row, group)
  BY <1>3, <1>4, <1>5, SMT DEF Fits
<1>7. QED
  BY <1>2, <1>6, Zenon

\* The row is in the group number G.
Within(groups, G, row) == G \in DOMAIN groups /\ \E p \in DOMAIN groups[G] : groups[G][p] = row

\* G is the first group that the row fits.
FirstFit(groups, G, row) ==
  /\ G \in DOMAIN groups /\ Fits(row, groups[G])
  /\ \A h \in DOMAIN groups : h < G => ~ Fits(row, groups[h])

\* What a row joins it fits before and after, and nothing else changes.
LEMMA JoinWithin ==
  ASSUME NEW groups \in Seq(Seq(Row)), NEW row \in Row
  PROVE  \E G : /\ FirstFit(Join(groups, row), G, row)
                /\ \A h, x : Within(Join(groups, row), h, x) <=> Within(groups, h, x) \/ (h = G /\ x = row)
                /\ \A h : FirstFit(groups, h, row) => h = G
<1>1. PICK U : U = Seq(Row)
  OBVIOUS
<1>2. groups \in Seq(U)
  BY <1>1, Zenon
<1>3. PICK n \in Nat : n = Len(groups) /\ DOMAIN groups = 1 .. n /\ \A g \in 1 .. n : groups[g] \in U
  BY <1>2, Places, Zenon
<1>4. PICK new : new = Join(groups, row)
  OBVIOUS
<1>5. CASE (\A g \in DOMAIN groups : ~ Fits(row, groups[g])) /\ new = Append(groups, <<row>>)
  <2>1. PICK one : one = <<row>>
    OBVIOUS
  <2>2. one \in U /\ DOMAIN one = {1} /\ one[1] = row
    BY <1>1, <2>1
  <2>3. /\ new \in Seq(U) /\ Len(new) = n + 1
        /\ \A g \in 1 .. n : new[g] = groups[g]
        /\ new[n + 1] = one
    BY <1>2, <1>3, <1>5, <2>1, <2>2, AppendProperties
  <2>4. DOMAIN new = 1 .. n + 1
    BY <2>3, Places, Zenon
  <2>5. \A g : g \in 1 .. n + 1 <=> g \in 1 .. n \/ g = n + 1
    BY <1>3, SMT
  <2>6. \A g \in 1 .. n : g # n + 1
    BY SMT
  <2>7. FirstFit(new, n + 1, row)
    <3>1. Fits(row, new[n + 1])
      BY <2>1, <2>3, FitsAlone, Zenon
    <3>2. ASSUME NEW h \in DOMAIN new, h < n + 1 PROVE ~ Fits(row, new[h])
      <4>1. h \in 1 .. n
        BY <2>4, <3>2, SMT
      <4>2. QED
        BY <1>3, <1>5, <2>3, <4>1, Zenon
    <3>3. QED
      BY <2>4, <2>5, <3>1, <3>2, Zenon DEF FirstFit
  <2>8. ASSUME NEW h, NEW x PROVE Within(new, h, x) <=> Within(groups, h, x) \/ (h = n + 1 /\ x = row)
    <3>1. CASE h \in 1 .. n
      <4>1. new[h] = groups[h] /\ h # n + 1 /\ h \in DOMAIN new /\ h \in DOMAIN groups
        BY <1>3, <2>3, <2>4, <2>5, <2>6, <3>1, Zenon
      <4>2. QED
        BY <4>1, Zenon DEF Within
    <3>2. CASE h = n + 1
      <4>1. new[h] = one /\ h \in DOMAIN new /\ h \notin DOMAIN groups
        BY <1>3, <2>3, <2>4, <2>5, <2>6, <3>2, Zenon
      <4>2. QED
        BY <2>2, <3>2, <4>1, Zenon DEF Within
    <3>3. CASE h \notin 1 .. n + 1
      <4>1. h \notin DOMAIN new /\ h \notin DOMAIN groups /\ h # n + 1
        BY <1>3, <2>4, <2>5, <3>3, Zenon
      <4>2. QED
        BY <4>1, Zenon DEF Within
    <3>4. QED
      BY <2>5, <3>1, <3>2, <3>3, Zenon
  <2>9. \A h : ~ FirstFit(groups, h, row)
    BY <1>5, Zenon DEF FirstFit
  <2>10. QED
    BY <1>4, <2>7, <2>8, <2>9, Zenon
<1>6. ASSUME NEW g \in DOMAIN groups,
             Fits(row, groups[g]), \A h \in DOMAIN groups : h < g => ~ Fits(row, groups[h]),
             new = [groups EXCEPT ![g] = Append(groups[g], row)]
      PROVE  \E G : /\ FirstFit(new, G, row)
                    /\ \A h, x : Within(new, h, x) <=> Within(groups, h, x) \/ (h = G /\ x = row)
                    /\ \A h : FirstFit(groups, h, row) => h = G
  <2>1. PICK group \in Seq(Row) : group = groups[g]
    BY <1>1, <1>3, <1>6, Zenon
  <2>2. PICK more : more = Append(group, row)
    OBVIOUS
  <2>3. DOMAIN new = DOMAIN groups /\ new[g] = more /\ \A h \in DOMAIN groups : h # g => new[h] = groups[h]
    BY <1>6, <2>1, <2>2
  <2>4. PICK m \in Nat : m = Len(group) /\ DOMAIN group = 1 .. m
    BY Places, Zenon
  <2>5. /\ more \in Seq(Row) /\ Len(more) = m + 1
        /\ \A i \in 1 .. m : more[i] = group[i]
        /\ more[m + 1] = row
    BY <2>2, <2>4, AppendProperties
  <2>6. DOMAIN more = 1 .. m + 1 /\ \A i : i \in 1 .. m + 1 <=> i \in 1 .. m \/ i = m + 1
    <3>1. DOMAIN more = 1 .. m + 1
      BY <2>5, Places, Zenon
    <3>2. QED
      BY <2>4, <3>1, SMT
  <2>7. FirstFit(new, g, row)
    <3>1. Fits(row, new[g])
      BY <1>6, <2>1, <2>2, <2>3, FitsAfter, Zenon
    <3>2. ASSUME NEW h \in DOMAIN new, h < g PROVE ~ Fits(row, new[h])
      <4>1. h # g
        BY <1>3, <1>6, <2>3, <3>2, SMT
      <4>2. QED
        BY <1>6, <2>3, <3>2, <4>1, Zenon
    <3>3. QED
      BY <1>6, <2>3, <3>1, <3>2, Zenon DEF FirstFit
  <2>8. ASSUME NEW h, NEW x PROVE Within(new, h, x) <=> Within(groups, h, x) \/ (h = g /\ x = row)
    <3>1. CASE h # g
      BY <2>3, <3>1, Zenon DEF Within
    <3>2. CASE h = g
      <4>1. (\E p \in DOMAIN more : more[p] = x) <=> (\E p \in DOMAIN group : group[p] = x) \/ x = row
        BY <2>4, <2>5, <2>6, Zenon
      <4>2. QED
        BY <1>6, <2>1, <2>3, <3>2, <4>1, Zenon DEF Within
    <3>3. QED
      BY <3>1, <3>2, Zenon
  <2>9. ASSUME NEW h, FirstFit(groups, h, row) PROVE h = g
    <3>1. h \in 1 .. n /\ g \in 1 .. n /\ ~ (h < g) /\ ~ (g < h)
      BY <1>3, <1>6, <2>9, Zenon DEF FirstFit
    <3>2. QED
      BY <3>1, SMT
  <2>10. QED
    BY <2>7, <2>8, <2>9, Zenon
<1>7. QED
  BY <1>4, <1>5, <1>6, JoinIs, Zenon

-----------------------------------------------------------------------------
(* Leaks: the same rows in another order                                    *)

RowSet(list) == {list[i] : i \in DOMAIN list}

\* No row comes twice.
Once(list) == \A i, j \in DOMAIN list : list[i] = list[j] => i = j

\* Two lists of the same rows, each of them once.
Permuted(list, other) ==
  /\ list \in Seq(Row) /\ other \in Seq(Row)
  /\ Once(list) /\ Once(other)
  /\ RowSet(list) = RowSet(other)

LEMMA PermutedBack ==
  ASSUME NEW list, NEW other, Permuted(list, other)
  PROVE  Permuted(other, list)
BY Zenon DEF Permuted

\* What is counted and summed up over the places of a list is so over its rows.
LEMMA OnceCounts ==
  ASSUME NEW list \in Seq(Row), Once(list)
  PROVE  /\ IsFiniteSet(RowSet(list)) /\ Cardinality(RowSet(list)) = Len(list)
         /\ Spent(list) = SumFunctionOnSet([row \in RowSet(list) |-> row.amount], RowSet(list))
<1>1. PICK n \in Nat : n = Len(list) /\ DOMAIN list = 1 .. n /\ \A i \in 1 .. n : list[i] \in Row
  BY Places, Zenon
<1>2. PICK S : S = RowSet(list)
  OBVIOUS
<1>3. PICK f : f = [i \in 1 .. n |-> list[i].amount]
  OBVIOUS
<1>4. PICK g : g = [row \in S |-> row.amount]
  OBVIOUS
<1>5. S = {list[i] : i \in 1 .. n}
  BY <1>1, <1>2, Zenon DEF RowSet
<1>6. \A i, j \in 1 .. n : list[i] = list[j] => i = j
  BY <1>1, Zenon DEF Once
<1>7. \A i \in 1 .. n : f[i] = g[list[i]] /\ f[i] \in Nat
  <2>1. SUFFICES ASSUME NEW i \in 1 .. n PROVE f[i] = g[list[i]] /\ f[i] \in Nat
    OBVIOUS
  <2>2. f[i] = list[i].amount /\ g[list[i]] = list[i].amount
    BY <1>3, <1>4, <1>5, Zenon
  <2>3. list[i].amount \in Nat
    BY <1>1, RowFields, SMT
  <2>4. QED
    BY <2>2, <2>3, Zenon
<1>8. IsFiniteSet(1 .. n)
  BY FS_Interval
<1>9. IsFiniteSet(S) /\ Cardinality(S) = n
  <2>1. [i \in 1 .. n |-> list[i]] \in Bijection(1 .. n, S)
    BY <1>5, <1>6 DEF Bijection, Injection, Surjection, IsInjective
  <2>2. ExistsBijection(1 .. n, S)
    BY <2>1, Zenon DEF ExistsBijection
  <2>3. Cardinality(1 .. n) = n
    BY FS_Interval
  <2>4. QED
    BY <1>8, <2>2, <2>3, FS_Bijection, Zenon
<1>10. Spent(list) = SumFunctionOnSet(f, 1 .. n)
  BY <1>1, <1>3, Zenon DEF Spent, SumFunction
<1>11. SumFunctionOnSet(f, 1 .. n) = SumFunctionOnSet(g, S)
  <2>1. SumFunctionOnSet(f, 1 .. n) = SumFunctionOnSet(g, {list[x] : x \in 1 .. n})
    BY <1>6, <1>7, <1>8, SumIsRenamed
  <2>2. QED
    BY <1>5, <2>1, Zenon
<1>12. QED
  BY <1>1, <1>2, <1>4, <1>9, <1>10, <1>11, Zenon

LEMMA PermutedSums ==
  ASSUME NEW list, NEW other, Permuted(list, other)
  PROVE  Len(other) = Len(list) /\ Spent(other) = Spent(list) /\ Ids(other) = Ids(list)
<1>1. Len(other) = Len(list) /\ Spent(other) = Spent(list)
  BY OnceCounts, Zenon DEF Permuted
<1>2. ASSUME NEW one PROVE Ids(one) = {row.id : row \in RowSet(one)}
  BY Zenon DEF Ids, RowSet
<1>3. QED
  BY <1>1, <1>2, Zenon DEF Permuted

LEMMA PlacesRows ==
  ASSUME NEW list \in Seq(Row), NEW S \in SUBSET DOMAIN list
  PROVE  /\ AtPlaces(list, S) \in Seq(Row)
         /\ RowSet(AtPlaces(list, S)) = {list[i] : i \in S}
         /\ Once(list) => Once(AtPlaces(list, S))
<1>1. PICK c, part : c = Cardinality(S) /\ part = AtPlaces(list, S)
  OBVIOUS
<1>2. /\ part \in Seq(Row) /\ Len(part) = c
      /\ \A k \in 1 .. c : Place(S, k) \in S /\ part[k] = list[Place(S, k)]
      /\ \A k, l \in 1 .. c : k < l => Place(S, k) < Place(S, l)
      /\ \A i \in S : \E k \in 1 .. c : Place(S, k) = i
  BY <1>1, AtPlacesProperties, ZenonT(60)
<1>3. c \in Nat /\ DOMAIN part = 1 .. c
  BY <1>2, Places, Zenon
<1>4. RowSet(part) = {list[i] : i \in S}
  <2>1. ASSUME NEW k \in 1 .. c PROVE part[k] \in {list[i] : i \in S}
    BY <1>2, Zenon
  <2>2. ASSUME NEW i \in S PROVE list[i] \in {part[k] : k \in 1 .. c}
    <3>1. PICK k \in 1 .. c : Place(S, k) = i
      BY <1>2, Zenon
    <3>2. part[k] = list[i]
      BY <1>2, <3>1, Zenon
    <3>3. QED
      BY <3>2, Zenon
  <2>3. QED
    BY <1>3, <2>1, <2>2, Zenon DEF RowSet
<1>5. ASSUME Once(list), NEW k \in 1 .. c, NEW l \in 1 .. c, part[k] = part[l] PROVE k = l
  <2>1. Place(S, k) = Place(S, l) /\ Place(S, k) \in S
    BY <1>2, <1>5, Zenon DEF Once
  <2>2. PICK p \in Nat : p = Place(S, k)
    <3>1. DOMAIN list \in SUBSET Nat
      BY Places, Zenon
    <3>2. QED
      BY <2>1, <3>1, Zenon
  <2>3. ~ (p < p)
    BY <2>2, SMT
  <2>4. ~ (k < l) /\ ~ (l < k)
    BY <1>2, <2>1, <2>2, <2>3, Zenon
  <2>5. QED
    BY <1>3, <2>4, SMT
<1>6. QED
  BY <1>1, <1>2, <1>3, <1>4, <1>5, Zenon DEF Once

LEMMA PermutedPlaces ==
  ASSUME NEW list, NEW other, Permuted(list, other),
         NEW S \in SUBSET DOMAIN list, NEW T \in SUBSET DOMAIN other,
         {list[i] : i \in S} = {other[i] : i \in T}
  PROVE  Permuted(AtPlaces(list, S), AtPlaces(other, T))
<1>1. /\ list \in Seq(Row) /\ other \in Seq(Row) /\ Once(list) /\ Once(other)
  BY Zenon DEF Permuted
<1>2. PICK a, b : a = AtPlaces(list, S) /\ b = AtPlaces(other, T)
  OBVIOUS
<1>3. a \in Seq(Row) /\ Once(a) /\ RowSet(a) = {list[i] : i \in S}
  BY <1>1, <1>2, PlacesRows, Zenon
<1>4. b \in Seq(Row) /\ Once(b) /\ RowSet(b) = {other[i] : i \in T}
  BY <1>1, <1>2, PlacesRows, Zenon
<1>5. QED
  BY <1>2, <1>3, <1>4, Zenon DEF Permuted

\* A test of the row alone passes the same rows.
LEMMA PermutedPass ==
  ASSUME NEW list, NEW other, Permuted(list, other), NEW Q
  PROVE  Permuted(AtPlaces(list, {i \in DOMAIN list : list[i] \in Q}),
                  AtPlaces(other, {i \in DOMAIN other : other[i] \in Q}))
<1>1. PICK S, T : S = {i \in DOMAIN list : list[i] \in Q} /\ T = {i \in DOMAIN other : other[i] \in Q}
  OBVIOUS
<1>2. S \in SUBSET DOMAIN list /\ T \in SUBSET DOMAIN other
  BY <1>1, Zenon
<1>3. {list[i] : i \in S} = {other[i] : i \in T}
  <2>1. {list[i] : i \in S} = {row \in RowSet(list) : row \in Q}
    BY <1>1, Zenon DEF RowSet
  <2>2. {other[i] : i \in T} = {row \in RowSet(other) : row \in Q}
    BY <1>1, Zenon DEF RowSet
  <2>3. RowSet(list) = RowSet(other)
    BY Zenon DEF Permuted
  <2>4. QED
    BY <2>1, <2>2, <2>3, Zenon
<1>4. Permuted(AtPlaces(list, S), AtPlaces(other, T))
  BY <1>2, <1>3, PermutedPlaces, Zenon
<1>5. QED
  BY <1>1, <1>4, Zenon

LEMMA ReverseIs ==
  ASSUME NEW list \in Seq(Row), Once(list)
  PROVE  Permuted(list, Reverse(list))
<1>1. PICK n \in Nat : n = Len(list) /\ DOMAIN list = 1 .. n /\ \A i \in 1 .. n : list[i] \in Row
  BY Places, Zenon
<1>2. PICK back : back = Reverse(list)
  OBVIOUS
<1>3. back = [i \in 1 .. n |-> list[(n - i) + 1]]
  BY <1>1, <1>2, Zenon DEF Reverse
<1>4. \A i \in 1 .. n : (n - i) + 1 \in 1 .. n /\ (n - ((n - i) + 1)) + 1 = i
  BY SMT
<1>5. back \in Seq(Row) /\ DOMAIN back = 1 .. n /\ \A i \in 1 .. n : back[i] = list[(n - i) + 1]
  <2>1. back \in [1 .. n -> Row]
    BY <1>1, <1>3, <1>4, Zenon
  <2>2. back \in Seq(Row)
    BY <2>1, SMT
  <2>3. QED
    BY <1>3, <2>1, <2>2, Zenon
<1>6. RowSet(back) = RowSet(list)
  <2>1. ASSUME NEW i \in 1 .. n PROVE back[i] \in RowSet(list) /\ list[i] \in RowSet(back)
    <3>1. PICK j \in 1 .. n : j = (n - i) + 1 /\ (n - j) + 1 = i
      BY <1>4, Zenon
    <3>2. back[i] = list[j] /\ back[j] = list[i]
      BY <1>5, <3>1, Zenon
    <3>3. QED
      BY <1>1, <1>5, <3>2, Zenon DEF RowSet
  <2>2. QED
    BY <1>1, <1>5, <2>1, Zenon DEF RowSet
<1>7. Once(back)
  <2>1. SUFFICES ASSUME NEW i \in 1 .. n, NEW j \in 1 .. n, back[i] = back[j] PROVE i = j
    BY <1>5, Zenon DEF Once
  <2>2. PICK p \in 1 .. n, q \in 1 .. n : p = (n - i) + 1 /\ q = (n - j) + 1
    BY <1>4, Zenon
  <2>3. list[p] = list[q]
    BY <1>5, <2>1, <2>2, Zenon
  <2>4. p = q
    BY <1>1, <2>3, Zenon DEF Once
  <2>5. QED
    BY <2>2, <2>4, SMT
<1>8. QED
  BY <1>2, <1>5, <1>6, <1>7, Zenon DEF Permuted

-----------------------------------------------------------------------------
(* Leaks: the order of days                                                 *)

Before(row, other) == row.day < other.day \/ (row.day = other.day /\ row.id < other.id)

InOrder(list) == \A k, l \in DOMAIN list : k < l => Before(list[k], list[l])

LEMMA BeforeIsStrict ==
  /\ \A row, other \in Row : ~ (Before(row, other) /\ Before(other, row))
  /\ \A row \in Row : ~ Before(row, row)
<1>1. ASSUME NEW row \in Row, NEW other \in Row, Before(row, other), Before(other, row) PROVE FALSE
  <2>1. /\ row.day \in Nat /\ other.day \in Nat
        /\ row.id \in 1 .. MaxRows /\ other.id \in 1 .. MaxRows /\ MaxRows \in Nat
    BY RowFields, LeakConstants, Zenon
  <2>2. QED
    BY <1>1, <2>1, SMT DEF Before
<1>2. QED
  BY <1>1, Zenon

\* There is one list of some rows that is in order.
LEMMA OrderIsOne ==
  ASSUME NEW list \in Seq(Row), NEW other \in Seq(Row), InOrder(list), InOrder(other),
         RowSet(list) = RowSet(other)
  PROVE  list = other
<1>1. PICK n \in Nat : n = Len(list) /\ DOMAIN list = 1 .. n /\ \A i \in 1 .. n : list[i] \in Row /\ i \in Nat
  BY Places, Zenon
<1>2. PICK m \in Nat : m = Len(other) /\ DOMAIN other = 1 .. m /\ \A i \in 1 .. m : other[i] \in Row /\ i \in Nat
  BY Places, Zenon
<1>3. Once(list) /\ Once(other)
  <2>1. ASSUME NEW one \in Seq(Row), InOrder(one), NEW i \in DOMAIN one, NEW j \in DOMAIN one, one[i] = one[j]
        PROVE  i = j
    <3>1. PICK k \in Nat : DOMAIN one = 1 .. k /\ \A p \in 1 .. k : one[p] \in Row
      BY Places, Zenon
    <3>2. ~ Before(one[i], one[j]) /\ ~ Before(one[j], one[i])
      BY <2>1, <3>1, BeforeIsStrict, Zenon
    <3>3. ~ (i < j) /\ ~ (j < i)
      BY <2>1, <3>2, Zenon DEF InOrder
    <3>4. QED
      BY <3>1, <3>3, SMT
  <2>2. QED
    BY <2>1, Zenon DEF Once
<1>4. m = n
  BY <1>1, <1>2, <1>3, OnceCounts, Zenon
<1> DEFINE bad == {k \in 1 .. n : list[k] # other[k]}
<1>5. ASSUME bad # {} PROVE FALSE
  <2>1. bad \in SUBSET Nat
    BY <1>1, Zenon
  <2>2. PICK k \in bad : \A l \in bad : k <= l
    <3> HIDE DEF bad
    <3> QED BY <1>5, <2>1, LeastOf
  <2>3. k \in 1 .. n /\ list[k] # other[k] /\ \A l \in 1 .. n : l < k => list[l] = other[l]
    <3>1. ASSUME NEW l \in 1 .. n, l < k PROVE list[l] = other[l]
      <4>1. ~ (k <= l)
        BY <2>1, <2>2, <3>1, SMT
      <4>2. QED
        BY <2>2, <4>1, Zenon
    <3>2. QED
      BY <2>2, <3>1, Zenon
  <2>4. ASSUME NEW a, NEW b, DOMAIN a = 1 .. n, DOMAIN b = 1 .. n, RowSet(a) = RowSet(b), Once(a), InOrder(b),
               a[k] # b[k], \A l \in 1 .. n : l < k => a[l] = b[l]
        PROVE  Before(b[k], a[k])
    <3>1. PICK j \in 1 .. n : a[k] = b[j]
      BY <2>3, <2>4, Zenon DEF RowSet
    <3>2. j # k
      BY <2>4, <3>1, Zenon
    <3>3. ~ (j < k)
      <4>1. ASSUME j < k PROVE FALSE
        <5>1. a[j] = a[k]
          BY <2>4, <3>1, <4>1, Zenon
        <5>2. QED
          BY <2>3, <2>4, <3>2, <5>1, Zenon DEF Once
      <4>2. QED
        BY <4>1, Zenon
    <3>4. k < j
      BY <2>3, <3>2, <3>3, SMT
    <3>5. QED
      BY <2>3, <2>4, <3>1, <3>4, Zenon DEF InOrder
  <2>5. Before(other[k], list[k])
    BY <1>1, <1>2, <1>3, <1>4, <2>3, <2>4, Zenon
  <2>6. Before(list[k], other[k])
    BY <1>1, <1>2, <1>3, <1>4, <2>3, <2>4, Zenon
  <2>7. QED
    BY <1>1, <1>2, <1>4, <2>3, <2>5, <2>6, BeforeIsStrict, Zenon
<1>6. \A k \in 1 .. n : list[k] = other[k]
  BY <1>5, Zenon
<1>7. QED
  BY <1>1, <1>2, <1>4, <1>6, SeqEqual

LEMMA InOrderPart ==
  ASSUME NEW list \in Seq(Row), InOrder(list), NEW S \in SUBSET DOMAIN list
  PROVE  InOrder(AtPlaces(list, S))
<1>1. PICK c, part : c = Cardinality(S) /\ part = AtPlaces(list, S)
  OBVIOUS
<1>2. /\ part \in Seq(Row) /\ Len(part) = c
      /\ \A k \in 1 .. c : Place(S, k) \in S /\ part[k] = list[Place(S, k)]
      /\ \A k, l \in 1 .. c : k < l => Place(S, k) < Place(S, l)
  BY <1>1, AtPlacesProperties, ZenonT(60)
<1>3. DOMAIN part = 1 .. c
  BY <1>2, Places, Zenon
<1>4. QED
  BY <1>1, <1>2, <1>3, Zenon DEF InOrder

\* Sorting changes the places of rows only.
LEMMA SortedPermutes ==
  ASSUME NEW list \in Seq(Row), Once(list), NEW key \in [1 .. Len(list) -> Int]
  PROVE  Permuted(list, SortedBy(list, key))
<1>1. PICK n \in Nat : n = Len(list) /\ DOMAIN list = 1 .. n /\ \A i \in 1 .. n : list[i] \in Row
  BY Places, Zenon
<1>2. PICK sorted : sorted = SortedBy(list, key)
  OBVIOUS
<1>3. /\ sorted \in Seq(Row) /\ Len(sorted) = n
      /\ \A k \in 1 .. n : StablePlace(key, k) \in 1 .. n /\ sorted[k] = list[StablePlace(key, k)]
      /\ \A k, l \in 1 .. n : k < l => Earlier(key, StablePlace(key, k), StablePlace(key, l))
      /\ \A i \in 1 .. n : \E k \in 1 .. n : StablePlace(key, k) = i
  <2>1. /\ sorted \in Seq(Row) /\ Len(sorted) = Len(list)
        /\ \A k \in 1 .. Len(list) : StablePlace(key, k) \in 1 .. Len(list) /\ sorted[k] = list[StablePlace(key, k)]
        /\ \A k, l \in 1 .. Len(list) : k < l => Earlier(key, StablePlace(key, k), StablePlace(key, l))
        /\ \A i \in 1 .. Len(list) : \E k \in 1 .. Len(list) : StablePlace(key, k) = i
    BY <1>2, SortedByProperties, ZenonT(60)
  <2>2. QED
    BY <1>1, <2>1, Zenon
<1>4. DOMAIN sorted = 1 .. n
  BY <1>3, Places, Zenon
<1>5. RowSet(sorted) = RowSet(list)
  <2>1. ASSUME NEW k \in 1 .. n PROVE sorted[k] \in {list[i] : i \in 1 .. n}
    BY <1>3, Zenon
  <2>2. ASSUME NEW i \in 1 .. n PROVE list[i] \in {sorted[k] : k \in 1 .. n}
    <3>1. PICK k \in 1 .. n : StablePlace(key, k) = i
      BY <1>3, Zenon
    <3>2. sorted[k] = list[i]
      BY <1>3, <3>1, Zenon
    <3>3. QED
      BY <3>2, Zenon
  <2>3. QED
    BY <1>1, <1>4, <2>1, <2>2, Zenon DEF RowSet
<1>6. ASSUME NEW k \in 1 .. n, NEW l \in 1 .. n, sorted[k] = sorted[l] PROVE k = l
  <2>1. PICK i \in 1 .. n : i = StablePlace(key, k) /\ i = StablePlace(key, l)
    BY <1>1, <1>3, <1>6, Zenon DEF Once
  <2>2. ~ Earlier(key, i, i)
    <3>1. PICK x \in Int : x = key[i]
      BY <1>1, Zenon
    <3>2. ~ (x < x) /\ ~ (i < i)
      BY <3>1, SMT
    <3>3. QED
      BY <3>1, <3>2, Zenon DEF Earlier
  <2>3. ~ Earlier(key, StablePlace(key, k), StablePlace(key, l)) /\ ~ Earlier(key, StablePlace(key, l), StablePlace(key, k))
    BY <2>1, <2>2, Zenon
  <2>4. ~ (k < l) /\ ~ (l < k)
    BY <1>3, <2>3, Zenon
  <2>5. QED
    BY <2>4, SMT
<1>7. QED
  BY <1>2, <1>3, <1>4, <1>5, <1>6, Zenon DEF Permuted, Once

\* Rows of one day are listed in the order of their ids.
Listed(list) == \A i, j \in DOMAIN list : i < j /\ list[i].day = list[j].day => list[i].id < list[j].id

LEMMA ByDayIs ==
  ASSUME NEW list \in Seq(Row), Once(list)
  PROVE  /\ Permuted(list, ByDay(list))
         /\ Listed(list) => InOrder(ByDay(list))
<1>1. PICK n \in Nat : n = Len(list) /\ DOMAIN list = 1 .. n /\ \A i \in 1 .. n : list[i] \in Row
  BY Places, Zenon
<1>2. PICK day : day = [i \in DOMAIN list |-> list[i].day]
  OBVIOUS
<1>3. \A i \in 1 .. n : list[i].day \in Int
  BY <1>1, RowFields, SMT
<1>4. day \in [1 .. Len(list) -> Int] /\ \A i \in 1 .. n : day[i] = list[i].day
  BY <1>1, <1>2, <1>3, Zenon
<1>5. PICK sorted : sorted = SortedBy(list, day)
  OBVIOUS
<1>6. ByDay(list) = sorted
  BY <1>2, <1>5, Zenon DEF ByDay
<1>7. Permuted(list, sorted)
  BY <1>4, <1>5, SortedPermutes, Zenon
<1>8. /\ sorted \in Seq(Row) /\ Len(sorted) = Len(list)
      /\ \A k \in 1 .. Len(list) : StablePlace(day, k) \in 1 .. Len(list) /\ sorted[k] = list[StablePlace(day, k)]
      /\ \A k, l \in 1 .. Len(list) : k < l => Earlier(day, StablePlace(day, k), StablePlace(day, l))
  BY <1>4, <1>5, SortedByProperties, ZenonT(60)
<1>9. DOMAIN sorted = 1 .. n
  BY <1>1, <1>8, Places, Zenon
<1>10. ASSUME Listed(list) PROVE InOrder(sorted)
  <2>1. SUFFICES ASSUME NEW k \in 1 .. n, NEW l \in 1 .. n, k < l PROVE Before(sorted[k], sorted[l])
    BY <1>9, Zenon DEF InOrder
  <2>2. PICK i \in 1 .. n, j \in 1 .. n : i = StablePlace(day, k) /\ j = StablePlace(day, l)
    BY <1>1, <1>8, Zenon
  <2>3. Earlier(day, i, j) /\ sorted[k] = list[i] /\ sorted[l] = list[j]
    BY <1>1, <1>8, <2>1, <2>2, Zenon
  <2>4. list[i].day < list[j].day \/ (list[i].day = list[j].day /\ i < j)
    BY <1>4, <2>3, Zenon DEF Earlier
  <2>5. QED
    BY <1>1, <1>10, <2>3, <2>4, Zenon DEF Before, Listed
<1>11. QED
  BY <1>6, <1>7, <1>10, Zenon

\* Rows of different days are in the same order whatever their order was.
LEMMA PermutedByDay ==
  ASSUME NEW list, NEW other, Permuted(list, other),
         \A row, rest \in RowSet(list) : row # rest => row.day # rest.day
  PROVE  ByDay(other) = ByDay(list)
<1>1. ASSUME NEW one \in Seq(Row), Once(one), RowSet(one) = RowSet(list) PROVE Listed(one)
  <2>1. SUFFICES ASSUME NEW i \in DOMAIN one, NEW j \in DOMAIN one, i < j PROVE one[i].day # one[j].day
    BY Zenon DEF Listed
  <2>2. i # j
    <3>1. i \in Nat
      BY Places, Zenon
    <3>2. QED
      BY <2>1, <3>1, SMT
  <2>3. one[i] # one[j] /\ one[i] \in RowSet(list) /\ one[j] \in RowSet(list)
    BY <1>1, <2>2, Zenon DEF Once, RowSet
  <2>4. QED
    BY <2>3, Zenon
<1>2. PICK a, b : a = ByDay(list) /\ b = ByDay(other)
  OBVIOUS
<1>3. Permuted(list, a) /\ InOrder(a)
  BY <1>1, <1>2, ByDayIs, Zenon DEF Permuted
<1>4. Permuted(other, b) /\ InOrder(b)
  BY <1>1, <1>2, ByDayIs, Zenon DEF Permuted
<1>5. a \in Seq(Row) /\ b \in Seq(Row) /\ RowSet(a) = RowSet(b)
  BY <1>3, <1>4, Zenon DEF Permuted
<1>6. a = b
  BY <1>3, <1>4, <1>5, OrderIsOne, Zenon
<1>7. QED
  BY <1>2, <1>6, Zenon

-----------------------------------------------------------------------------
(* Leaks: equal charges meet in one group                                   *)

\* The groups of the first n of the rows: each row is in one of them, equal ones are in
\* the same, and the last has the first group that it fits.
Clustered(groups, row, n) ==
  /\ \A k \in 1 .. n : \E g : Within(groups, g, row[k])
  /\ \A g, x : Within(groups, g, x) => \E k \in 1 .. n : x = row[k]
  /\ \A g, h, x : Within(groups, g, x) /\ Within(groups, h, x) => g = h
  /\ \A k, l \in 1 .. n : \A g, h :
       row[k].amount = row[l].amount /\ Within(groups, g, row[k]) /\ Within(groups, h, row[l]) => g = h
  /\ n # 0 => \E g : Within(groups, g, row[n]) /\ FirstFit(groups, g, row[n])

LEMMA OnlyTheirs ==
  ASSUME NEW groups, NEW row, NEW n, Clustered(groups, row, n), NEW g, NEW x, Within(groups, g, x)
  PROVE  \E k \in 1 .. n : x = row[k]
BY Zenon DEF Clustered

\* Rows by amount, each of them once.
ByAmounts(row) ==
  /\ row \in Seq(Row) /\ Once(row)
  /\ \A k, l \in DOMAIN row : k < l => row[k].amount <= row[l].amount

LEMMA JoinClusters ==
  ASSUME NEW row, ByAmounts(row), NEW n \in DOMAIN row,
         NEW groups \in Seq(Seq(Row)), Clustered(groups, row, n - 1)
  PROVE  Clustered(Join(groups, row[n]), row, n)
<1>1. PICK N \in Nat : DOMAIN row = 1 .. N /\ \A k \in 1 .. N : row[k] \in Row
  BY Places, Zenon DEF ByAmounts
<1>2. \A k \in 1 .. n : k \in 1 .. n - 1 \/ k = n
  BY <1>1, SMT
<1>3. \A k \in 1 .. n - 1 : k \in 1 .. n /\ k \in 1 .. N /\ k # n /\ k < n
  BY <1>1, SMT
<1>4. n \in 1 .. n /\ n \in 1 .. N /\ n # 0
  BY <1>1, SMT
<1>5. PICK new : new = Join(groups, row[n])
  OBVIOUS
<1>6. PICK G : /\ FirstFit(new, G, row[n])
               /\ \A h, x : Within(new, h, x) <=> Within(groups, h, x) \/ (h = G /\ x = row[n])
               /\ \A h : FirstFit(groups, h, row[n]) => h = G
  <2>1. PICK r \in Row : r = row[n]
    BY <1>1, <1>4, Zenon
  <2>2. new = Join(groups, r)
    BY <1>5, <2>1, Zenon
  <2>3. PICK G : /\ FirstFit(Join(groups, r), G, r)
                 /\ \A h, x : Within(Join(groups, r), h, x) <=> Within(groups, h, x) \/ (h = G /\ x = r)
                 /\ \A h : FirstFit(groups, h, r) => h = G
    BY JoinWithin
  <2>4. QED
    BY <2>1, <2>2, <2>3, Zenon
<1>7. \A k \in 1 .. n - 1 : row[k] # row[n]
  BY <1>1, <1>3, <1>4, Zenon DEF ByAmounts, Once
<1>8. \A h : ~ Within(groups, h, row[n])
  BY <1>7, Zenon DEF Clustered
<1>9. \A h : \A k \in 1 .. n - 1 : Within(new, h, row[k]) <=> Within(groups, h, row[k])
  BY <1>6, <1>7, Zenon
<1>10. \A h : Within(new, h, row[n]) <=> h = G
  BY <1>6, <1>8, Zenon
<1>11. ASSUME NEW k \in 1 .. n PROVE \E g : Within(new, g, row[k])
  <2>1. CASE k \in 1 .. n - 1
    <3>1. PICK g : Within(groups, g, row[k])
      BY <2>1, Zenon DEF Clustered
    <3>2. QED
      BY <1>9, <2>1, <3>1, Zenon
  <2>2. CASE k = n
    BY <1>10, <2>2, Zenon
  <2>3. QED
    BY <1>2, <2>1, <2>2, Zenon
<1>12. ASSUME NEW g, NEW x, Within(new, g, x) PROVE \E k \in 1 .. n : x = row[k]
  <2>1. CASE Within(groups, g, x)
    <3>1. PICK k \in 1 .. n - 1 : x = row[k]
      BY <2>1, Zenon DEF Clustered
    <3>2. k \in 1 .. n
      BY <1>3, Zenon
    <3>3. QED
      BY <3>1, <3>2, Zenon
  <2>2. CASE x = row[n]
    BY <1>4, <2>2, Zenon
  <2>3. QED
    BY <1>6, <1>12, <2>1, <2>2, Zenon
<1>13. ASSUME NEW g, NEW h, NEW x, Within(new, g, x), Within(new, h, x) PROVE g = h
  <2>1. CASE x = row[n]
    <3>1. \A e : ~ Within(groups, e, x)
      BY <1>7, <2>1, Zenon DEF Clustered
    <3>2. g = G /\ h = G
      BY <1>6, <1>13, <3>1, Zenon
    <3>3. QED
      BY <3>2, Zenon
  <2>2. CASE x # row[n]
    <3>1. Within(groups, g, x) /\ Within(groups, h, x)
      <4>1. \A e : Within(new, e, x) => Within(groups, e, x)
        BY <1>6, <2>2, Zenon
      <4>2. QED
        BY <1>13, <4>1, Zenon
    <3>2. QED
      BY <3>1, Zenon DEF Clustered
  <2>3. QED
    BY <2>1, <2>2, Zenon
<1>14. ASSUME NEW k \in 1 .. n - 1, row[k].amount = row[n].amount, NEW h, Within(groups, h, row[k])
       PROVE  h = G
  <2>1. PICK m \in 1 .. n - 1 : m = n - 1
    BY <1>14, <1>1, SMT
  <2>2. m \in 1 .. N /\ k \in 1 .. N
    BY <1>3, Zenon
  <2>3. PICK a \in Nat, b \in Nat, c \in Nat : a = row[k].amount /\ b = row[m].amount /\ c = row[n].amount
    <3>1. ASSUME NEW l \in 1 .. N PROVE row[l].amount \in Nat
      <4>1. PICK r \in Row : r = row[l]
        BY <1>1, Zenon
      <4>2. r.amount \in Nat
        BY RowFields, SMT
      <4>3. QED
        BY <4>1, <4>2, Zenon
    <3>2. QED
      BY <1>4, <2>2, <3>1, Zenon
  <2>4. b <= c
    BY <1>1, <1>3, <1>4, <2>1, <2>2, <2>3, Zenon DEF ByAmounts
  <2>5. a <= b
    <3>1. CASE k = m
      BY <2>3, <3>1, SMT
    <3>2. CASE k # m
      <4>1. k < m
        BY <1>1, <2>1, <3>2, SMT
      <4>2. QED
        BY <1>1, <2>2, <2>3, <4>1, Zenon DEF ByAmounts
    <3>3. QED
      BY <3>1, <3>2, Zenon
  <2>6. b = c /\ a = b
    <3>1. a = c
      BY <1>14, <2>3, Zenon
    <3>2. QED
      BY <2>4, <2>5, <3>1, SMT
  <2>7. PICK g : Within(groups, g, row[m]) /\ FirstFit(groups, g, row[m])
    <3>1. n - 1 # 0
      BY <1>1, <1>14, SMT
    <3>2. QED
      BY <2>1, <3>1, Zenon DEF Clustered
  <2>8. g = h
    BY <1>14, <2>3, <2>6, <2>7, Zenon DEF Clustered
  <2>9. FirstFit(groups, g, row[n])
    <3>1. row[m].amount = row[n].amount
      BY <2>3, <2>6, Zenon
    <3>2. \A one : Fits(row[m], one) <=> Fits(row[n], one)
      BY <3>1, FitsByAmount, Zenon
    <3>3. QED
      BY <2>7, <3>2, Zenon DEF FirstFit
  <2>10. QED
    BY <1>6, <2>8, <2>9, Zenon
<1>15. ASSUME NEW k \in 1 .. n, NEW l \in 1 .. n, NEW g, NEW h, row[k].amount = row[l].amount,
              Within(new, g, row[k]), Within(new, h, row[l])
       PROVE  g = h
  <2>1. CASE k = n /\ l = n
    <3>1. \A x : x = row[n] => \A e : ~ Within(groups, e, x)
      BY <1>7, Zenon DEF Clustered
    <3>2. row[k] = row[n] /\ row[l] = row[n]
      BY <2>1, Zenon
    <3>3. \A e : ~ Within(groups, e, row[k]) /\ ~ Within(groups, e, row[l])
      BY <3>1, <3>2, Zenon
    <3>4. g = G /\ h = G
      BY <1>6, <1>15, <3>3, Zenon
    <3>5. QED
      BY <3>4, Zenon
  <2>2. CASE k # n /\ l = n
    <3>1. k \in 1 .. n - 1 /\ Within(groups, g, row[k]) /\ h = G
      BY <1>2, <1>9, <1>10, <1>15, <2>2, Zenon
    <3>2. QED
      BY <1>14, <1>15, <2>2, <3>1, Zenon
  <2>3. CASE k = n /\ l # n
    <3>1. l \in 1 .. n - 1 /\ Within(groups, h, row[l]) /\ g = G
      BY <1>2, <1>9, <1>10, <1>15, <2>3, Zenon
    <3>2. QED
      BY <1>14, <1>15, <2>3, <3>1, Zenon
  <2>4. CASE k # n /\ l # n
    <3>1. /\ k \in 1 .. n - 1 /\ Within(groups, g, row[k])
          /\ l \in 1 .. n - 1 /\ Within(groups, h, row[l])
      BY <1>2, <1>9, <1>15, <2>4, Zenon
    <3>2. QED
      BY <1>15, <3>1, Zenon DEF Clustered
  <2>5. QED
    BY <2>1, <2>2, <2>3, <2>4, Zenon
<1>16. \E g : Within(new, g, row[n]) /\ FirstFit(new, g, row[n])
  BY <1>6, <1>10, Zenon
<1>17. Clustered(new, row, n)
  BY <1>11, <1>12, <1>13, <1>15, <1>16, Zenon DEF Clustered
<1>18. QED
  BY <1>5, <1>17, Zenon

LEMMA ByAmountOnce ==
  ASSUME NEW list \in Seq(Row), Once(list)
  PROVE  ByAmounts(ByAmount(list)) /\ Permuted(list, ByAmount(list))
<1>1. PICK key : key = [i \in DOMAIN list |-> list[i].amount]
  OBVIOUS
<1>2. PICK sorted : sorted = ByAmount(list)
  OBVIOUS
<1>3. Permuted(list, sorted)
  <2>1. DOMAIN list = 1 .. Len(list) /\ \A i \in 1 .. Len(list) : list[i] \in Row
    BY Places, Zenon
  <2>2. \A i \in 1 .. Len(list) : list[i].amount \in Int
    BY <2>1, RowFields, SMT
  <2>3. key \in [1 .. Len(list) -> Int]
    BY <1>1, <2>1, <2>2, Zenon
  <2>4. Permuted(list, SortedBy(list, key))
    BY <2>3, SortedPermutes, Zenon
  <2>5. QED
    BY <1>1, <1>2, <2>4, Zenon DEF ByAmount
<1>4. /\ sorted \in Seq(Row) /\ Len(sorted) = Len(list)
      /\ \A k, l \in 1 .. Len(list) : k < l => sorted[k].amount <= sorted[l].amount
  BY <1>2, ByAmountIs, Zenon
<1>5. DOMAIN sorted = 1 .. Len(list)
  BY <1>4, Places, Zenon
<1>6. ByAmounts(sorted)
  BY <1>3, <1>4, <1>5, Zenon DEF ByAmounts, Permuted
<1>7. QED
  BY <1>2, <1>3, <1>6, Zenon

\* The groups are so after each row.
LEMMA GroupsClustered ==
  ASSUME NEW list \in Seq(Row), Once(list), NEW f, Grouping(f, list), NEW n \in 0 .. Len(list)
  PROVE  Clustered(f[n], ByAmount(list), n)
<1>1. PICK row : row = ByAmount(list)
  OBVIOUS
<1>2. PICK N \in Nat : N = Len(list)
  BY Places, Zenon
<1>3. ByAmounts(row) /\ DOMAIN row = 1 .. N
  <2>1. row \in Seq(Row) /\ Len(row) = N
    BY <1>1, <1>2, ByAmountIs, Zenon
  <2>2. QED
    BY <1>1, <2>1, Places, ByAmountOnce, Zenon
<1> DEFINE bad == {m \in 0 .. N : ~ Clustered(f[m], row, m)}
<1>4. ASSUME bad # {} PROVE FALSE
  <2>1. bad \in SUBSET Nat
    BY <1>2, SMT
  <2>2. PICK m \in bad : \A k \in bad : m <= k
    <3> HIDE DEF bad
    <3> QED BY <1>4, <2>1, LeastOf
  <2>3. m # 0
    <3>1. ASSUME m = 0 PROVE FALSE
      <4>1. f[m] = << >> /\ DOMAIN f[m] = {}
        BY <3>1, SMT DEF Grouping
      <4>2. \A g, x : ~ Within(f[m], g, x)
        BY <4>1, Zenon DEF Within
      <4>3. 1 .. m = {}
        BY <3>1, SMT
      <4>4. Clustered(f[m], row, m)
        BY <3>1, <4>2, <4>3, Zenon DEF Clustered
      <4>5. QED
        BY <2>2, <4>4, Zenon
    <3>2. QED
      BY <3>1, Zenon
  <2>4. m \in 1 .. N /\ m - 1 \in 0 .. N /\ ~ (m <= m - 1)
    BY <1>2, <2>2, <2>3, SMT
  <2>5. PICK old : old = f[m - 1]
    OBVIOUS
  <2>6. old \in Seq(Seq(Row)) /\ f[m] = Join(old, row[m])
    BY <1>1, <1>2, <2>4, <2>5, Zenon DEF Grouping
  <2>7. Clustered(old, row, m - 1)
    BY <2>2, <2>4, <2>5, Zenon
  <2>8. Clustered(f[m], row, m)
    BY <1>3, <2>4, <2>6, <2>7, JoinClusters, Zenon
  <2>9. QED
    BY <2>2, <2>8, Zenon
<1>5. QED
  BY <1>1, <1>2, <1>4, Zenon

-----------------------------------------------------------------------------
(* Leaks: groups of the same shape                                          *)

\* As many groups, of as many charges each that cost as much.
Like(groups, others) ==
  /\ DOMAIN groups = DOMAIN others
  /\ \A g \in DOMAIN groups : Len(groups[g]) = Len(others[g]) /\ Spent(groups[g]) = Spent(others[g])

LEMMA FitsLike ==
  ASSUME NEW groups, NEW others, Like(groups, others), NEW row, NEW other, row.amount = other.amount,
         NEW g \in DOMAIN groups
  PROVE  Fits(row, groups[g]) <=> Fits(other, others[g])
<1>1. PICK a, b, x, y : /\ a = groups[g] /\ b = others[g] /\ x = row.amount /\ y = Len(a)
                        /\ Len(b) = y /\ Spent(a) = Spent(b) /\ other.amount = x
  BY Zenon DEF Like
<1>2. Fits(row, a) <=> Fits(other, b)
  BY <1>1, SMT DEF Fits
<1>3. QED
  BY <1>1, <1>2, Zenon

LEMMA FirstFitLike ==
  ASSUME NEW groups, NEW others, Like(groups, others), NEW row, NEW other, row.amount = other.amount,
         NEW G, FirstFit(groups, G, row)
  PROVE  FirstFit(others, G, other)
<1>1. \A g \in DOMAIN groups : Fits(row, groups[g]) <=> Fits(other, others[g])
  BY FitsLike, Zenon
<1>2. DOMAIN others = DOMAIN groups
  BY Zenon DEF Like
<1>3. QED
  BY <1>1, <1>2, Zenon DEF FirstFit

LEMMA FirstFitIsOne ==
  ASSUME NEW groups \in Seq(Seq(Row)), NEW row, NEW G, FirstFit(groups, G, row),
         NEW H, FirstFit(groups, H, row)
  PROVE  G = H
<1>1. PICK U : U = Seq(Row)
  OBVIOUS
<1>2. groups \in Seq(U)
  BY <1>1, Zenon
<1>3. PICK n \in Nat : DOMAIN groups = 1 .. n
  BY <1>2, Places, Zenon
<1>4. G \in 1 .. n /\ H \in 1 .. n /\ ~ (G < H) /\ ~ (H < G)
  BY <1>3, Zenon DEF FirstFit
<1>5. QED
  BY <1>4, SMT

\* What an append leaves, with its length by name.
LEMMA AppendedAs ==
  ASSUME NEW S, NEW list \in Seq(S), NEW e \in S, NEW n, n = Len(list), NEW new, new = Append(list, e)
  PROVE  /\ new \in Seq(S) /\ Len(new) = n + 1
         /\ \A i \in 1 .. n : new[i] = list[i]
         /\ new[n + 1] = e
<1>1. /\ Append(list, e) \in Seq(S) /\ Len(Append(list, e)) = Len(list) + 1
      /\ \A i \in 1 .. Len(list) : Append(list, e)[i] = list[i]
      /\ Append(list, e)[Len(list) + 1] = e
  BY AppendProperties
<1>2. QED
  BY <1>1, Zenon

\* The groups after one that has grown, or one more.
LEMMA GrownLike ==
  ASSUME NEW groups \in Seq(Seq(Row)), NEW others \in Seq(Seq(Row)), Like(groups, others),
         NEW row \in Row, NEW other \in Row, row.amount = other.amount
  PROVE  Like(Join(groups, row), Join(others, other))
<1>1. PICK U : U = Seq(Row)
  OBVIOUS
<1>2. groups \in Seq(U) /\ others \in Seq(U)
  BY <1>1, Zenon
<1>3. PICK n \in Nat : n = Len(groups) /\ DOMAIN groups = 1 .. n /\ \A g \in 1 .. n : groups[g] \in U
  BY <1>2, Places, Zenon
<1>4. Len(others) = n /\ DOMAIN others = 1 .. n /\ \A g \in 1 .. n : others[g] \in U
  <2>1. PICK m \in Nat : m = Len(others) /\ DOMAIN others = 1 .. m /\ \A g \in 1 .. m : others[g] \in U
    BY <1>2, Places, Zenon
  <2>2. 1 .. m = 1 .. n
    BY <1>3, <2>1, Zenon DEF Like
  <2>3. m = n
    BY <2>2, SMT
  <2>4. QED
    BY <2>1, <2>3, Zenon
<1>5. \A g \in 1 .. n : Fits(row, groups[g]) <=> Fits(other, others[g])
  BY <1>3, FitsLike, Zenon
<1>6. PICK new, news : new = Join(groups, row) /\ news = Join(others, other)
  OBVIOUS
<1>7. \/ (\A g \in DOMAIN groups : ~ Fits(row, groups[g])) /\ new = Append(groups, <<row>>)
      \/ \E g \in DOMAIN groups :
           /\ Fits(row, groups[g]) /\ \A h \in DOMAIN groups : h < g => ~ Fits(row, groups[h])
           /\ new = [groups EXCEPT ![g] = Append(groups[g], row)]
  BY <1>6, JoinIs, Zenon
<1>8. \/ (\A g \in DOMAIN others : ~ Fits(other, others[g])) /\ news = Append(others, <<other>>)
      \/ \E g \in DOMAIN others :
           /\ Fits(other, others[g]) /\ \A h \in DOMAIN others : h < g => ~ Fits(other, others[h])
           /\ news = [others EXCEPT ![g] = Append(others[g], other)]
  BY <1>6, JoinIs, Zenon
<1>9. CASE \A g \in 1 .. n : ~ Fits(row, groups[g])
  <2>1. new = Append(groups, <<row>>) /\ news = Append(others, <<other>>)
    BY <1>3, <1>4, <1>5, <1>7, <1>8, <1>9, Zenon
  <2>2. PICK one, two : one = <<row>> /\ two = <<other>>
    OBVIOUS
  <2>3. /\ one \in U /\ two \in U /\ Len(one) = 1 /\ Len(two) = 1
        /\ Spent(one) = row.amount /\ Spent(two) = other.amount
    <3>1. one \in U /\ two \in U /\ Len(one) = 1 /\ Len(two) = 1
      BY <1>1, <2>2
    <3>2. QED
      BY <2>2, <3>1, SpentOfOne, Zenon
  <2>4. /\ new \in Seq(U) /\ Len(new) = n + 1
        /\ \A g \in 1 .. n : new[g] = groups[g]
        /\ new[n + 1] = one
    <3>1. new = Append(groups, one)
      BY <2>1, <2>2, Zenon
    <3>2. QED
      BY <1>2, <1>3, <2>3, <3>1, AppendedAs
  <2>5. /\ news \in Seq(U) /\ Len(news) = n + 1
        /\ \A g \in 1 .. n : news[g] = others[g]
        /\ news[n + 1] = two
    <3>1. news = Append(others, two)
      BY <2>1, <2>2, Zenon
    <3>2. QED
      <4>1. two \in U /\ others \in Seq(U)
        BY <1>2, <2>3, Zenon
      <4>2. n = Len(others)
        BY <1>4, Zenon
      <4>3. QED
        BY <3>1, <4>1, <4>2, AppendedAs, SMT
  <2>6. DOMAIN new = 1 .. n + 1 /\ DOMAIN news = 1 .. n + 1
    BY <2>4, <2>5, Places, Zenon
  <2>7. \A g : g \in 1 .. n + 1 <=> g \in 1 .. n \/ g = n + 1
    BY <1>3, SMT
  <2>8. ASSUME NEW g \in 1 .. n PROVE Len(new[g]) = Len(news[g]) /\ Spent(new[g]) = Spent(news[g])
    BY <1>3, <2>4, <2>5, Zenon DEF Like
  <2>9. Len(new[n + 1]) = Len(news[n + 1]) /\ Spent(new[n + 1]) = Spent(news[n + 1])
    BY <2>3, <2>4, <2>5, Zenon
  <2>10. Like(new, news)
    BY <2>6, <2>7, <2>8, <2>9, Zenon DEF Like
  <2>11. QED
    BY <1>6, <2>10, Zenon
<1>10. CASE \E g \in 1 .. n : Fits(row, groups[g])
  <2>1. PICK g \in 1 .. n : /\ Fits(row, groups[g])
                            /\ \A h \in 1 .. n : h < g => ~ Fits(row, groups[h])
                            /\ new = [groups EXCEPT ![g] = Append(groups[g], row)]
    BY <1>3, <1>7, <1>10, Zenon
  <2>2. PICK h \in 1 .. n : /\ Fits(other, others[h])
                            /\ \A k \in 1 .. n : k < h => ~ Fits(other, others[k])
                            /\ news = [others EXCEPT ![h] = Append(others[h], other)]
    BY <1>4, <1>5, <1>8, <1>10, Zenon
  <2>3. g = h
    <3>1. ~ (g < h) /\ ~ (h < g)
      BY <1>5, <2>1, <2>2, Zenon
    <3>2. QED
      BY <1>3, <3>1, SMT
  <2>4. PICK a \in Seq(Row), b \in Seq(Row) : a = groups[g] /\ b = others[g]
    BY <1>1, <1>3, <1>4, Zenon
  <2>5. Len(a) = Len(b) /\ Spent(a) = Spent(b)
    BY <1>3, <2>4, Zenon DEF Like
  <2>6. PICK c, d : c = Append(a, row) /\ d = Append(b, other)
    OBVIOUS
  <2>7. Len(c) = Len(d) /\ Spent(c) = Spent(d)
    <3>1. Len(c) = Len(a) + 1 /\ Len(d) = Len(b) + 1
      BY <2>6, AppendProperties
    <3>2. Spent(c) = Spent(a) + row.amount /\ Spent(d) = Spent(b) + other.amount
      BY <2>6, SpentOfAppend, Zenon
    <3>3. QED
      BY <2>5, <3>1, <3>2, Zenon
  <2>8. DOMAIN new = 1 .. n /\ new[g] = c /\ \A k \in 1 .. n : k # g => new[k] = groups[k]
    BY <1>3, <2>1, <2>4, <2>6
  <2>9. DOMAIN news = 1 .. n /\ news[g] = d /\ \A k \in 1 .. n : k # g => news[k] = others[k]
    BY <1>4, <2>2, <2>3, <2>4, <2>6
  <2>10. ASSUME NEW k \in 1 .. n PROVE Len(new[k]) = Len(news[k]) /\ Spent(new[k]) = Spent(news[k])
    <3>1. CASE k = g
      BY <2>7, <2>8, <2>9, <3>1, Zenon
    <3>2. CASE k # g
      BY <1>3, <2>8, <2>9, <3>2, Zenon DEF Like
    <3>3. QED
      BY <3>1, <3>2, Zenon
  <2>11. Like(new, news)
    BY <2>8, <2>9, <2>10, Zenon DEF Like
  <2>12. QED
    BY <1>6, <2>11, Zenon
<1>11. QED
  BY <1>9, <1>10, Zenon

\* And the rows at each of the first n places are in groups of the same number.
Alike(groups, others, row, other, n) ==
  /\ Like(groups, others)
  /\ \A k \in 1 .. n : \A G : Within(groups, G, row[k]) <=> Within(others, G, other[k])

LEMMA JoinsAlike ==
  ASSUME NEW row, NEW other, ByAmounts(row), ByAmounts(other), DOMAIN row = DOMAIN other,
         NEW n \in DOMAIN row, row[n].amount = other[n].amount,
         NEW groups \in Seq(Seq(Row)), NEW others \in Seq(Seq(Row)),
         Clustered(groups, row, n - 1), Clustered(others, other, n - 1),
         Alike(groups, others, row, other, n - 1)
  PROVE  Alike(Join(groups, row[n]), Join(others, other[n]), row, other, n)
<1>1. PICK N \in Nat : DOMAIN row = 1 .. N /\ \A k \in 1 .. N : row[k] \in Row
  BY Places, Zenon DEF ByAmounts
<1>2. DOMAIN other = 1 .. N /\ \A k \in 1 .. N : other[k] \in Row
  BY <1>1, Places, Zenon DEF ByAmounts
<1>3. PICK r \in Row, u \in Row : r = row[n] /\ u = other[n] /\ r.amount = u.amount
  BY <1>1, <1>2, Zenon
<1>4. PICK new, news : new = Join(groups, r) /\ news = Join(others, u)
  OBVIOUS
<1>5. new \in Seq(Seq(Row)) /\ news \in Seq(Seq(Row))
  BY <1>4, JoinIs
<1>6. Like(new, news)
  BY <1>3, <1>4, GrownLike, Zenon DEF Alike
<1>7. PICK G : /\ FirstFit(Join(groups, r), G, r)
               /\ \A h, x : Within(Join(groups, r), h, x) <=> Within(groups, h, x) \/ (h = G /\ x = r)
               /\ \A h : FirstFit(groups, h, r) => h = G
  BY JoinWithin
<1>8. PICK H : /\ FirstFit(Join(others, u), H, u)
               /\ \A h, x : Within(Join(others, u), h, x) <=> Within(others, h, x) \/ (h = H /\ x = u)
               /\ \A h : FirstFit(others, h, u) => h = H
  BY JoinWithin
<1>9. G = H
  <2>1. FirstFit(news, G, u)
    BY <1>3, <1>4, <1>6, <1>7, FirstFitLike, Zenon
  <2>2. QED
    BY <1>4, <1>5, <1>8, <2>1, FirstFitIsOne
<1>10. \A k \in 1 .. n : k \in 1 .. n - 1 \/ k = n
  BY <1>1, SMT
<1>11. \A k \in 1 .. n - 1 : k \in 1 .. N /\ k # n
  BY <1>1, SMT
<1>12. \A k \in 1 .. n - 1 : row[k] # r /\ other[k] # u
  BY <1>1, <1>2, <1>3, <1>11, Zenon DEF ByAmounts, Once
<1>13. ASSUME NEW k \in 1 .. n - 1, NEW h PROVE Within(new, h, row[k]) <=> Within(news, h, other[k])
  <2>1. Within(new, h, row[k]) <=> Within(groups, h, row[k])
    <3>1. \A x : x # r => (Within(new, h, x) <=> Within(groups, h, x))
      BY <1>4, <1>7, Zenon
    <3>2. QED
      BY <1>12, <3>1, Zenon
  <2>2. Within(news, h, other[k]) <=> Within(others, h, other[k])
    <3>1. \A x : x # u => (Within(news, h, x) <=> Within(others, h, x))
      BY <1>4, <1>8, Zenon
    <3>2. QED
      BY <1>12, <3>1, Zenon
  <2>3. QED
    BY <2>1, <2>2, Zenon DEF Alike
<1>14. ASSUME NEW h PROVE Within(new, h, r) <=> Within(news, h, u)
  <2>1. ~ Within(groups, h, r) /\ ~ Within(others, h, u)
    <3>1. ~ Within(groups, h, r)
      <4>1. Within(groups, h, r) => \E k \in 1 .. n - 1 : r = row[k]
        BY OnlyTheirs
      <4>2. QED
        BY <1>12, <4>1, Zenon
    <3>2. ~ Within(others, h, u)
      <4>1. Within(others, h, u) => \E k \in 1 .. n - 1 : u = other[k]
        BY OnlyTheirs
      <4>2. QED
        BY <1>12, <4>1, Zenon
    <3>3. QED
      BY <3>1, <3>2, Zenon
  <2>2. QED
    BY <1>4, <1>7, <1>8, <1>9, <2>1, Zenon
<1>15. ASSUME NEW k \in 1 .. n, NEW h PROVE Within(new, h, row[k]) <=> Within(news, h, other[k])
  <2>1. CASE k = n
    <3>1. row[k] = r /\ other[k] = u
      BY <1>3, <2>1, Zenon
    <3>2. QED
      BY <1>14, <3>1
  <2>2. QED
    BY <1>10, <1>13, <2>1, Zenon
<1>16. Alike(new, news, row, other, n)
  BY <1>6, <1>15, Zenon DEF Alike
<1>17. QED
  BY <1>3, <1>4, <1>16, Zenon

-----------------------------------------------------------------------------
(* Leaks: duplicates do not hang on the order of rows                       *)

\* Of the same rows by amount, none costs less than the one at the same place.
LEMMA AmountsNotLess ==
  ASSUME NEW row, NEW other, ByAmounts(row), ByAmounts(other), RowSet(row) = RowSet(other),
         NEW N \in Nat, DOMAIN row = 1 .. N, DOMAIN other = 1 .. N, NEW k \in 1 .. N
  PROVE  ~ (row[k].amount < other[k].amount)
<1>1. SUFFICES ASSUME row[k].amount < other[k].amount PROVE FALSE
  OBVIOUS
<1>2. \A i \in 1 .. N : row[i] \in Row /\ other[i] \in Row
  BY Places, Zenon DEF ByAmounts
<1>3. PICK S, T : S = 1 .. k /\ T = 1 .. k - 1
  OBVIOUS
<1>4. ASSUME NEW i \in S PROVE \E j \in T : other[j] = row[i]
  <2>1. i \in 1 .. N /\ (i < k \/ i = k)
    BY <1>3, SMT
  <2>2. PICK j \in 1 .. N : other[j] = row[i]
    BY <2>1, Zenon DEF RowSet
  <2>3. PICK a \in Nat, b \in Nat, c \in Nat :
          a = row[k].amount /\ b = other[k].amount /\ c = row[i].amount /\ c = other[j].amount
    <3>1. ASSUME NEW r \in Row PROVE r.amount \in Nat
      BY RowFields, SMT
    <3>2. QED
      BY <1>2, <2>1, <2>2, <3>1, Zenon
  <2>4. a < b
    BY <1>1, <2>3, Zenon
  <2>5. c <= a
    <3>1. CASE i < k
      BY <2>1, <2>3, <3>1, Zenon DEF ByAmounts
    <3>2. CASE i = k
      <4>1. c = a
        BY <2>3, <3>2, Zenon
      <4>2. QED
        BY <4>1, SMT
    <3>3. QED
      BY <2>1, <3>1, <3>2, Zenon
  <2>6. k < j => b <= c
    BY <2>3, Zenon DEF ByAmounts
  <2>7. k = j => b = c
    BY <2>3, Zenon
  <2>8. j < k
    BY <2>4, <2>5, <2>6, <2>7, SMT
  <2>9. j \in T
    BY <1>3, <2>8, SMT
  <2>10. QED
    BY <2>2, <2>9, Zenon
<1>5. PICK f \in [S -> T] : \A i \in S : other[f[i]] = row[i]
  <2>1. PICK f : f = [i \in S |-> CHOOSE j \in T : other[j] = row[i]]
    OBVIOUS
  <2>2. \A i \in S : f[i] \in T /\ other[f[i]] = row[i]
    BY <1>4, <2>1, Zenon
  <2>3. f \in [S -> T]
    BY <2>1, <2>2, Zenon
  <2>4. QED
    BY <2>2, <2>3, Zenon
<1>6. k \in Nat /\ k - 1 \in Nat /\ k - 1 < k
  BY SMT
<1>7. IsFiniteSet(S) /\ Cardinality(S) = k /\ IsFiniteSet(T) /\ Cardinality(T) = k - 1
  <2>1. PICK m \in Nat : m = k - 1
    BY <1>6, Zenon
  <2>2. S = 1 .. k /\ T = 1 .. m
    BY <1>3, <2>1, Zenon
  <2>3. IsFiniteSet(1 .. k) /\ Cardinality(1 .. k) = k
    BY <1>6, FS_Interval, SMT
  <2>4. IsFiniteSet(1 .. m) /\ Cardinality(1 .. m) = m
    BY FS_Interval, SMT
  <2>5. QED
    BY <2>1, <2>2, <2>3, <2>4, Zenon
<1>8. PICK x \in S, y \in S : x # y /\ f[x] = f[y]
  BY <1>6, <1>7, FS_PigeonHole, Zenon
<1>9. row[x] = row[y]
  BY <1>5, <1>8, Zenon
<1>10. x \in 1 .. N /\ y \in 1 .. N
  BY <1>3, SMT
<1>11. QED
  BY <1>8, <1>9, <1>10, Zenon DEF ByAmounts, Once

LEMMA SameAmounts ==
  ASSUME NEW row, NEW other, ByAmounts(row), ByAmounts(other), RowSet(row) = RowSet(other),
         NEW N \in Nat, DOMAIN row = 1 .. N, DOMAIN other = 1 .. N, NEW k \in 1 .. N
  PROVE  row[k].amount = other[k].amount
<1>1. PICK r \in Row, u \in Row : r = row[k] /\ u = other[k]
  BY Places, Zenon DEF ByAmounts
<1>2. r.amount \in Nat /\ u.amount \in Nat
  BY RowFields, SMT
<1>3. ~ (r.amount < u.amount)
  <2>1. ~ (row[k].amount < other[k].amount)
    BY AmountsNotLess, Zenon
  <2>2. QED
    BY <1>1, <2>1, Zenon
<1>4. ~ (u.amount < r.amount)
  <2>1. ~ (other[k].amount < row[k].amount)
    BY AmountsNotLess, Zenon
  <2>2. QED
    BY <1>1, <2>1, Zenon
<1>5. r.amount = u.amount
  BY <1>2, <1>3, <1>4, SMT
<1>6. QED
  BY <1>1, <1>5, Zenon

\* The groups of the same rows are alike after each row.
LEMMA GroupsAlike ==
  ASSUME NEW list, NEW other, Permuted(list, other),
         NEW f, Grouping(f, list), NEW g, Grouping(g, other), NEW n \in 0 .. Len(list)
  PROVE  Alike(f[n], g[n], ByAmount(list), ByAmount(other), n)
<1>1. /\ list \in Seq(Row) /\ other \in Seq(Row) /\ Once(list) /\ Once(other)
      /\ RowSet(list) = RowSet(other)
  BY Zenon DEF Permuted
<1>2. PICK N \in Nat : N = Len(list) /\ N = Len(other)
  BY <1>1, Places, PermutedSums, Zenon
<1>3. PICK row, rest : row = ByAmount(list) /\ rest = ByAmount(other)
  OBVIOUS
<1>4. ByAmounts(row) /\ ByAmounts(rest) /\ RowSet(row) = RowSet(list) /\ RowSet(rest) = RowSet(other)
  <2>1. ByAmounts(row) /\ Permuted(list, row)
    BY <1>1, <1>3, ByAmountOnce, Zenon
  <2>2. ByAmounts(rest) /\ Permuted(other, rest)
    BY <1>1, <1>3, ByAmountOnce, Zenon
  <2>3. QED
    BY <2>1, <2>2, Zenon DEF Permuted
<1>5. DOMAIN row = 1 .. N /\ DOMAIN rest = 1 .. N
  <2>1. row \in Seq(Row) /\ Len(row) = N
    BY <1>1, <1>2, <1>3, ByAmountIs, Zenon
  <2>2. rest \in Seq(Row) /\ Len(rest) = N
    BY <1>1, <1>2, <1>3, ByAmountIs, Zenon
  <2>3. QED
    BY <2>1, <2>2, Places, Zenon
<1>6. \A k \in 1 .. N : row[k].amount = rest[k].amount
  <2>1. RowSet(row) = RowSet(rest)
    BY <1>1, <1>4, Zenon
  <2>2. QED
    BY <1>4, <1>5, <2>1, SameAmounts
<1> DEFINE bad == {m \in 0 .. N : ~ Alike(f[m], g[m], row, rest, m)}
<1>7. ASSUME bad # {} PROVE FALSE
  <2>1. bad \in SUBSET Nat
    BY <1>2, SMT
  <2>2. PICK m \in bad : \A k \in bad : m <= k
    <3> HIDE DEF bad
    <3> QED BY <1>7, <2>1, LeastOf
  <2>3. m # 0
    <3>1. ASSUME m = 0 PROVE FALSE
      <4>1. f[m] = << >> /\ g[m] = << >>
        BY <3>1, Zenon DEF Grouping
      <4>2. DOMAIN f[m] = {} /\ DOMAIN g[m] = {}
        BY <4>1, SMT
      <4>3. 1 .. m = {}
        BY <3>1, SMT
      <4>4. Alike(f[m], g[m], row, rest, m)
        BY <4>2, <4>3, Zenon DEF Alike, Like
      <4>5. QED
        BY <2>2, <4>4, Zenon
    <3>2. QED
      BY <3>1, Zenon
  <2>4. m \in 1 .. N /\ m - 1 \in 0 .. N /\ ~ (m <= m - 1)
    BY <1>2, <2>2, <2>3, SMT
  <2>5. PICK old, past : old = f[m - 1] /\ past = g[m - 1]
    OBVIOUS
  <2>6. old \in Seq(Seq(Row)) /\ f[m] = Join(old, row[m])
    BY <1>2, <1>3, <2>4, <2>5, Zenon DEF Grouping
  <2>7. past \in Seq(Seq(Row)) /\ g[m] = Join(past, rest[m])
    BY <1>2, <1>3, <2>4, <2>5, Zenon DEF Grouping
  <2>8. Clustered(old, row, m - 1)
    BY <1>1, <1>2, <1>3, <2>4, <2>5, GroupsClustered, Zenon
  <2>9. Clustered(past, rest, m - 1)
    BY <1>1, <1>2, <1>3, <2>4, <2>5, GroupsClustered, Zenon
  <2>10. Alike(old, past, row, rest, m - 1)
    BY <2>2, <2>4, <2>5, Zenon
  <2>11. Alike(f[m], g[m], row, rest, m)
    <3>1. m \in DOMAIN row /\ DOMAIN row = DOMAIN rest /\ row[m].amount = rest[m].amount
      BY <1>5, <1>6, <2>4, Zenon
    <3>2. Alike(Join(old, row[m]), Join(past, rest[m]), row, rest, m)
      BY <1>4, <2>6, <2>7, <2>8, <2>9, <2>10, <3>1, JoinsAlike, Zenon
    <3>3. QED
      BY <2>6, <2>7, <3>2, Zenon
  <2>12. QED
    BY <2>2, <2>11, Zenon
<1>8. QED
  BY <1>2, <1>3, <1>7, Zenon

\* Groups of the same rows that are alike hold the same rows.
LEMMA AlikeWithin ==
  ASSUME NEW row, NEW other, NEW n \in Nat, DOMAIN row = 1 .. n, DOMAIN other = 1 .. n,
         RowSet(row) = RowSet(other), \A k \in 1 .. n : row[k].amount = other[k].amount,
         NEW groups, NEW others, Clustered(groups, row, n), Clustered(others, other, n),
         \A k \in 1 .. n : \A G : Within(groups, G, row[k]) => Within(others, G, other[k]),
         NEW G, NEW x, Within(groups, G, x)
  PROVE  Within(others, G, x)
<1>1. PICK k \in 1 .. n : x = row[k]
  BY Zenon DEF Clustered
<1>2. PICK m \in 1 .. n : x = other[m]
  BY <1>1, Zenon DEF RowSet
<1>3. other[m].amount = other[k].amount
  <2>1. other[m].amount = row[k].amount
    BY <1>1, <1>2, Zenon
  <2>2. QED
    BY <2>1, Zenon
<1>4. Within(others, G, other[k])
  <2>1. Within(groups, G, row[k])
    BY <1>1
  <2>2. QED
    BY <2>1, Zenon
<1>5. PICK H : Within(others, H, other[m])
  BY Zenon DEF Clustered
<1>6. H = G
  BY <1>3, <1>4, <1>5, Zenon DEF Clustered
<1>7. QED
  BY <1>2, <1>5, <1>6

\* What could be a subscription above the minimum.
Could(debits, key) ==
  AtPlaces(debits, {i \in DOMAIN debits : debits[i].amount > 300 /\ Subscription(debits[i], key)})

DuplicateOf(group) ==
  Finding("duplicate", "P1", 1200 * ((Spent(group) * (Len(group) - 1)) \div Len(group)), group)

LEMMA DuplicateIds == ASSUME NEW group PROVE DuplicateOf(group).ids = Ids(group)
<1>1. ASSUME NEW x PROVE Finding("duplicate", "P1", x, group).ids = Ids(group)
  BY SMT DEF Finding
<1>2. QED
  BY <1>1, SMT DEF DuplicateOf

LEMMA DuplicatesAre ==
  ASSUME NEW debits, NEW key, NEW groups, groups = ClusterByAmount(Could(debits, key)), NEW x
  PROVE  x \in DetectDuplicates(debits, key)
           <=> \E g \in DOMAIN groups : Len(groups[g]) >= 2 /\ x = DuplicateOf(groups[g])
<1>1. DetectDuplicates(debits, key) =
        {DuplicateOf(groups[g]) : g \in {g \in DOMAIN groups : Len(groups[g]) >= 2}}
  <2> DEFINE all == ClusterByAmount(Could(debits, key))
  <2>1. DetectDuplicates(debits, key) =
          {DuplicateOf(all[g]) : g \in {g \in DOMAIN all : Len(all[g]) >= 2}}
    BY Zenon DEF DetectDuplicates, DuplicateOf, Could, Where
  <2>2. all = groups
    BY Zenon
  <2> HIDE DEF all
  <2>3. QED
    BY <2>1, <2>2
<1>2. QED
  BY <1>1, Zenon

LEMMA PermutedCould ==
  ASSUME NEW debits, NEW other, Permuted(debits, other), NEW key
  PROVE  Permuted(Could(debits, key), Could(other, key))
<1>1. PICK Q : Q = {row \in Row : row.amount > 300 /\ Subscription(row, key)}
  OBVIOUS
<1>2. ASSUME NEW list \in Seq(Row)
      PROVE  Could(list, key) = AtPlaces(list, {i \in DOMAIN list : list[i] \in Q})
  <2>1. \A i \in DOMAIN list : list[i] \in Row
    BY Places, Zenon
  <2>2. {i \in DOMAIN list : list[i].amount > 300 /\ Subscription(list[i], key)}
          = {i \in DOMAIN list : list[i] \in Q}
    BY <1>1, <2>1, Zenon
  <2>3. QED
    BY <2>2, Zenon DEF Could
<1>3. debits \in Seq(Row) /\ other \in Seq(Row)
  BY Zenon DEF Permuted
<1>4. PICK a, b : /\ a = AtPlaces(debits, {i \in DOMAIN debits : debits[i] \in Q})
                  /\ b = AtPlaces(other, {i \in DOMAIN other : other[i] \in Q})
  OBVIOUS
<1>5. Permuted(a, b)
  BY <1>4, PermutedPass, Zenon
<1>6. Could(debits, key) = a /\ Could(other, key) = b
  BY <1>2, <1>3, <1>4, Zenon
<1>7. QED
  BY <1>5, <1>6, Zenon

LEMMA PermutedDuplicates ==
  ASSUME NEW debits, NEW other, Permuted(debits, other), NEW key
  PROVE  DetectDuplicates(debits, key) = DetectDuplicates(other, key)
<1>1. PICK a, b : a = Could(debits, key) /\ b = Could(other, key)
  OBVIOUS
<1>2. Permuted(a, b)
  BY <1>1, PermutedCould, Zenon
<1>3. /\ a \in Seq(Row) /\ b \in Seq(Row) /\ Once(a) /\ Once(b)
      /\ RowSet(a) = RowSet(b)
  BY <1>2, Zenon DEF Permuted
<1>4. PICK N \in Nat : N = Len(a) /\ N = Len(b)
  BY <1>2, <1>3, Places, PermutedSums, Zenon
<1>5. PICK f : ClusterByAmount(a) = f[Len(a)] /\ Grouping(f, a)
  BY <1>3, ClusterIs, Zenon
<1>6. PICK g : ClusterByAmount(b) = g[Len(b)] /\ Grouping(g, b)
  BY <1>3, ClusterIs, Zenon
<1>7. PICK groups, others : groups = f[N] /\ others = g[N]
  OBVIOUS
<1>8. groups = ClusterByAmount(a) /\ others = ClusterByAmount(b)
  BY <1>4, <1>5, <1>6, <1>7, Zenon
<1>9. PICK row, rest : row = ByAmount(a) /\ rest = ByAmount(b)
  OBVIOUS
<1>10. N \in 0 .. N
  BY SMT
<1>11. Alike(groups, others, row, rest, N)
  BY <1>2, <1>4, <1>5, <1>6, <1>7, <1>9, <1>10, GroupsAlike, Zenon
<1>12. Clustered(groups, row, N)
  BY <1>3, <1>4, <1>5, <1>7, <1>9, <1>10, GroupsClustered, Zenon
<1>13. Clustered(others, rest, N)
  BY <1>3, <1>4, <1>6, <1>7, <1>9, <1>10, GroupsClustered, Zenon
<1>14. ByAmounts(row) /\ ByAmounts(rest) /\ RowSet(row) = RowSet(rest)
  <2>1. ByAmounts(row) /\ Permuted(a, row)
    BY <1>3, <1>9, ByAmountOnce, Zenon
  <2>2. ByAmounts(rest) /\ Permuted(b, rest)
    BY <1>3, <1>9, ByAmountOnce, Zenon
  <2>3. RowSet(row) = RowSet(a) /\ RowSet(rest) = RowSet(b)
    BY <2>1, <2>2, Zenon DEF Permuted
  <2>4. QED
    BY <1>3, <2>1, <2>2, <2>3, Zenon
<1>15. DOMAIN row = 1 .. N /\ DOMAIN rest = 1 .. N
  <2>1. row \in Seq(Row) /\ Len(row) = N
    BY <1>3, <1>4, <1>9, ByAmountIs, Zenon
  <2>2. rest \in Seq(Row) /\ Len(rest) = N
    BY <1>3, <1>4, <1>9, ByAmountIs, Zenon
  <2>3. QED
    BY <2>1, <2>2, Places, Zenon
<1>16. \A k \in 1 .. N : row[k].amount = rest[k].amount
  BY <1>14, <1>15, SameAmounts
<1>17. \A k \in 1 .. N : \A G : Within(groups, G, row[k]) <=> Within(others, G, rest[k])
  BY <1>11, Zenon DEF Alike
<1>18. ASSUME NEW G, NEW x PROVE Within(groups, G, x) <=> Within(others, G, x)
  <2>1. Within(groups, G, x) => Within(others, G, x)
    BY <1>12, <1>13, <1>14, <1>15, <1>16, <1>17, AlikeWithin
  <2>2. Within(others, G, x) => Within(groups, G, x)
    <3>1. RowSet(rest) = RowSet(row) /\ \A k \in 1 .. N : rest[k].amount = row[k].amount
      BY <1>14, <1>16, Zenon
    <3>2. \A k \in 1 .. N : \A H : Within(others, H, rest[k]) => Within(groups, H, row[k])
      BY <1>17, Zenon
    <3>3. QED
      BY <1>12, <1>13, <1>15, <3>1, <3>2, AlikeWithin
  <2>3. QED
    BY <2>1, <2>2, Zenon
<1>19. DOMAIN groups = DOMAIN others
  BY <1>11, Zenon DEF Alike, Like
<1>20. ASSUME NEW G \in DOMAIN groups
       PROVE  DuplicateOf(groups[G]) = DuplicateOf(others[G]) /\ Len(groups[G]) = Len(others[G])
  <2>1. PICK one, two : one = groups[G] /\ two = others[G]
    OBVIOUS
  <2>2. Len(one) = Len(two) /\ Spent(one) = Spent(two)
    BY <1>11, <2>1, Zenon DEF Alike, Like
  <2>3. ASSUME NEW x PROVE (\E p \in DOMAIN one : one[p] = x) <=> (\E p \in DOMAIN two : two[p] = x)
    <3>1. (\E p \in DOMAIN one : one[p] = x) <=> Within(groups, G, x)
      BY <2>1, Zenon DEF Within
    <3>2. (\E p \in DOMAIN two : two[p] = x) <=> Within(others, G, x)
      BY <1>19, <2>1, Zenon DEF Within
    <3>3. QED
      BY <1>18, <3>1, <3>2, Zenon
  <2>4. Ids(one) = Ids(two)
    <3>1. ASSUME NEW p \in DOMAIN one PROVE one[p].id \in Ids(two)
      <4>1. PICK q \in DOMAIN two : two[q] = one[p]
        BY <2>3, Zenon
      <4>2. one[p].id = two[q].id
        BY <4>1, Zenon
      <4>3. QED
        BY <4>2, Zenon DEF Ids
    <3>2. ASSUME NEW p \in DOMAIN two PROVE two[p].id \in Ids(one)
      <4>1. PICK q \in DOMAIN one : one[q] = two[p]
        BY <2>3, Zenon
      <4>2. two[p].id = one[q].id
        BY <4>1, Zenon
      <4>3. QED
        BY <4>2, Zenon DEF Ids
    <3>3. QED
      BY <3>1, <3>2, Zenon DEF Ids
  <2>5. DuplicateOf(one) = DuplicateOf(two)
    BY <2>2, <2>4 DEF DuplicateOf, Finding
  <2>6. QED
    BY <2>1, <2>2, <2>5, Zenon
<1>21. ASSUME NEW x PROVE x \in DetectDuplicates(debits, key) <=> x \in DetectDuplicates(other, key)
  <2>1. x \in DetectDuplicates(debits, key)
          <=> \E G \in DOMAIN groups : Len(groups[G]) >= 2 /\ x = DuplicateOf(groups[G])
    BY <1>1, <1>8, DuplicatesAre
  <2>2. x \in DetectDuplicates(other, key)
          <=> \E G \in DOMAIN others : Len(others[G]) >= 2 /\ x = DuplicateOf(others[G])
    BY <1>1, <1>8, DuplicatesAre
  <2>3. QED
    BY <1>19, <1>20, <2>1, <2>2, Zenon
<1>22. QED
  BY <1>21, Zenon

-----------------------------------------------------------------------------
(* Leaks: no finding hangs on the order of rows                             *)

Passed(list, Q) == AtPlaces(list, {i \in DOMAIN list : list[i] \in Q})

LEMMA PassIs ==
  ASSUME NEW list \in Seq(Row), NEW Q, NEW S \in SUBSET DOMAIN list,
         \A i \in DOMAIN list : list[i] \in Row => (i \in S <=> list[i] \in Q)
  PROVE  AtPlaces(list, S) = Passed(list, Q)
<1>1. \A i \in DOMAIN list : list[i] \in Row
  BY Places, Zenon
<1>2. S = {i \in DOMAIN list : list[i] \in Q}
  BY <1>1, Zenon
<1>3. QED
  BY <1>2, Zenon DEF Passed

LEMMA PassPermutes ==
  ASSUME NEW list, NEW other, Permuted(list, other), NEW Q
  PROVE  Permuted(Passed(list, Q), Passed(other, Q))
<1>1. PICK a, b : /\ a = AtPlaces(list, {i \in DOMAIN list : list[i] \in Q})
                  /\ b = AtPlaces(other, {i \in DOMAIN other : other[i] \in Q})
  OBVIOUS
<1>2. Permuted(a, b)
  BY <1>1, PermutedPass, Zenon
<1>3. QED
  BY <1>1, <1>2, Zenon DEF Passed

LEMMA PassHolds ==
  ASSUME NEW list \in Seq(Row), NEW Q
  PROVE  /\ Passed(list, Q) \in Seq(Row)
         /\ RowSet(Passed(list, Q)) = {row \in RowSet(list) : row \in Q}
         /\ Once(list) => Once(Passed(list, Q))
<1>1. PICK S : S = {i \in DOMAIN list : list[i] \in Q}
  OBVIOUS
<1>2. S \in SUBSET DOMAIN list
  BY <1>1, Zenon
<1>3. PICK a : a = AtPlaces(list, S)
  OBVIOUS
<1>4. a \in Seq(Row) /\ RowSet(a) = {list[i] : i \in S} /\ (Once(list) => Once(a))
  BY <1>2, <1>3, PlacesRows, Zenon
<1>5. {list[i] : i \in S} = {row \in RowSet(list) : row \in Q}
  BY <1>1, Zenon DEF RowSet
<1>6. Passed(list, Q) = a
  BY <1>1, <1>3, Zenon DEF Passed
<1>7. QED
  BY <1>4, <1>5, <1>6, Zenon

DebitsOf(key) == {row \in Row : row.debit /\ MerchantKey(row) = key}

LEMMA DebitsPass ==
  ASSUME NEW list \in Seq(Row), NEW key
  PROVE  Debits(list, key) = Passed(list, DebitsOf(key))
<1> DEFINE S == {i \in DOMAIN list : list[i].debit /\ MerchantKey(list[i]) = key}
<1>1. Debits(list, key) = AtPlaces(list, S)
  BY Zenon DEF Debits, Where
<1>2. S \in SUBSET DOMAIN list
  BY Zenon
<1>3. \A i \in DOMAIN list : list[i] \in Row => (i \in S <=> list[i] \in DebitsOf(key))
  BY Zenon DEF DebitsOf
<1> HIDE DEF S
<1>4. QED
  BY <1>1, <1>2, <1>3, PassIs, Zenon

LEMMA PermutedZombies ==
  ASSUME NEW debits, NEW other, Permuted(debits, other)
  PROVE  DetectZombies(debits) = DetectZombies(other)
<1>1. PICK Q, P : /\ Q = {row \in Row : row.amount > 199 /\ row.marker}
                  /\ P = {row \in Row : row.category = "unknown" /\ row.bare}
  OBVIOUS
<1> DEFINE Verdict(list, few) == IF Len(list) >= 3 /\ Len(few) >= 2
                                   THEN {Finding("zombie", "P1", 100 * Spent(few), few)} ELSE {}
<1>2. ASSUME NEW list \in Seq(Row)
      PROVE  DetectZombies(list) = Verdict(Passed(list, Q), Passed(Passed(list, Q), P))
  <2> DEFINE R == {i \in DOMAIN list : list[i].amount > 199 /\ list[i].marker}
             recurring == AtPlaces(list, R)
             Z == {i \in DOMAIN recurring : recurring[i].category = "unknown" /\ recurring[i].bare}
             zombies == AtPlaces(recurring, Z)
  <2>1. DetectZombies(list) = Verdict(recurring, zombies)
    BY Zenon DEF DetectZombies, Where
  <2>2. R \in SUBSET DOMAIN list /\ Z \in SUBSET DOMAIN recurring
    BY Zenon
  <2>3. \A i \in DOMAIN list : list[i] \in Row => (i \in R <=> list[i] \in Q)
    BY <1>1, Zenon
  <2>4. \A i \in DOMAIN recurring : recurring[i] \in Row => (i \in Z <=> recurring[i] \in P)
    <3> HIDE DEF recurring
    <3> QED BY <1>1, Zenon
  <2> HIDE DEF R
  <2>5. recurring = Passed(list, Q) /\ recurring \in Seq(Row)
    <3>1. recurring \in Seq(Row)
      BY <2>2, WhereTyped, Zenon
    <3>2. recurring = Passed(list, Q)
      BY <2>2, <2>3, PassIs, Zenon
    <3>3. QED
      BY <3>1, <3>2, Zenon
  <2> HIDE DEF recurring, Z
  <2>6. zombies = Passed(recurring, P)
    BY <2>2, <2>4, <2>5, PassIs, Zenon
  <2> HIDE DEF zombies, Verdict
  <2>7. QED
    BY <2>1, <2>5, <2>6, Zenon
<1>3. debits \in Seq(Row) /\ other \in Seq(Row)
  BY Zenon DEF Permuted
<1>4. PICK a, b, c, d : /\ a = Passed(debits, Q) /\ b = Passed(other, Q)
                        /\ c = Passed(a, P) /\ d = Passed(b, P)
  OBVIOUS
<1>5. Permuted(a, b)
  BY <1>4, PassPermutes, Zenon
<1>6. Permuted(c, d)
  BY <1>4, <1>5, PassPermutes, Zenon
<1>7. Len(b) = Len(a)
  BY <1>5, PermutedSums, Zenon
<1>8. Len(d) = Len(c) /\ Spent(d) = Spent(c) /\ Ids(d) = Ids(c)
  BY <1>6, PermutedSums, Zenon
<1>9. Finding("zombie", "P1", 100 * Spent(c), c) = Finding("zombie", "P1", 100 * Spent(d), d)
  BY <1>8, Zenon DEF Finding
<1>10. Verdict(a, c) = Verdict(b, d)
  BY <1>7, <1>8, <1>9, Zenon
<1> HIDE DEF Verdict
<1>11. QED
  BY <1>2, <1>3, <1>4, <1>10, Zenon

LEMMA PermutedTax ==
  ASSUME NEW list, NEW other, Permuted(list, other)
  PROVE  DetectTaxMiscategory(list) = DetectTaxMiscategory(other)
<1>1. PICK Q : Q = {row \in Row : row.category = "personal" /\ row.hint}
  OBVIOUS
<1> DEFINE Verdict(few) == IF few # << >> THEN {Finding("tax", "P1", 100 * Spent(few), few)} ELSE {}
<1>2. ASSUME NEW one \in Seq(Row)
      PROVE  DetectTaxMiscategory(one) = Verdict(Passed(one, Q))
  <2> DEFINE R == {i \in DOMAIN one : one[i].category = "personal" /\ one[i].hint}
             risky == AtPlaces(one, R)
  <2>1. DetectTaxMiscategory(one) = Verdict(risky)
    BY Zenon DEF DetectTaxMiscategory, Where
  <2>2. R \in SUBSET DOMAIN one
    BY Zenon
  <2>3. \A i \in DOMAIN one : one[i] \in Row => (i \in R <=> one[i] \in Q)
    BY <1>1, Zenon
  <2> HIDE DEF R
  <2>4. risky = Passed(one, Q)
    BY <2>2, <2>3, PassIs, Zenon
  <2> HIDE DEF risky, Verdict
  <2>5. QED
    BY <2>1, <2>4, Zenon
<1>3. list \in Seq(Row) /\ other \in Seq(Row)
  BY Zenon DEF Permuted
<1>4. PICK a, b : a = Passed(list, Q) /\ b = Passed(other, Q)
  OBVIOUS
<1>5. Permuted(a, b)
  BY <1>4, PassPermutes, Zenon
<1>6. Len(b) = Len(a) /\ Spent(b) = Spent(a) /\ Ids(b) = Ids(a)
  BY <1>5, PermutedSums, Zenon
<1>7. a = << >> <=> b = << >>
  <2>1. ASSUME NEW one \in Seq(Row) PROVE one = << >> <=> Len(one) = 0
    OBVIOUS
  <2>2. a \in Seq(Row) /\ b \in Seq(Row)
    BY <1>5, Zenon DEF Permuted
  <2>3. QED
    BY <1>6, <2>1, <2>2, Zenon
<1>8. Finding("tax", "P1", 100 * Spent(a), a) = Finding("tax", "P1", 100 * Spent(b), b)
  BY <1>6, Zenon DEF Finding
<1>9. Verdict(a) = Verdict(b)
  BY <1>7, <1>8, Zenon
<1> HIDE DEF Verdict
<1>10. QED
  BY <1>2, <1>3, <1>4, <1>9, Zenon

LEMMA PermutedMerchants ==
  ASSUME NEW list, NEW other, Permuted(list, other)
  PROVE  Merchants(list) = Merchants(other)
<1>1. ASSUME NEW one PROVE Merchants(one) = {MerchantKey(row) : row \in {row \in RowSet(one) : row.debit}}
  BY Zenon DEF Merchants, RowSet
<1>2. QED
  BY <1>1, Zenon DEF Permuted

FamilyOwns(fam) == {row \in Row : row.debit /\ FamilyOf[MerchantKey(row)] = fam}

LEMMA PermutedSprawl ==
  ASSUME NEW list, NEW other, Permuted(list, other)
  PROVE  DetectSprawl(list) = DetectSprawl(other)
<1>1. ASSUME NEW one \in Seq(Row), NEW fam
      PROVE  FamilyRows(one, fam) = Passed(one, FamilyOwns(fam))
  <2> DEFINE S == {i \in DOMAIN one : one[i].debit /\ FamilyOf[MerchantKey(one[i])] = fam}
  <2>1. FamilyRows(one, fam) = AtPlaces(one, S)
    BY Zenon DEF FamilyRows, Where
  <2>2. S \in SUBSET DOMAIN one
    BY Zenon
  <2>3. \A i \in DOMAIN one : one[i] \in Row => (i \in S <=> one[i] \in FamilyOwns(fam))
    BY Zenon DEF FamilyOwns
  <2> HIDE DEF S
  <2>4. QED
    BY <2>1, <2>2, <2>3, PassIs, Zenon
<1>2. ASSUME NEW fam PROVE Permuted(FamilyRows(list, fam), FamilyRows(other, fam))
  <2>1. Permuted(Passed(list, FamilyOwns(fam)), Passed(other, FamilyOwns(fam)))
    BY PassPermutes, Zenon
  <2>2. list \in Seq(Row) /\ other \in Seq(Row)
    BY Zenon DEF Permuted
  <2>3. QED
    BY <1>1, <2>1, <2>2, Zenon
<1>3. ASSUME NEW fam PROVE SprawlOf(list, fam) = SprawlOf(other, fam)
  <2>1. PICK a, b : a = FamilyRows(list, fam) /\ b = FamilyRows(other, fam)
    OBVIOUS
  <2>2. Spent(b) = Spent(a) /\ Ids(b) = Ids(a)
    BY <1>2, <2>1, PermutedSums, Zenon
  <2>3. QED
    BY <2>1, <2>2, Zenon DEF SprawlOf, Finding
<1>4. ASSUME NEW fam PROVE Merchants(FamilyRows(list, fam)) = Merchants(FamilyRows(other, fam))
  <2>1. PICK a, b : a = FamilyRows(list, fam) /\ b = FamilyRows(other, fam)
    OBVIOUS
  <2>2. Permuted(a, b)
    BY <1>2, <2>1, Zenon
  <2>3. Merchants(a) = Merchants(b)
    BY <2>2, PermutedMerchants, Zenon
  <2>4. QED
    BY <2>1, <2>3, Zenon
<1>5. Sprawling(list) = Sprawling(other)
  <2>1. ASSUME NEW fam
        PROVE  fam \in Sprawling(list) <=> fam \in Sprawling(other)
    <3>1. PICK c : c = Cardinality(Merchants(FamilyRows(list, fam)))
      OBVIOUS
    <3>2. c = Cardinality(Merchants(FamilyRows(other, fam)))
      BY <1>4, <3>1, Zenon
    <3>3. fam \in Sprawling(list) <=> fam \in {"video", "chat", "docs"} /\ c >= 2
      BY <3>1 DEF Sprawling
    <3>4. fam \in Sprawling(other) <=> fam \in {"video", "chat", "docs"} /\ c >= 2
      BY <3>2 DEF Sprawling
    <3>5. QED
      BY <3>3, <3>4, Zenon
  <2>2. QED
    BY <2>1, Zenon
<1>6. QED
  BY <1>3, <1>5, SprawlIs, Zenon

\* Free trials and price hikes take the debits by day.
TrialsOf(ordered, key) ==
  LET Trials(i) == {j \in Larger(1, i - 4) .. i - 1 :
                      /\ ordered[i].day - ordered[j].day <= 60
                      /\ 10 * ordered[j].amount <= Larger(500, ordered[i].amount)}
  IN  {Finding("trial", "P2", 1200 * ordered[i].amount, <<ordered[Min(Trials(i))], ordered[i]>>) :
         i \in {i \in DOMAIN ordered : /\ ordered[i].amount >= 199
                                       /\ Subscription(ordered[i], key)
                                       /\ Trials(i) # {}}}

HikesOf(days) ==
  LET ordered == AtPlaces(days, {i \in DOMAIN days : days[i].amount > 100})
      values == [i \in DOMAIN ordered |-> ordered[i].amount]
      rise == 2 * Last(values) - TwiceBase(values)
  IN  IF Len(values) >= 3 /\ 4 * rise >= TwiceBase(values)
      THEN {Finding("hike", "P2", 600 * rise, ordered)} ELSE {}

LEMMA TrialsAre ==
  ASSUME NEW debits, NEW key
  PROVE  DetectFreeTrials(debits, key) = TrialsOf(ByDay(debits), key)
BY Zenon DEF DetectFreeTrials, TrialsOf

LEMMA HikesAre ==
  ASSUME NEW debits
  PROVE  DetectHikes(debits) = HikesOf(ByDay(debits))
BY DEF DetectHikes, HikesOf, Where

\* No merchant charges twice on one day.
NoTie(list) ==
  \A row, other \in RowSet(list) :
    row # other /\ MerchantKey(row) = MerchantKey(other) => row.day # other.day

LEMMA PermutedLeaks ==
  ASSUME NEW list, NEW other, Permuted(list, other), NoTie(list)
  PROVE  DetectLeaks(list) = DetectLeaks(other)
<1>1. list \in Seq(Row) /\ other \in Seq(Row)
  BY Zenon DEF Permuted
<1>2. ASSUME NEW key
      PROVE  DetectMerchantLeaks(Debits(list, key), key) = DetectMerchantLeaks(Debits(other, key), key)
  <2>1. PICK a, b : a = Debits(list, key) /\ b = Debits(other, key)
    OBVIOUS
  <2>2. Permuted(a, b)
    <3>1. Permuted(Passed(list, DebitsOf(key)), Passed(other, DebitsOf(key)))
      BY PassPermutes, Zenon
    <3>2. QED
      BY <1>1, <2>1, <3>1, DebitsPass, Zenon
  <2>3. RowSet(a) = {row \in RowSet(list) : row \in DebitsOf(key)}
    <3>1. RowSet(Passed(list, DebitsOf(key))) = {row \in RowSet(list) : row \in DebitsOf(key)}
      BY <1>1, PassHolds, Zenon
    <3>2. QED
      BY <1>1, <2>1, <3>1, DebitsPass, Zenon
  <2>4. \A row, rest \in RowSet(a) : row # rest => row.day # rest.day
    BY <2>3, Zenon DEF NoTie, DebitsOf
  <2>5. ByDay(b) = ByDay(a)
    BY <2>2, <2>4, PermutedByDay, Zenon
  <2>6. DetectFreeTrials(a, key) = DetectFreeTrials(b, key) /\ DetectHikes(a) = DetectHikes(b)
    BY <2>5, TrialsAre, HikesAre, Zenon
  <2>7. DetectDuplicates(a, key) = DetectDuplicates(b, key) /\ DetectZombies(a) = DetectZombies(b)
    BY <2>2, PermutedDuplicates, PermutedZombies, Zenon
  <2>8. QED
    BY <2>1, <2>6, <2>7, Zenon DEF DetectMerchantLeaks
<1>3. Merchants(list) = Merchants(other)
  BY PermutedMerchants, Zenon
<1>4. DetectSprawl(list) = DetectSprawl(other) /\ DetectTaxMiscategory(list) = DetectTaxMiscategory(other)
  BY PermutedSprawl, PermutedTax, Zenon
<1>5. UNION {DetectMerchantLeaks(Debits(list, key), key) : key \in Merchants(list)}
        = UNION {DetectMerchantLeaks(Debits(other, key), key) : key \in Merchants(other)}
  BY <1>2, <1>3, Zenon
<1>6. QED
  BY <1>4, <1>5, Zenon DEF DetectLeaks

\* Rows under their own numbers are different rows.
LEMMA NumberedOnce ==
  ASSUME NEW list, Numbered(list)
  PROVE  Once(list)
BY Zenon DEF Numbered, Once

LEMMA LeaksReversed ==
  ASSUME Numbered(rows), NoTies
  PROVE  DetectLeaks(Reverse(rows)) = DetectLeaks(rows)
<1>1. rows \in Seq(Row) /\ Once(rows)
  BY NumberedOnce, Zenon DEF Numbered
<1>2. NoTie(rows)
  BY Zenon DEF NoTies, NoTie, RowSet
<1>3. PICK back : back = Reverse(rows)
  OBVIOUS
<1>4. Permuted(rows, back)
  BY <1>1, <1>3, ReverseIs, Zenon
<1>5. QED
  BY <1>2, <1>3, <1>4, PermutedLeaks, Zenon

-----------------------------------------------------------------------------
(* Leaks: which detector a finding is from                                  *)

LEMMA FindingSays ==
  ASSUME NEW type, NEW severity, NEW impact, NEW list
  PROVE  /\ Finding(type, severity, impact, list).type = type
         /\ Finding(type, severity, impact, list).impact = impact
         /\ Finding(type, severity, impact, list).ids = Ids(list)
BY DEF Finding

LEMMA FindingKind ==
  ASSUME NEW type, NEW severity, NEW impact, NEW list, NEW f, f = Finding(type, severity, impact, list)
  PROVE  f.type = type
BY SMT DEF Finding

LEMMA TrialsType ==
  ASSUME NEW debits, NEW key
  PROVE  \A f \in DetectFreeTrials(debits, key) : f.type = "trial"
<1> DEFINE ordered == ByDay(debits)
           Trials(i) == {j \in Larger(1, i - 4) .. i - 1 :
                      /\ ordered[i].day - ordered[j].day <= 60
                      /\ 10 * ordered[j].amount <= Larger(500, ordered[i].amount)}
           E(i) == Finding("trial", "P2", 1200 * ordered[i].amount, <<ordered[Min(Trials(i))], ordered[i]>>)
           T == {i \in DOMAIN ordered : /\ ordered[i].amount >= 199
                                        /\ Subscription(ordered[i], key)
                                        /\ Trials(i) # {}}
<1>1. DetectFreeTrials(debits, key) = {E(i) : i \in T}
  BY Zenon DEF DetectFreeTrials
<1>2. \A i : E(i).type = "trial"
  <2>1. SUFFICES ASSUME NEW i PROVE E(i).type = "trial"
    OBVIOUS
  <2>2. PICK x, y : x = 1200 * ordered[i].amount /\ y = <<ordered[Min(Trials(i))], ordered[i]>>
    OBVIOUS
  <2>3. PICK e : e = E(i)
    OBVIOUS
  <2>4. e = Finding("trial", "P2", x, y)
    BY <2>2, <2>3
  <2> HIDE DEF E
  <2>5. e.type = "trial"
    BY <2>4, FindingKind
  <2>6. QED
    BY <2>3, <2>5, Zenon
<1> HIDE DEF E, T
<1>3. QED
  BY <1>1, <1>2, Zenon

LEMMA ZombiesType ==
  ASSUME NEW debits
  PROVE  \A f \in DetectZombies(debits) : f.type = "zombie"
<1>1. PICK x, y : \A f \in DetectZombies(debits) : f = Finding("zombie", "P1", x, y)
  <2> DEFINE recurring == Where(debits, LAMBDA row : row.amount > 199 /\ row.marker)
             zombies == Where(recurring, LAMBDA row : row.category = "unknown" /\ row.bare)
             d == Len(recurring) >= 3 /\ Len(zombies) >= 2
  <2>1. DetectZombies(debits) = IF d THEN {Finding("zombie", "P1", 100 * Spent(zombies), zombies)} ELSE {}
    BY Zenon DEF DetectZombies
  <2> HIDE DEF d, zombies
  <2>2. QED
    BY <2>1, Zenon
<1>2. \A f : f = Finding("zombie", "P1", x, y) => f.type = "zombie"
  BY FindingKind
<1>3. QED
  BY <1>1, <1>2, Zenon

LEMMA TaxType ==
  ASSUME NEW list
  PROVE  \A f \in DetectTaxMiscategory(list) : f.type = "tax"
<1>1. PICK x, y : \A f \in DetectTaxMiscategory(list) : f = Finding("tax", "P1", x, y)
  <2> DEFINE risky == Where(list, LAMBDA row : row.category = "personal" /\ row.hint)
             d == risky # << >>
  <2>1. DetectTaxMiscategory(list) = IF d THEN {Finding("tax", "P1", 100 * Spent(risky), risky)} ELSE {}
    BY Zenon DEF DetectTaxMiscategory
  <2> HIDE DEF d, risky
  <2>2. QED
    BY <2>1, Zenon
<1>2. \A f : f = Finding("tax", "P1", x, y) => f.type = "tax"
  BY FindingKind
<1>3. QED
  BY <1>1, <1>2, Zenon

Dear(days) == AtPlaces(days, {i \in DOMAIN days : days[i].amount > 100})

Amounts(ordered) == [i \in DOMAIN ordered |-> ordered[i].amount]

Verdict(values, rise, ordered) ==
  IF Len(values) >= 3 /\ 4 * rise >= TwiceBase(values)
  THEN {Finding("hike", "P2", 600 * rise, ordered)} ELSE {}

LEMMA HikesSay ==
  ASSUME NEW debits, NEW ordered, ordered = Dear(ByDay(debits)),
         NEW values, values = Amounts(ordered),
         NEW rise, rise = 2 * Last(values) - TwiceBase(values)
  PROVE  DetectHikes(debits) = Verdict(values, rise, ordered)
<1>1. PICK days : days = ByDay(debits)
  OBVIOUS
<1> DEFINE some == AtPlaces(days, {i \in DOMAIN days : days[i].amount > 100})
           costs == [i \in DOMAIN some |-> some[i].amount]
           more == 2 * Last(costs) - TwiceBase(costs)
<1>2. DetectHikes(debits) = HikesOf(days)
  BY <1>1, HikesAre, Zenon
<1>3. HikesOf(days) = Verdict(costs, more, some)
  BY Zenon DEF HikesOf, Verdict
<1>4. some = ordered
  BY <1>1, Zenon DEF Dear
<1> HIDE DEF some
<1>5. costs = values
  BY <1>4, Zenon DEF Amounts
<1> HIDE DEF costs
<1>6. more = rise
  BY <1>5, Zenon
<1> HIDE DEF more
<1>7. QED
  BY <1>2, <1>3, <1>4, <1>5, <1>6, Zenon

LEMMA HikesType ==
  ASSUME NEW debits
  PROVE  \A f \in DetectHikes(debits) : f.type = "hike"
<1>1. PICK ordered : ordered = Dear(ByDay(debits))
  OBVIOUS
<1>2. PICK values : values = Amounts(ordered)
  OBVIOUS
<1>3. PICK rise : rise = 2 * Last(values) - TwiceBase(values)
  OBVIOUS
<1>4. DetectHikes(debits) = Verdict(values, rise, ordered)
  BY <1>1, <1>2, <1>3, HikesSay, Zenon
<1>5. PICK x : x = 600 * rise
  OBVIOUS
<1>6. \A f \in Verdict(values, rise, ordered) : f = Finding("hike", "P2", x, ordered)
  BY <1>5 DEF Verdict
<1>7. \A f : f = Finding("hike", "P2", x, ordered) => f.type = "hike"
  BY FindingKind
<1>8. QED
  BY <1>4, <1>6, <1>7, Zenon

LEMMA DuplicatesType ==
  ASSUME NEW debits, NEW key
  PROVE  \A f \in DetectDuplicates(debits, key) : f.type = "duplicate"
<1>1. PICK groups : groups = ClusterByAmount(Could(debits, key))
  OBVIOUS
<1>2. \A group, f : f = DuplicateOf(group) => f.type = "duplicate"
  <2>1. SUFFICES ASSUME NEW group PROVE \A f : f = DuplicateOf(group) => f.type = "duplicate"
    OBVIOUS
  <2>2. PICK x : x = 1200 * ((Spent(group) * (Len(group) - 1)) \div Len(group))
    OBVIOUS
  <2>3. DuplicateOf(group) = Finding("duplicate", "P1", x, group)
    BY <2>2, Zenon DEF DuplicateOf
  <2>4. \A f : f = Finding("duplicate", "P1", x, group) => f.type = "duplicate"
    BY FindingKind
  <2>5. QED
    BY <2>3, <2>4, Zenon
<1>3. SUFFICES ASSUME NEW f \in DetectDuplicates(debits, key) PROVE f.type = "duplicate"
  OBVIOUS
<1>4. PICK g \in DOMAIN groups : f = DuplicateOf(groups[g])
  <2>1. f \in DetectDuplicates(debits, key)
          <=> \E g \in DOMAIN groups : Len(groups[g]) >= 2 /\ f = DuplicateOf(groups[g])
    BY <1>1, DuplicatesAre
  <2>2. QED
    BY <2>1, Zenon
<1>5. QED
  BY <1>2, <1>4, Zenon

LEMMA SprawlType ==
  ASSUME NEW list
  PROVE  \A f \in DetectSprawl(list) : f.type = "sprawl"
<1>1. \A fam, f : f = SprawlOf(list, fam) => f.type = "sprawl"
  <2>1. SUFFICES ASSUME NEW fam PROVE \A f : f = SprawlOf(list, fam) => f.type = "sprawl"
    OBVIOUS
  <2>2. PICK x, y : x = 30 * Spent(FamilyRows(list, fam)) /\ y = FamilyRows(list, fam)
    OBVIOUS
  <2>3. SprawlOf(list, fam) = Finding("sprawl", "P2", x, y)
    BY <2>2, Zenon DEF SprawlOf
  <2>4. \A f : f = Finding("sprawl", "P2", x, y) => f.type = "sprawl"
    BY FindingKind
  <2>5. QED
    BY <2>3, <2>4, Zenon
<1>2. QED
  BY <1>1, SprawlIs, Zenon

\* A duplicate or a price hike is found in the debits of one merchant.
LEMMA LeaksFrom ==
  ASSUME NEW list, NEW f
  PROVE  /\ f.type = "duplicate" =>
              (f \in DetectLeaks(list) <=>
                 \E key \in Merchants(list) : f \in DetectDuplicates(Debits(list, key), key))
         /\ f.type = "hike" =>
              (f \in DetectLeaks(list) <=> \E key \in Merchants(list) : f \in DetectHikes(Debits(list, key)))
<1>1. f \in DetectLeaks(list)
        <=> \/ \E key \in Merchants(list) : f \in DetectMerchantLeaks(Debits(list, key), key)
            \/ f \in DetectSprawl(list) \/ f \in DetectTaxMiscategory(list)
  BY Zenon DEF DetectLeaks
<1>2. f \in DetectSprawl(list) \/ f \in DetectTaxMiscategory(list) => f.type # "duplicate" /\ f.type # "hike"
  <2>1. f.type = "sprawl" \/ f.type = "tax" => f.type # "duplicate" /\ f.type # "hike"
    OBVIOUS
  <2>2. QED
    BY <2>1, SprawlType, TaxType, Zenon
<1>3. ASSUME NEW key
      PROVE  /\ f.type = "duplicate" => (f \in DetectMerchantLeaks(Debits(list, key), key)
                                           <=> f \in DetectDuplicates(Debits(list, key), key))
             /\ f.type = "hike" => (f \in DetectMerchantLeaks(Debits(list, key), key)
                                      <=> f \in DetectHikes(Debits(list, key)))
  <2>1. PICK debits : debits = Debits(list, key)
    OBVIOUS
  <2>2. f \in DetectMerchantLeaks(debits, key)
          <=> \/ f \in DetectDuplicates(debits, key) \/ f \in DetectFreeTrials(debits, key)
              \/ f \in DetectZombies(debits) \/ f \in DetectHikes(debits)
    BY Zenon DEF DetectMerchantLeaks
  <2>3. /\ f \in DetectDuplicates(debits, key) => f.type = "duplicate"
        /\ f \in DetectFreeTrials(debits, key) => f.type = "trial"
        /\ f \in DetectZombies(debits) => f.type = "zombie"
        /\ f \in DetectHikes(debits) => f.type = "hike"
    BY DuplicatesType, TrialsType, ZombiesType, HikesType, Zenon
  <2>4. /\ f.type = "duplicate" => f.type # "trial" /\ f.type # "zombie" /\ f.type # "hike"
        /\ f.type = "hike" => f.type # "trial" /\ f.type # "zombie" /\ f.type # "duplicate"
    OBVIOUS
  <2>5. QED
    BY <2>1, <2>2, <2>3, <2>4, Zenon
<1>4. QED
  BY <1>1, <1>2, <1>3, Zenon

-----------------------------------------------------------------------------
(* Leaks: equal charges are duplicates                                      *)

CouldBe(key) == {row \in Row : row.amount > 300 /\ Subscription(row, key)}

Groups(list, key) == ClusterByAmount(Could(Debits(list, key), key))

\* The groups of a merchant's charges hold those that could be a subscription.
LEMMA GroupsAre ==
  ASSUME NEW list, Numbered(list), NEW key
  PROVE  /\ Groups(list, key) \in Seq(Seq(Row))
         /\ \E row : \E n \in Nat :
              /\ DOMAIN row = 1 .. n /\ Clustered(Groups(list, key), row, n)
              /\ RowSet(row) = {one \in RowSet(list) : one \in DebitsOf(key) /\ one \in CouldBe(key)}
<1>1. list \in Seq(Row) /\ Once(list)
  BY NumberedOnce, Zenon DEF Numbered
<1>2. PICK debits : debits = Debits(list, key)
  OBVIOUS
<1>3. debits = Passed(list, DebitsOf(key))
  BY <1>1, <1>2, DebitsPass, Zenon
<1>4. /\ debits \in Seq(Row) /\ Once(debits)
      /\ RowSet(debits) = {one \in RowSet(list) : one \in DebitsOf(key)}
  BY <1>1, <1>3, PassHolds, Zenon
<1>5. PICK a : a = Could(debits, key)
  OBVIOUS
<1>6. a = Passed(debits, CouldBe(key))
  <2> DEFINE S == {i \in DOMAIN debits : debits[i].amount > 300 /\ Subscription(debits[i], key)}
  <2>1. a = AtPlaces(debits, S)
    BY <1>5, Zenon DEF Could
  <2>2. S \in SUBSET DOMAIN debits
    BY Zenon
  <2>3. \A i \in DOMAIN debits : debits[i] \in Row => (i \in S <=> debits[i] \in CouldBe(key))
    BY Zenon DEF CouldBe
  <2> HIDE DEF S
  <2>4. QED
    BY <1>4, <2>1, <2>2, <2>3, PassIs, Zenon
<1>7. /\ a \in Seq(Row) /\ Once(a)
      /\ RowSet(a) = {one \in RowSet(debits) : one \in CouldBe(key)}
  BY <1>4, <1>6, PassHolds, Zenon
<1>8. PICK f : ClusterByAmount(a) = f[Len(a)] /\ Grouping(f, a)
  BY <1>7, ClusterIs, Zenon
<1>9. PICK n \in Nat : n = Len(a)
  BY <1>7, Places, Zenon
<1>10. n \in 0 .. n
  BY SMT
<1>11. PICK groups : groups = f[n]
  OBVIOUS
<1>12. groups = Groups(list, key) /\ groups \in Seq(Seq(Row))
  <2>1. groups = ClusterByAmount(a)
    BY <1>8, <1>9, <1>11, Zenon
  <2>2. groups = Groups(list, key)
    BY <1>2, <1>5, <2>1, Zenon DEF Groups
  <2>3. groups \in Seq(Seq(Row))
    BY <1>7, <2>1, ClustersTyped, Zenon
  <2>4. QED
    BY <2>2, <2>3, Zenon
<1>13. PICK row : row = ByAmount(a)
  OBVIOUS
<1>14. Clustered(groups, row, n)
  BY <1>7, <1>8, <1>9, <1>10, <1>11, <1>13, GroupsClustered, Zenon
<1>15. DOMAIN row = 1 .. n
  <2>1. row \in Seq(Row) /\ Len(row) = n
    BY <1>7, <1>9, <1>13, ByAmountIs, Zenon
  <2>2. QED
    BY <2>1, Places, Zenon
<1>16. RowSet(row) = {one \in RowSet(list) : one \in DebitsOf(key) /\ one \in CouldBe(key)}
  <2>1. Permuted(a, row)
    BY <1>7, <1>13, ByAmountOnce, Zenon
  <2>2. RowSet(row) = RowSet(a)
    BY <2>1, Zenon DEF Permuted
  <2>3. RowSet(a) = {one \in RowSet(list) : one \in DebitsOf(key) /\ one \in CouldBe(key)}
    BY <1>4, <1>7, Zenon
  <2>4. QED
    BY <2>2, <2>3, Zenon
<1>17. QED
  BY <1>12, <1>14, <1>15, <1>16

\* A duplicate with the row number i is of its merchant, and of the group it is in.
LEMMA DuplicateHolds ==
  ASSUME NEW list, Numbered(list), NEW key, NEW f \in DetectDuplicates(Debits(list, key), key),
         NEW i, i \in f.ids
  PROVE  /\ i \in DOMAIN list /\ MerchantKey(list[i]) = key
         /\ \E G : Within(Groups(list, key), G, list[i]) /\ f = DuplicateOf(Groups(list, key)[G])
<1>1. PICK groups : groups = Groups(list, key)
  OBVIOUS
<1>2. PICK G \in DOMAIN groups : f = DuplicateOf(groups[G])
  <2>1. groups = ClusterByAmount(Could(Debits(list, key), key))
    BY <1>1, Zenon DEF Groups
  <2>2. f \in DetectDuplicates(Debits(list, key), key)
          <=> \E g \in DOMAIN groups : Len(groups[g]) >= 2 /\ f = DuplicateOf(groups[g])
    BY <2>1, DuplicatesAre
  <2>3. QED
    BY <2>2, Zenon
<1>3. PICK group : group = groups[G]
  OBVIOUS
<1>4. f.ids = Ids(group)
  <2>1. f = DuplicateOf(group)
    BY <1>2, <1>3, Zenon
  <2>2. QED
    BY <2>1, DuplicateIds, Zenon
<1>5. PICK p \in DOMAIN group : group[p].id = i
  BY <1>4, Zenon DEF Ids
<1>6. Within(groups, G, group[p])
  BY <1>2, <1>3, <1>5, Zenon DEF Within
<1>7. PICK row : \E n \in Nat :
        /\ DOMAIN row = 1 .. n /\ Clustered(groups, row, n)
        /\ RowSet(row) = {one \in RowSet(list) : one \in DebitsOf(key) /\ one \in CouldBe(key)}
  BY <1>1, GroupsAre
<1>8. PICK n \in Nat :
        /\ DOMAIN row = 1 .. n /\ Clustered(groups, row, n)
        /\ RowSet(row) = {one \in RowSet(list) : one \in DebitsOf(key) /\ one \in CouldBe(key)}
  BY <1>7, Zenon
<1>9. PICK x : x = group[p]
  OBVIOUS
<1>10. PICK k \in 1 .. n : x = row[k]
  BY <1>6, <1>8, <1>9, Zenon DEF Clustered
<1>11. x \in RowSet(row)
  BY <1>8, <1>10, Zenon DEF RowSet
<1>12. x \in RowSet(list) /\ MerchantKey(x) = key
  BY <1>8, <1>11, Zenon DEF DebitsOf
<1>13. PICK m \in DOMAIN list : x = list[m]
  BY <1>12, Zenon DEF RowSet
<1>14. m = i
  <2>1. list[m].id = m
    BY Zenon DEF Numbered
  <2>2. QED
    BY <1>5, <1>9, <1>13, <2>1, Zenon
<1>15. x = list[i] /\ i \in DOMAIN list
  BY <1>13, <1>14, Zenon
<1>16. Within(groups, G, list[i])
  BY <1>6, <1>9, <1>15
<1>17. QED
  BY <1>1, <1>2, <1>12, <1>15, <1>16

Doubles(list, i, j) ==
  /\ i # j
  /\ list[i].debit /\ list[j].debit
  /\ MerchantKey(list[i]) = MerchantKey(list[j])
  /\ list[i].amount = list[j].amount /\ list[i].amount > 300
  /\ \A row \in {list[i], list[j]} : row.marker \/ MerchantKey(row) \in row.text

LEMMA DoublesMeet ==
  ASSUME NEW list, Numbered(list), NEW i \in DOMAIN list, NEW j \in DOMAIN list, Doubles(list, i, j)
  PROVE  \E f \in DetectLeaks(list) : f.type = "duplicate" /\ i \in f.ids /\ j \in f.ids
<1>1. PICK key : key = MerchantKey(list[i]) /\ key = MerchantKey(list[j])
  BY Zenon DEF Doubles
<1>2. PICK groups : groups = Groups(list, key)
  OBVIOUS
<1>3. PICK row : \E n \in Nat :
        /\ DOMAIN row = 1 .. n /\ Clustered(groups, row, n)
        /\ RowSet(row) = {one \in RowSet(list) : one \in DebitsOf(key) /\ one \in CouldBe(key)}
  BY <1>2, GroupsAre
<1>4. PICK n \in Nat :
        /\ DOMAIN row = 1 .. n /\ Clustered(groups, row, n)
        /\ RowSet(row) = {one \in RowSet(list) : one \in DebitsOf(key) /\ one \in CouldBe(key)}
  BY <1>3, Zenon
<1>5. list[i] \in Row /\ list[j] \in Row /\ list[i].id = i /\ list[j].id = j
  BY Places, Zenon DEF Numbered
<1>6. PICK r \in Row, u \in Row : r = list[i] /\ u = list[j]
  BY <1>5, Zenon
<1>7. r \in RowSet(list) /\ u \in RowSet(list)
  BY <1>6, Zenon DEF RowSet
<1>8. /\ r.debit /\ u.debit /\ MerchantKey(r) = key /\ MerchantKey(u) = key
      /\ r.amount = u.amount /\ r.amount > 300
      /\ (r.marker \/ key \in r.text) /\ (u.marker \/ key \in u.text)
  BY <1>1, <1>6, Zenon DEF Doubles
<1>9. r \in RowSet(row) /\ u \in RowSet(row)
  <2>1. u.amount > 300
    BY <1>8, Zenon
  <2>2. r \in CouldBe(key) /\ u \in CouldBe(key)
    BY <1>8, <2>1, Zenon DEF CouldBe, Subscription
  <2>3. QED
    BY <1>4, <1>7, <1>8, <2>2, Zenon DEF DebitsOf
<1>10. PICK k \in 1 .. n, l \in 1 .. n : row[k] = r /\ row[l] = u
  BY <1>4, <1>9, Zenon DEF RowSet
<1>11. PICK G : Within(groups, G, row[k])
  BY <1>4, Zenon DEF Clustered
<1>12. PICK H : Within(groups, H, row[l])
  BY <1>4, Zenon DEF Clustered
<1>13. G = H
  <2>1. row[k].amount = row[l].amount
    BY <1>8, <1>10, Zenon
  <2>2. QED
    BY <1>4, <1>11, <1>12, <2>1, Zenon DEF Clustered
<1>14. PICK group : group = groups[G]
  OBVIOUS
<1>15. PICK p \in DOMAIN group : group[p] = row[k]
  BY <1>11, <1>14, Zenon DEF Within
<1>16. PICK q \in DOMAIN group : group[q] = row[l]
  BY <1>12, <1>13, <1>14, Zenon DEF Within
<1>17. p # q
  <2>1. r # u
    BY <1>5, <1>6, Zenon DEF Doubles
  <2>2. QED
    BY <1>10, <1>15, <1>16, <2>1, Zenon
<1>18. Len(group) >= 2
  <2>1. PICK U : U = Seq(Row)
    OBVIOUS
  <2>2. groups \in Seq(U)
    BY <1>2, <2>1, GroupsAre
  <2>3. G \in DOMAIN groups
    BY <1>11, Zenon DEF Within
  <2>4. group \in U
    BY <1>14, <2>2, <2>3, Places, Zenon
  <2>5. PICK len \in Nat : len = Len(group) /\ DOMAIN group = 1 .. len
    BY <2>1, <2>4, Places, Zenon
  <2>6. len >= 2
    BY <1>17, <2>5, SMT
  <2>7. QED
    BY <2>5, <2>6, Zenon
<1>19. PICK f : f = DuplicateOf(group)
  OBVIOUS
<1>20. f.type = "duplicate" /\ f.ids = Ids(group)
  <2>1. PICK x : x = 1200 * ((Spent(group) * (Len(group) - 1)) \div Len(group))
    OBVIOUS
  <2>2. f = Finding("duplicate", "P1", x, group)
    BY <1>19, <2>1, Zenon DEF DuplicateOf
  <2>3. QED
    BY <2>2, SMT DEF Finding
<1>21. i \in f.ids /\ j \in f.ids
  <2>1. group[p].id = i /\ group[q].id = j
    BY <1>5, <1>6, <1>10, <1>15, <1>16, Zenon
  <2>2. QED
    BY <1>20, <2>1, Zenon DEF Ids
<1>22. f \in DetectDuplicates(Debits(list, key), key)
  <2>1. groups = ClusterByAmount(Could(Debits(list, key), key))
    BY <1>2, Zenon DEF Groups
  <2>2. f \in DetectDuplicates(Debits(list, key), key)
          <=> \E g \in DOMAIN groups : Len(groups[g]) >= 2 /\ f = DuplicateOf(groups[g])
    BY <2>1, DuplicatesAre
  <2>3. G \in DOMAIN groups
    BY <1>11, Zenon DEF Within
  <2>4. QED
    BY <1>14, <1>18, <1>19, <2>2, <2>3, Zenon
<1>23. key \in Merchants(list)
  BY <1>1, <1>6, <1>8, Zenon DEF Merchants
<1>24. f \in DetectLeaks(list)
  BY <1>20, <1>22, <1>23, LeaksFrom, Zenon
<1>25. QED
  BY <1>20, <1>21, <1>24, Zenon

LEMMA DuplicatesApart ==
  ASSUME NEW list, Numbered(list), NEW i,
         NEW f \in DetectLeaks(list), f.type = "duplicate", i \in f.ids,
         NEW g \in DetectLeaks(list), g.type = "duplicate", i \in g.ids
  PROVE  f = g
<1>1. PICK key \in Merchants(list) : f \in DetectDuplicates(Debits(list, key), key)
  BY LeaksFrom, Zenon
<1>2. PICK other \in Merchants(list) : g \in DetectDuplicates(Debits(list, other), other)
  BY LeaksFrom, Zenon
<1>3. /\ MerchantKey(list[i]) = key
      /\ \E G : Within(Groups(list, key), G, list[i]) /\ f = DuplicateOf(Groups(list, key)[G])
  BY <1>1, DuplicateHolds
<1>4. /\ MerchantKey(list[i]) = other
      /\ \E G : Within(Groups(list, other), G, list[i]) /\ g = DuplicateOf(Groups(list, other)[G])
  BY <1>2, DuplicateHolds
<1>5. PICK groups : groups = Groups(list, key)
  OBVIOUS
<1>6. PICK G : Within(groups, G, list[i]) /\ f = DuplicateOf(groups[G])
  BY <1>3, <1>5, Zenon
<1>7. PICK H : Within(groups, H, list[i]) /\ g = DuplicateOf(groups[H])
  <2>1. groups = Groups(list, other)
    BY <1>3, <1>4, <1>5, Zenon
  <2>2. QED
    BY <1>4, <2>1, Zenon
<1>8. PICK row : \E n \in Nat : Clustered(groups, row, n)
  BY <1>5, GroupsAre, Zenon
<1>9. G = H
  BY <1>6, <1>7, <1>8, Zenon DEF Clustered
<1>10. QED
  BY <1>6, <1>7, <1>9, Zenon

LEMMA EqualsMeet ==
  ASSUME Numbered(rows), leaks = DetectLeaks(rows)
  PROVE  EqualChargesAreDuplicates
<1>1. SUFFICES ASSUME NEW i \in DOMAIN rows, NEW j \in DOMAIN rows, Doubles(rows, i, j)
               PROVE  /\ \E f \in Of("duplicate") : {i, j} \subseteq f.ids
                      /\ \A f, g \in Of("duplicate") : i \in f.ids \cap g.ids => f = g
  BY Zenon DEF EqualChargesAreDuplicates, Doubles
<1>2. PICK f \in DetectLeaks(rows) : f.type = "duplicate" /\ i \in f.ids /\ j \in f.ids
  BY <1>1, DoublesMeet, Zenon
<1>3. f \in Of("duplicate") /\ {i, j} \subseteq f.ids
  BY <1>2, Zenon DEF Of
<1>4. ASSUME NEW g \in Of("duplicate"), NEW h \in Of("duplicate"), i \in g.ids \cap h.ids PROVE g = h
  <2>1. /\ g \in DetectLeaks(rows) /\ g.type = "duplicate" /\ i \in g.ids
        /\ h \in DetectLeaks(rows) /\ h.type = "duplicate" /\ i \in h.ids
    BY <1>4, Zenon DEF Of
  <2>2. QED
    BY <2>1, DuplicatesApart
<1>5. QED
  BY <1>3, <1>4, Zenon

-----------------------------------------------------------------------------
(* Leaks: price hikes                                                       *)

\* The charges before the last that it is a quarter above.
Risen(values, n) == {i \in 1 .. n - 1 : 4 * values[n] >= 5 * values[i]}

LEMMA Halves ==
  ASSUME NEW n \in Nat, n > 3
  PROVE  \E h \in Nat, g \in Nat : /\ h = n \div 2 /\ g = (n + 1) \div 2 /\ (h = g \/ h < g)
                       /\ 2 * h >= n - 1 /\ 1 <= h /\ g <= n - 1
<1>1. PICK h \in Nat, g \in Nat : h = n \div 2 /\ g = (n + 1) \div 2
  BY SMT
<1>2. 2 * h <= n /\ n <= 2 * h + 1
  BY <1>1, SMT
<1>3. 2 * g <= n + 1 /\ n <= 2 * g
  BY <1>1, SMT
<1>4. (h = g \/ h < g) /\ 2 * h >= n - 1 /\ 1 <= h /\ g <= n - 1
  BY <1>2, <1>3, SMT
<1>5. QED
  BY <1>1, <1>4, Zenon

LEMMA AboveHalf ==
  ASSUME NEW x \in Nat, NEW a \in Nat, NEW b \in Nat, a <= b, 4 * (2 * x - (a + b)) >= a + b
  PROVE  4 * x >= 5 * a
<1>1. 8 * x >= 5 * (a + b)
  BY SMT
<1>2. 8 * x >= 10 * a
  BY <1>1, SMT
<1>3. QED
  BY <1>2, SMT

LEMMA SumAboveZero ==
  ASSUME NEW a \in Nat, NEW b \in Nat, a > 0
  PROVE  a + b \in Nat \ {0}
BY SMT

\* What is left of a list without its end.
LEMMA FrontAs ==
  ASSUME NEW S, NEW list \in Seq(S), NEW n \in 0 .. Len(list), NEW one, one = 1,
         NEW front, front = SubSeq(list, one, n)
  PROVE  front \in Seq(S) /\ Len(front) = n /\ \A i \in 1 .. n : front[i] = list[i]
<1>1. Len(list) \in Nat /\ \A i \in 1 .. Len(list) : list[i] \in S
  BY Places, Zenon
<1>2. one \in Int /\ n \in Int /\ \A i \in one .. n : i \in 1 .. Len(list)
  BY <1>1, SMT
<1>3. \A i \in one .. n : list[i] \in S
  BY <1>1, <1>2, Zenon
<1>4. front \in Seq(S)
  BY <1>2, <1>3, SubSeqProperties, Zenon
<1>5. Len(front) = IF one <= n THEN n - one + 1 ELSE 0
  BY <1>2, <1>3, SubSeqProperties, SMT
<1>6. \A i \in 1 .. n - one + 1 : front[i] = list[one + i - 1]
  BY <1>2, <1>3, SubSeqProperties, SMT
<1>7. n - one + 1 = n /\ (IF one <= n THEN n - one + 1 ELSE 0) = n /\ \A i \in 1 .. n : one + i - 1 = i
  BY <1>1, SMT
<1>8. QED
  BY <1>4, <1>5, <1>6, <1>7, Zenon

LEMMA RisesAboveHalf ==
  ASSUME NEW values \in Seq(Nat \ {0}), NEW n \in Nat, n = Len(values), n > 3,
         4 * (2 * values[n] - TwiceBase(values)) >= TwiceBase(values)
  PROVE  /\ TwiceBase(values) \in Nat \ {0}
         /\ Risen(values, n) # {} /\ 2 * Cardinality(Risen(values, n)) >= n - 1
<1>1. PICK P : P = Nat \ {0}
  OBVIOUS
<1>2. values \in Seq(P) /\ \A x \in P : x \in Nat /\ x \in Int /\ x > 0
  BY <1>1, SMT
<1>3. DOMAIN values = 1 .. n /\ \A i \in 1 .. n : values[i] \in P
  BY <1>2, Places, Zenon
<1>4. PICK h \in Nat, g \in Nat : /\ h = n \div 2 /\ g = (n + 1) \div 2 /\ (h = g \/ h < g)
                                 /\ 2 * h >= n - 1 /\ 1 <= h /\ g <= n - 1
  BY Halves, Zenon
<1>29. PICK m \in Nat, one \in Nat : m = n - 1 /\ one = 1
  <2>1. n - 1 \in Nat /\ 1 \in Nat
    BY SMT
  <2>2. QED
    BY <2>1, Zenon
<1>5. /\ one \in 1 .. Len(values) + 1 /\ m \in one - 1 .. Len(values) /\ m - one + 1 = m
      /\ h \in 1 .. m /\ g \in 1 .. m /\ (h < g \/ h = g) /\ 2 * h >= n - 1 /\ one \in 1 .. h
      /\ \A k \in 1 .. h : k \in 1 .. m /\ (k < h \/ k = h)
      /\ \A i \in 1 .. m : i \in 1 .. n /\ i \in 1 .. n - 1
  <2>1. one \in 1 .. Len(values) + 1 /\ m \in one - 1 .. Len(values) /\ m - one + 1 = m
    BY <1>29, SMT
  <2>2. h \in 1 .. m /\ g \in 1 .. m /\ one \in 1 .. h
    BY <1>4, <1>29, SMT
  <2>3. \A k \in 1 .. h : k \in 1 .. m /\ (k < h \/ k = h)
    BY <2>2, SMT
  <2>4. \A i \in 1 .. m : i \in 1 .. n /\ i \in 1 .. n - 1
    BY <1>29, SMT
  <2>5. QED
    BY <1>4, <2>1, <2>2, <2>3, <2>4, Zenon
<1>6. PICK v : v = SubSeq(values, one, m)
  OBVIOUS
<1>7. v \in Seq(P) /\ Len(v) = m /\ \A i \in 1 .. m : v[i] = values[i]
  <2>1. m \in 0 .. Len(values)
    BY <1>29, SMT
  <2>2. one = 1
    BY <1>29, Zenon
  <2>3. values \in Seq(P)
    BY <1>2, Zenon
  <2>4. QED
    BY <1>6, <2>1, <2>2, <2>3, FrontAs, SMT
<1>8. v \in [1 .. Len(v) -> Int] /\ \A i \in 1 .. m : v[i] \in P
  <2>1. DOMAIN v = 1 .. m /\ \A i \in 1 .. m : v[i] \in P
    BY <1>7, Places, Zenon
  <2>2. v = [i \in 1 .. m |-> v[i]]
    BY <1>7, <2>1
  <2>3. v \in [1 .. m -> Int]
    BY <1>2, <2>1, <2>2, Zenon
  <2>4. QED
    BY <1>7, <2>1, <2>3, Zenon
<1>9. PICK earlier : earlier = SortedBy(v, v)
  OBVIOUS
<1>10. /\ earlier \in Seq(P) /\ Len(earlier) = Len(v)
       /\ \A k \in 1 .. Len(v) : StablePlace(v, k) \in 1 .. Len(v) /\ earlier[k] = v[StablePlace(v, k)]
       /\ \A k, l \in 1 .. Len(v) : k < l => Earlier(v, StablePlace(v, k), StablePlace(v, l))
  BY <1>7, <1>8, <1>9, SortedByProperties, ZenonT(60)
<1>11. PICK place : place = [k \in 1 .. m |-> StablePlace(v, k)]
  OBVIOUS
<1>12. /\ \A k \in 1 .. m : place[k] \in 1 .. m /\ earlier[k] = v[place[k]]
       /\ \A k, l \in 1 .. m : k < l => Earlier(v, place[k], place[l])
  BY <1>7, <1>10, <1>11, Zenon
<1>13. ASSUME NEW k \in 1 .. m, NEW l \in 1 .. m, k < l
       PROVE  earlier[k] <= earlier[l] /\ place[k] # place[l]
  <2>1. PICK i \in 1 .. m, j \in 1 .. m : i = place[k] /\ j = place[l]
    BY <1>12, Zenon
  <2>2. PICK x \in Int, y \in Int : x = v[i] /\ y = v[j]
    BY <1>2, <1>8, Zenon
  <2>3. x < y \/ (x = y /\ i < j)
    BY <1>12, <1>13, <2>1, <2>2, Zenon DEF Earlier
  <2>4. x <= y /\ i # j
    BY <2>2, <2>3, SMT
  <2>5. QED
    BY <1>12, <2>1, <2>2, <2>4, Zenon
<1>14. PICK a \in Nat, b \in Nat : a = earlier[h] /\ b = earlier[g] /\ a > 0
  <2>1. earlier[h] \in P /\ earlier[g] \in P
    BY <1>5, <1>8, <1>12, Zenon
  <2>2. QED
    BY <1>2, <2>1, Zenon
<1>15. a <= b
  <2>1. CASE h < g
    BY <1>5, <1>13, <1>14, <2>1, Zenon
  <2>2. CASE h = g
    <3>1. a = b
      BY <1>14, <2>2, Zenon
    <3>2. QED
      BY <3>1, SMT
  <2>3. QED
    BY <1>5, <2>1, <2>2, Zenon
<1>16. TwiceBase(values) = a + b
  <2> DEFINE len == Len(values)
             before == SubSeq(values, 1, len - 1)
             sorted == SortedBy(before, before)
  <2>1. TwiceBase(values) = IF len > 3 THEN sorted[len \div 2] + sorted[(len + 1) \div 2]
                                       ELSE 2 * Min(Range(values))
    BY Zenon DEF TwiceBase
  <2>2. before = v
    BY <1>6, <1>29
  <2>3. sorted = earlier
    BY <1>9, <2>2, Zenon
  <2>4. sorted[len \div 2] = a /\ sorted[(len + 1) \div 2] = b
    <3>1. len \div 2 = h /\ (len + 1) \div 2 = g
      BY <1>4
    <3> HIDE DEF sorted, len
    <3>2. QED
      BY <1>14, <2>3, <3>1, Zenon
  <2>5. len > 3
    OBVIOUS
  <2> HIDE DEF sorted, len
  <2>6. QED
    BY <2>1, <2>4, <2>5, Zenon
<1>17. PICK last \in Nat : last = values[n]
  <2>1. n \in 1 .. n
    BY SMT
  <2>2. QED
    BY <1>2, <1>3, <2>1, Zenon
<1>18. 4 * last >= 5 * a /\ a + b \in Nat \ {0}
  <2>1. 4 * (2 * last - (a + b)) >= a + b
    BY <1>16, <1>17, Zenon
  <2>3. 4 * last >= 5 * a
    BY <1>15, <2>1, AboveHalf, Zenon
  <2>4. a + b \in Nat \ {0}
    BY <1>14, SumAboveZero, Zenon
  <2>5. QED
    BY <2>3, <2>4, Zenon
<1>19. PICK risen : risen = Risen(values, n)
  OBVIOUS
<1>20. ASSUME NEW k \in 1 .. h PROVE place[k] \in risen
  <2>1. k \in 1 .. m /\ (k < h \/ k = h) /\ h \in 1 .. m
    BY <1>5, Zenon
  <2>2. PICK i \in 1 .. m : i = place[k] /\ earlier[k] = values[i]
    BY <1>7, <1>12, <2>1, Zenon
  <2>3. PICK x \in Nat : x = values[i]
    BY <1>2, <1>3, <1>5, Zenon
  <2>4. x <= a
    <3>1. CASE k < h
      BY <1>13, <1>14, <2>1, <2>2, <2>3, <3>1, Zenon
    <3>2. CASE k = h
      <4>1. x = a
        BY <1>14, <2>2, <2>3, <3>2, Zenon
      <4>2. QED
        BY <4>1, SMT
    <3>3. QED
      BY <2>1, <3>1, <3>2, Zenon
  <2>5. 4 * last >= 5 * x
    BY <1>18, <2>4, SMT
  <2>6. 4 * values[n] >= 5 * values[i]
    BY <1>17, <2>3, <2>5, Zenon
  <2>7. i \in risen
    BY <1>5, <1>19, <2>6, Zenon DEF Risen
  <2>8. QED
    BY <2>2, <2>7, Zenon
<1>21. risen # {}
  BY <1>5, <1>20, Zenon
<1>22. IsFiniteSet(risen) /\ Cardinality(risen) \in Nat
  <2>1. risen \subseteq 1 .. m
    BY <1>19, <1>29, Zenon DEF Risen
  <2>2. IsFiniteSet(1 .. m)
    BY FS_Interval
  <2>3. QED
    BY <2>1, <2>2, FS_Subset, FS_CardinalityType, Zenon
<1>23. PICK S : S = 1 .. h
  OBVIOUS
<1>24. Cardinality(S) = h
  <2>1. Cardinality(1 .. h) = h
    BY FS_Interval, SMT
  <2>2. QED
    BY <1>23, <2>1, Zenon
<1>25. h <= Cardinality(risen)
  <2>1. PICK f : f = [k \in S |-> place[k]]
    OBVIOUS
  <2>2. f \in [S -> risen]
    BY <1>20, <1>23, <2>1, Zenon
  <2>3. ASSUME NEW k \in S, NEW l \in S, f[k] = f[l] PROVE k = l
    <3>1. k \in 1 .. m /\ l \in 1 .. m /\ place[k] = place[l]
      BY <1>5, <1>23, <2>1, <2>3, Zenon
    <3>2. ~ (k < l) /\ ~ (l < k)
      BY <1>13, <3>1, Zenon
    <3>3. QED
      BY <3>1, <3>2, SMT
  <2>4. f \in Injection(S, risen)
    BY <2>2, <2>3 DEF Injection, IsInjective
  <2>5. Cardinality(S) <= Cardinality(risen)
    BY <1>22, <2>4, FS_Injection
  <2>6. QED
    BY <1>24, <2>5, Zenon
<1>26. PICK c \in Nat : c = Cardinality(risen)
  BY <1>22, Zenon
<1>27. 2 * c >= n - 1
  BY <1>5, <1>25, <1>26, SMT
<1>28. QED
  BY <1>16, <1>18, <1>19, <1>21, <1>26, <1>27, Zenon

LEMMA RisesAboveLeast ==
  ASSUME NEW values \in Seq(Nat \ {0}), NEW n \in Nat, n = Len(values), n = 3,
         4 * (2 * values[n] - TwiceBase(values)) >= TwiceBase(values)
  PROVE  TwiceBase(values) \in Nat \ {0} /\ Risen(values, n) # {}
<1>1. PICK P : P = Nat \ {0}
  OBVIOUS
<1>2. values \in Seq(P) /\ \A x \in P : x \in Nat /\ x > 0
  BY <1>1, SMT
<1>3. DOMAIN values = 1 .. n /\ \A i \in 1 .. n : values[i] \in P
  BY <1>2, Places, Zenon
<1>4. PICK S : S = Range(values)
  OBVIOUS
<1>5. S \in SUBSET Nat /\ \A i \in 1 .. n : values[i] \in S
  BY <1>2, <1>3, <1>4, Zenon DEF Range
<1>6. S # {}
  <2>1. n \in 1 .. n
    BY SMT
  <2>2. QED
    BY <1>5, <2>1, Zenon
<1>7. \E m \in S : \A k \in S : m <= k
  BY <1>5, <1>6, LeastOf
<1>8. PICK m : m = Min(S)
  OBVIOUS
<1>9. m \in S
  BY <1>7, <1>8, Zenon DEF Min
<1>10. PICK i \in 1 .. n : values[i] = m
  BY <1>3, <1>4, <1>9, Zenon DEF Range
<1>11. m \in Nat /\ m > 0
  BY <1>2, <1>3, <1>10, Zenon
<1>12. TwiceBase(values) = 2 * m
  <2> DEFINE len == Len(values)
             before == SubSeq(values, 1, len - 1)
             sorted == SortedBy(before, before)
  <2>1. TwiceBase(values) = IF len > 3 THEN sorted[len \div 2] + sorted[(len + 1) \div 2]
                                       ELSE 2 * Min(Range(values))
    BY Zenon DEF TwiceBase
  <2>2. ~ (len > 3)
    OBVIOUS
  <2> HIDE DEF sorted, len
  <2>3. QED
    BY <1>4, <1>8, <2>1, <2>2, Zenon
<1>13. PICK last \in Nat : last = values[n]
  <2>1. n \in 1 .. n
    BY SMT
  <2>2. QED
    BY <1>2, <1>3, <2>1, Zenon
<1>14. 4 * (2 * last - 2 * m) >= 2 * m
  BY <1>12, <1>13, Zenon
<1>15. 4 * last >= 5 * m /\ last # m /\ 2 * m \in Nat \ {0}
  BY <1>11, <1>14, SMT
<1>16. i # n
  BY <1>10, <1>13, <1>15, Zenon
<1>17. i \in 1 .. n - 1
  BY <1>16, SMT
<1>18. 4 * values[n] >= 5 * values[i]
  BY <1>10, <1>13, <1>15, Zenon
<1>19. i \in Risen(values, n)
  BY <1>17, <1>18, Zenon DEF Risen
<1>20. QED
  BY <1>12, <1>15, <1>19, Zenon

\* Some of the rows of a statement, in its order, are listed.
LEMMA PartListed ==
  ASSUME NEW list, Numbered(list), NEW S \in SUBSET DOMAIN list
  PROVE  Listed(AtPlaces(list, S))
<1>1. PICK R : R = Row
  OBVIOUS
<1>2. list \in Seq(R)
  BY <1>1, Zenon DEF Numbered
<1>3. PICK c, part : c = Cardinality(S) /\ part = AtPlaces(list, S)
  OBVIOUS
<1>4. /\ part \in Seq(R) /\ Len(part) = c
      /\ \A k \in 1 .. c : Place(S, k) \in S /\ part[k] = list[Place(S, k)]
      /\ \A k, l \in 1 .. c : k < l => Place(S, k) < Place(S, l)
  BY <1>2, <1>3, AtPlacesProperties, ZenonT(60)
<1>5. DOMAIN part = 1 .. c
  BY <1>4, Places, Zenon
<1>6. ASSUME NEW k \in 1 .. c, NEW l \in 1 .. c, k < l PROVE part[k].id < part[l].id
  <2>1. PICK i \in S, j \in S : i = Place(S, k) /\ j = Place(S, l)
    BY <1>4, Zenon
  <2>2. i < j /\ part[k] = list[i] /\ part[l] = list[j]
    BY <1>4, <1>6, <2>1, Zenon
  <2>3. list[i].id = i /\ list[j].id = j
    BY Zenon DEF Numbered
  <2>4. QED
    BY <2>2, <2>3, Zenon
<1>7. QED
  BY <1>3, <1>5, <1>6, Zenon DEF Listed

Named(list, ids) == AtPlaces(list, {i \in DOMAIN list : list[i].id \in ids})

\* The rows a finding names, by day, are those the detector had.
LEMMA NamedByDay ==
  ASSUME NEW list, Numbered(list), NEW ordered \in Seq(Row), InOrder(ordered),
         RowSet(ordered) \subseteq RowSet(list), NEW ids, ids = Ids(ordered)
  PROVE  ByDay(Named(list, ids)) = ordered
<1> DEFINE S == {i \in DOMAIN list : list[i].id \in ids}
<1>1. Named(list, ids) = AtPlaces(list, S)
  BY Zenon DEF Named
<1>2. S \in SUBSET DOMAIN list
  BY Zenon
<1>3. \A i : i \in S <=> i \in DOMAIN list /\ list[i].id \in ids
  BY Zenon
<1> HIDE DEF S
<1>4. list \in Seq(Row) /\ Once(list) /\ \A i \in DOMAIN list : list[i].id = i
  BY NumberedOnce, Zenon DEF Numbered
<1>5. PICK named : named = AtPlaces(list, S)
  OBVIOUS
<1>6. named \in Seq(Row) /\ RowSet(named) = {list[i] : i \in S} /\ Once(named)
  BY <1>2, <1>4, <1>5, PlacesRows, Zenon
<1>7. Listed(named)
  BY <1>2, <1>5, PartListed, Zenon
<1>8. PICK days : days = ByDay(named)
  OBVIOUS
<1>9. Permuted(named, days) /\ InOrder(days)
  BY <1>6, <1>7, <1>8, ByDayIs, Zenon
<1>10. days \in Seq(Row) /\ RowSet(days) = RowSet(named)
  BY <1>9, Zenon DEF Permuted
<1>11. RowSet(named) = RowSet(ordered)
  <2>1. ASSUME NEW row \in RowSet(named) PROVE row \in RowSet(ordered)
    <3>1. PICK i \in S : row = list[i]
      BY <1>6, Zenon
    <3>2. list[i].id = i /\ i \in DOMAIN list /\ list[i].id \in ids
      BY <1>3, <1>4, Zenon
    <3>3. PICK p \in DOMAIN ordered : ordered[p].id = i
      BY <3>2, Zenon DEF Ids
    <3>4. PICK j \in DOMAIN list : ordered[p] = list[j]
      BY Zenon DEF RowSet
    <3>5. j = i
      BY <1>4, <3>3, <3>4, Zenon
    <3>6. QED
      BY <3>1, <3>4, <3>5, Zenon DEF RowSet
  <2>2. ASSUME NEW row \in RowSet(ordered) PROVE row \in RowSet(named)
    <3>1. PICK p \in DOMAIN ordered : row = ordered[p]
      BY Zenon DEF RowSet
    <3>2. PICK i \in DOMAIN list : row = list[i]
      BY <2>2, Zenon DEF RowSet
    <3>3. list[i].id \in ids
      BY <3>1, <3>2, Zenon DEF Ids
    <3>4. i \in S
      BY <1>3, <3>3, Zenon
    <3>5. QED
      BY <1>6, <3>2, <3>4, Zenon
  <2>3. QED
    BY <2>1, <2>2, Zenon
<1>12. days = ordered
  BY <1>9, <1>10, <1>11, OrderIsOne, Zenon
<1>13. QED
  BY <1>1, <1>5, <1>8, <1>12, Zenon

HikeOf(f, list, ordered) ==
  /\ ordered \in Seq(Row) /\ InOrder(ordered) /\ RowSet(ordered) \subseteq RowSet(list)
  /\ f.ids = Ids(ordered)

Rises(f, values) ==
  /\ values \in Seq(Nat \ {0}) /\ Len(values) >= 3
  /\ 4 * (2 * values[Len(values)] - TwiceBase(values)) >= TwiceBase(values)
  /\ f.impact = 600 * (2 * values[Len(values)] - TwiceBase(values))

\* What the detector makes of the debits of a merchant.
LEMMA HikeHolds ==
  ASSUME NEW list, Numbered(list), NEW key, NEW f \in DetectHikes(Debits(list, key))
  PROVE  \E ordered : HikeOf(f, list, ordered) /\ Rises(f, Amounts(ordered))
<1>1. PICK debits : debits = Debits(list, key)
  OBVIOUS
<1>2. list \in Seq(Row) /\ Once(list)
  BY NumberedOnce, Zenon DEF Numbered
<1>3. /\ debits \in Seq(Row) /\ Once(debits)
      /\ RowSet(debits) = {one \in RowSet(list) : one \in DebitsOf(key)}
  <2>1. debits = Passed(list, DebitsOf(key))
    BY <1>1, <1>2, DebitsPass, Zenon
  <2>2. QED
    BY <1>2, <2>1, PassHolds, Zenon
<1>4. Listed(debits)
  <2> DEFINE S == {i \in DOMAIN list : list[i].debit /\ MerchantKey(list[i]) = key}
  <2>1. debits = AtPlaces(list, S)
    BY <1>1, Zenon DEF Debits, Where
  <2>2. S \in SUBSET DOMAIN list
    BY Zenon
  <2> HIDE DEF S
  <2>3. QED
    BY <2>1, <2>2, PartListed, Zenon
<1>5. PICK days : days = ByDay(debits)
  OBVIOUS
<1>6. Permuted(debits, days) /\ InOrder(days)
  BY <1>3, <1>4, <1>5, ByDayIs, Zenon
<1>7. days \in Seq(Row) /\ RowSet(days) = RowSet(debits)
  BY <1>6, Zenon DEF Permuted
<1>8. PICK T : T = {i \in DOMAIN days : days[i].amount > 100}
  OBVIOUS
<1>9. T \in SUBSET DOMAIN days
  BY <1>8, Zenon
<1>10. PICK ordered : ordered = AtPlaces(days, T)
  OBVIOUS
<1>11. ordered \in Seq(Row) /\ RowSet(ordered) = {days[i] : i \in T}
  BY <1>7, <1>9, <1>10, PlacesRows, Zenon
<1>12. InOrder(ordered)
  BY <1>6, <1>7, <1>9, <1>10, InOrderPart, Zenon
<1>13. RowSet(ordered) \subseteq RowSet(list)
  <2>1. RowSet(ordered) \subseteq RowSet(days)
    BY <1>9, <1>11, Zenon DEF RowSet
  <2>2. QED
    BY <1>3, <1>7, <2>1, Zenon
<1>14. PICK values : values = [i \in DOMAIN ordered |-> ordered[i].amount]
  OBVIOUS
<1>15. PICK n \in Nat : n = Len(ordered) /\ DOMAIN ordered = 1 .. n
  BY <1>11, Places, Zenon
<1>16. PICK P : P = Nat \ {0}
  OBVIOUS
<1>17. values \in Seq(P) /\ Len(values) = n
  <2>1. ASSUME NEW i \in 1 .. n PROVE ordered[i].amount \in P
    <3>1. PICK row \in Row : row = ordered[i]
      BY <1>11, <1>15, Places, Zenon
    <3>2. row.amount \in P
      BY <1>16, RowFields, Zenon
    <3>3. QED
      BY <3>1, <3>2, Zenon
  <2>2. values \in [1 .. n -> P]
    BY <1>14, <1>15, <2>1, Zenon
  <2>3. QED
    BY <2>2
<1>18. PICK rise : rise = 2 * Last(values) - TwiceBase(values)
  OBVIOUS
<1>19. DetectHikes(debits) = Verdict(values, rise, ordered)
  <2>1. ordered = Dear(ByDay(debits))
    BY <1>5, <1>8, <1>10, Zenon DEF Dear
  <2>2. values = Amounts(ordered)
    BY <1>14, Zenon DEF Amounts
  <2>3. QED
    BY <1>18, <2>1, <2>2, HikesSay, Zenon
<1>20. n >= 3 /\ 4 * rise >= TwiceBase(values) /\ f = Finding("hike", "P2", 600 * rise, ordered)
  <2>1. f \in Verdict(values, rise, ordered)
    BY <1>1, <1>19, Zenon
  <2>2. QED
    BY <1>17, <2>1, SMT DEF Verdict
<1>21. f.ids = Ids(ordered) /\ f.impact = 600 * rise
  <2>1. PICK x : x = 600 * rise
    OBVIOUS
  <2>2. f = Finding("hike", "P2", x, ordered)
    BY <1>20, <2>1, Zenon
  <2>3. f.ids = Ids(ordered) /\ f.impact = x
    BY <2>2, SMT DEF Finding
  <2>4. QED
    BY <2>1, <2>3, Zenon
<1>22. Rises(f, values)
  <2>1. Last(values) = values[Len(values)]
    BY Zenon DEF Last
  <2>2. values \in Seq(Nat \ {0})
    BY <1>16, <1>17, Zenon
  <2>3. PICK last, base : last = Last(values) /\ base = TwiceBase(values)
    OBVIOUS
  <2>4. rise = 2 * last - base /\ 4 * rise >= base /\ f.impact = 600 * rise /\ last = values[Len(values)]
    BY <1>18, <1>20, <1>21, <2>1, <2>3
  <2>5. Len(values) >= 3
    BY <1>17, <1>20, Zenon
  <2>6. 4 * (2 * last - base) >= base /\ f.impact = 600 * (2 * last - base)
    BY <2>4
  <2>7. QED
    BY <2>2, <2>3, <2>4, <2>5, <2>6 DEF Rises
<1>23. HikeOf(f, list, ordered)
  BY <1>11, <1>12, <1>13, <1>21, Zenon DEF HikeOf
<1>24. values = Amounts(ordered)
  BY <1>14, Zenon DEF Amounts
<1>25. QED
  BY <1>22, <1>23, <1>24, Zenon

LEMMA RiseArithmetic ==
  ASSUME NEW last \in Nat, NEW base \in Nat \ {0}, NEW rise, rise = 2 * last - base, 4 * rise >= base
  PROVE  600 * rise > 0 /\ 600 * rise < 1200 * last
<1>1. rise \in Int /\ rise > 0 /\ rise < 2 * last
  BY SMT
<1>2. QED
  BY <1>1, SMT

LEMMA HikesRise ==
  ASSUME Numbered(rows), leaks = DetectLeaks(rows)
  PROVE  HikeIsARise
<1> DEFINE Good(f, n, latest, risen) ==
             /\ f.impact > 0 /\ f.impact < 1200 * latest
             /\ risen # {}
             /\ n > 3 => 2 * Cardinality(risen) >= n - 1
           Goal(f, ordered) ==
             Good(f, Len(ordered), ordered[Len(ordered)].amount,
                  {i \in 1 .. Len(ordered) - 1 : 4 * ordered[Len(ordered)].amount >= 5 * ordered[i].amount})
<1>1. SUFFICES ASSUME NEW f \in Of("hike")
               PROVE  Goal(f, ByDay(Where(rows, LAMBDA row : row.id \in f.ids)))
  BY Zenon DEF HikeIsARise
<1>2. f \in DetectLeaks(rows) /\ f.type = "hike"
  BY Zenon DEF Of
<1>3. PICK key \in Merchants(rows) : f \in DetectHikes(Debits(rows, key))
  BY <1>2, LeaksFrom, Zenon
<1>4. PICK ordered : HikeOf(f, rows, ordered) /\ Rises(f, Amounts(ordered))
  BY <1>3, HikeHolds
<1>5. PICK values : values = Amounts(ordered)
  OBVIOUS
<1>6. ByDay(Where(rows, LAMBDA row : row.id \in f.ids)) = ordered
  <2>1. Where(rows, LAMBDA row : row.id \in f.ids) = Named(rows, f.ids)
    BY Zenon DEF Where, Named
  <2>2. ByDay(Named(rows, f.ids)) = ordered
    <3>1. /\ ordered \in Seq(Row) /\ InOrder(ordered) /\ RowSet(ordered) \subseteq RowSet(rows)
          /\ f.ids = Ids(ordered)
      BY <1>4, Zenon DEF HikeOf
    <3>2. PICK ids : ids = f.ids
      OBVIOUS
    <3>3. ByDay(Named(rows, ids)) = ordered
      BY <3>1, <3>2, NamedByDay
    <3>4. QED
      BY <3>2, <3>3, Zenon
  <2>3. QED
    BY <2>1, <2>2, Zenon
<1>7. PICK n \in Nat : /\ n = Len(values) /\ n = Len(ordered) /\ n >= 3 /\ values \in Seq(Nat \ {0})
                       /\ DOMAIN ordered = 1 .. n
  <2>1. values \in Seq(Nat \ {0}) /\ Len(values) >= 3
    BY <1>4, <1>5, Zenon DEF Rises
  <2>2. PICK n \in Nat : n = Len(ordered) /\ DOMAIN ordered = 1 .. n
    BY <1>4, Places, Zenon DEF HikeOf
  <2>3. DOMAIN values = 1 .. n
    BY <1>5, <2>2, Zenon DEF Amounts
  <2>4. Len(values) = n
    <3>1. PICK s \in Seq(Nat) : s = values
      BY <2>1, SMT
    <3>2. DOMAIN s = 1 .. n
      BY <2>3, <3>1, Zenon
    <3>3. Len(s) = n
      BY <3>2, SMT
    <3>4. QED
      BY <3>1, <3>3, Zenon
  <2>5. QED
    BY <2>1, <2>2, <2>4, Zenon
<1>8. /\ TwiceBase(values) \in Nat \ {0} /\ Risen(values, n) # {}
      /\ n > 3 => 2 * Cardinality(Risen(values, n)) >= n - 1
  <2>1. n > 3 \/ (n = 3 /\ ~ (n > 3))
    <3>1. n >= 3
      BY <1>7, Zenon
    <3>2. QED
      BY <3>1, SMT
  <2>2. 4 * (2 * values[n] - TwiceBase(values)) >= TwiceBase(values)
    BY <1>4, <1>5, <1>7, Zenon DEF Rises
  <2>3. n = Len(values) /\ values \in Seq(Nat \ {0})
    BY <1>7, Zenon
  <2>4. CASE n > 3
    <3>1. TwiceBase(values) \in Nat \ {0} /\ Risen(values, n) # {} /\ 2 * Cardinality(Risen(values, n)) >= n - 1
      BY <2>2, <2>3, <2>4, RisesAboveHalf
    <3>2. QED
      BY <3>1, Zenon
  <2>5. CASE n = 3 /\ ~ (n > 3)
    <3>1. TwiceBase(values) \in Nat \ {0} /\ Risen(values, n) # {}
      BY <2>2, <2>3, <2>5, RisesAboveLeast
    <3>2. QED
      BY <2>5, <3>1, Zenon
  <2>6. QED
    BY <2>1, <2>4, <2>5, Zenon
<1>9. DOMAIN ordered = 1 .. n /\ ordered \in Seq(Row) /\ n >= 3
  BY <1>4, <1>7, Zenon DEF HikeOf
<1>10. n \in 1 .. n /\ \A i \in 1 .. n - 1 : i \in 1 .. n
  BY <1>9, SMT
<1>11. PICK latest : latest = ordered[n].amount
  OBVIOUS
<1>12. values[n] = latest /\ \A i \in 1 .. n - 1 : values[i] = ordered[i].amount
  BY <1>5, <1>9, <1>10, <1>11, Zenon DEF Amounts
<1>13. latest \in Nat
  <2>1. PICK row \in Row : row = ordered[n]
    BY <1>9, <1>10, Places, Zenon
  <2>2. row.amount \in Nat
    BY RowFields, SMT
  <2>3. QED
    BY <1>11, <2>1, <2>2, Zenon
<1>14. f.impact > 0 /\ f.impact < 1200 * latest
  <2>1. PICK base \in Nat \ {0} : base = TwiceBase(values)
    BY <1>8, Zenon
  <2>2. PICK rise : rise = 2 * latest - base
    OBVIOUS
  <2>3. values[Len(values)] = latest /\ Rises(f, values)
    BY <1>4, <1>5, <1>7, <1>12, Zenon
  <2>4. 4 * rise >= base /\ f.impact = 600 * rise
    BY <2>1, <2>2, <2>3 DEF Rises
  <2>5. 600 * rise > 0 /\ 600 * rise < 1200 * latest
    BY <1>13, <2>1, <2>2, <2>4, RiseArithmetic
  <2>6. QED
    BY <2>4, <2>5
<1>15. {i \in 1 .. n - 1 : 4 * latest >= 5 * ordered[i].amount} = Risen(values, n)
  <2>1. \A i \in 1 .. n - 1 : 4 * latest >= 5 * ordered[i].amount <=> 4 * values[n] >= 5 * values[i]
    BY <1>12, Zenon
  <2>2. QED
    BY <2>1, Zenon DEF Risen
<1>16. Goal(f, ordered)
  <2>1. n = Len(ordered)
    BY <1>7, Zenon
  <2>2. Good(f, n, latest, Risen(values, n))
    BY <1>8, <1>14, Zenon
  <2> HIDE DEF Good
  <2>3. Goal(f, ordered)
    BY <1>11, <1>15, <2>1, <2>2, Zenon
  <2>4. QED
    BY <2>3, Zenon
<1> HIDE DEF Goal
<1>17. QED
  BY <1>6, <1>16

-----------------------------------------------------------------------------
(* Leaks: the inductive invariant                                           *)

Nodes == {"leak_detector", "gst_sentinel", "cleanup_planner", "build_audit_output", "end"}

SummaryOf(list, merged, found, said) ==
  [total_transactions |-> Len(list) + merged,
   leak_count |-> Cardinality(found),
   total_leak_amount |-> Impact(found),
   missed_itc |-> Missed(said),
   risk_score |-> ComputeRiskScore(found, said, list),
   review_count |-> Reviews(list)]

\* What the nodes that have run have left, and nothing yet of the others: the
\* tokens keep their order, so the leaks are still those of the rows.
LeakInv ==
  /\ tokens \in SetToSeqs(Tokens)
  /\ node \in Nodes
  /\ Numbered(rows)
  /\ repeats \in 0 .. MaxRepeats
  /\ Found(leaks)
  /\ leaks = IF node = "leak_detector" THEN {} ELSE DetectLeaks(rows)
  /\ gst = IF node \in {"leak_detector", "gst_sentinel"} THEN {} ELSE Analyze(rows)
  /\ tasks = IF node \in {"build_audit_output", "end"} THEN Plan(leaks, gst) ELSE {}
  /\ summary = IF node = "end" THEN SummaryOf(rows, repeats, leaks, gst) ELSE None

LEMMA NoFindings == Found({})
BY FS_EmptySet, Zenon DEF Found

LEMMA NumberedStarts ==
  ASSUME NEW len \in 0 .. MaxRows, NEW charge \in [1 .. len -> Charges],
         NEW list, list = [i \in 1 .. len |-> RowOf(i, charge[i])]
  PROVE  Numbered(list)
<1>1. MaxRows \in Nat
  BY LeakConstants, Zenon
<1>2. len \in Nat /\ len <= MaxRows /\ \A i \in 1 .. len : i \in 1 .. MaxRows
  BY <1>1, SMT
<1>3. ASSUME NEW i \in 1 .. len PROVE list[i] \in Row /\ list[i].id = i
  <2>1. PICK c \in Charges : c = charge[i]
    BY Zenon
  <2>2. list[i] = RowOf(i, c)
    BY <2>1, Zenon
  <2>3. RowOf(i, c) \in Row
    <3>1. RowOf(i, c) \in RowsOf(i) /\ i \in 1 .. MaxRows
      BY <1>2, Zenon DEF RowsOf
    <3>2. QED
      BY <3>1, Zenon DEF Row
  <2>4. RowOf(i, c).id = i
    BY SMT DEF RowOf
  <2>5. QED
    BY <2>2, <2>3, <2>4, Zenon
<1>4. PICK R : R = Row
  OBVIOUS
<1>5. DOMAIN list = 1 .. len /\ list = [i \in 1 .. len |-> list[i]]
  BY Zenon
<1>6. list \in [1 .. len -> R]
  BY <1>3, <1>4, <1>5, Zenon
<1>7. list \in Seq(R) /\ Len(list) = len
  <2>1. PICK s : s = list
    OBVIOUS
  <2>2. s \in [1 .. len -> R]
    BY <1>6, <2>1, Zenon
  <2>3. s \in Seq(R) /\ Len(s) = len
    BY <1>2, <2>2, SMT
  <2>4. QED
    BY <2>1, <2>3, Zenon
<1>8. QED
  BY <1>2, <1>3, <1>4, <1>5, <1>7, Zenon DEF Numbered

LEMMA NoRowsNumbered == Numbered(<< >>)
<1>1. MaxRows \in Nat
  BY LeakConstants, Zenon
<1>2. PICK R : R = Row
  OBVIOUS
<1>3. << >> \in Seq(R) /\ Len(<< >>) = 0 /\ DOMAIN << >> = {} /\ Len(<< >>) <= MaxRows
  BY <1>1, SMT
<1>4. QED
  BY <1>2, <1>3, Zenon DEF Numbered

\* The order in which an idle process has its tokens is one of the orders.
LEMMA TokensInOrder == SetToSeq(Tokens) \in SetToSeqs(Tokens)
<1> DEFINE D == 1 .. Cardinality(Tokens)
           One(f) == f \in [D -> Tokens] /\ \A a, b \in DOMAIN f : f[a] = f[b] => a = b
<1>1. \E f : One(f)
  <2>1. ExistsBijection(D, Tokens)
    BY LeakConstants, FS_CardinalityType, Zenon
  <2>2. PICK f : f \in Bijection(D, Tokens)
    BY <2>1, Zenon DEF ExistsBijection
  <2>3. f \in [D -> Tokens] /\ \A a, b \in D : f[a] = f[b] => a = b
    BY <2>2 DEF Bijection, Injection, IsInjective
  <2>4. DOMAIN f = D
    <3> HIDE DEF D
    <3> QED BY <2>3, Zenon
  <2>5. QED
    <3> HIDE DEF D
    <3> QED BY <2>3, <2>4, Zenon
<1>2. PICK f : f = SetToSeq(Tokens)
  OBVIOUS
<1>3. One(f)
  BY <1>1, <1>2, ZenonT(90) DEF SetToSeq, IsInjective
<1>4. f \in [D -> Tokens] /\ \A i, j \in D : i # j => f[i] # f[j]
  <2>1. DOMAIN f = D
    <3> HIDE DEF D
    <3> QED BY <1>3, Zenon
  <2>2. QED
    <3> HIDE DEF D
    <3> QED BY <1>3, <2>1, Zenon
<1>5. QED
  BY <1>2, <1>4, Zenon DEF SetToSeqs

LEMMA LeaksStart == Init \/ LeaksIdle => LeakInv
<1> SUFFICES ASSUME Init \/ LeaksIdle PROVE LeakInv
  OBVIOUS
<1>1. /\ node = "leak_detector" /\ leaks = {} /\ gst = {} /\ tasks = {} /\ summary = None
      /\ tokens \in SetToSeqs(Tokens)
  BY TokensInOrder, Zenon DEF Init, LeaksIdle
<1>2. repeats \in 0 .. MaxRepeats
  <2>1. CASE Init
    BY <2>1, Zenon DEF Init
  <2>2. CASE LeaksIdle
    <3>1. MaxRepeats \in Nat
      BY LeakConstants, Zenon
    <3>2. repeats = 0
      BY <2>2, Zenon DEF LeaksIdle
    <3>3. QED
      BY <3>1, <3>2, SMT
  <2>3. QED
    BY <2>1, <2>2, Zenon
<1>3. Numbered(rows)
  <2>1. CASE Init
    <3>1. PICK len \in 0 .. MaxRows : \E charge \in [1 .. len -> Charges] :
            rows = [i \in 1 .. len |-> RowOf(i, charge[i])]
      BY <2>1, Zenon DEF Init
    <3>2. PICK charge \in [1 .. len -> Charges] : rows = [i \in 1 .. len |-> RowOf(i, charge[i])]
      BY <3>1, Zenon
    <3>3. QED
      BY <3>2, NumberedStarts, Zenon
  <2>2. CASE LeaksIdle
    <3>1. rows = << >>
      BY <2>2, Zenon DEF LeaksIdle
    <3>2. QED
      BY <3>1, NoRowsNumbered
  <2>3. QED
    BY <2>1, <2>2, Zenon
<1>4. node \in Nodes /\ node # "end" /\ node \in {"leak_detector", "gst_sentinel"}
      /\ node \notin {"build_audit_output", "end"}
  BY <1>1, SMT DEF Nodes
<1>5. Found(leaks)
  BY <1>1, NoFindings, Zenon
<1>6. QED
  BY <1>1, <1>2, <1>3, <1>4, <1>5, Zenon DEF LeakInv

LEMMA LeaksKeep == LeakInv /\ [Next]_vars => LeakInv'
<1> SUFFICES ASSUME LeakInv, [Next]_vars PROVE LeakInv'
  OBVIOUS
<1>0. /\ tokens \in SetToSeqs(Tokens) /\ node \in Nodes /\ Numbered(rows)
      /\ repeats \in 0 .. MaxRepeats /\ Found(leaks)
      /\ leaks = (IF node = "leak_detector" THEN {} ELSE DetectLeaks(rows))
      /\ gst = (IF node \in {"leak_detector", "gst_sentinel"} THEN {} ELSE Analyze(rows))
      /\ tasks = (IF node \in {"build_audit_output", "end"} THEN Plan(leaks, gst) ELSE {})
      /\ summary = (IF node = "end" THEN SummaryOf(rows, repeats, leaks, gst) ELSE None)
  BY Zenon DEF LeakInv
<1>a. tokens' = tokens /\ rows' = rows => DetectLeaks(rows)' = DetectLeaks(rows)
  <2>1. SUFFICES ASSUME tokens' = tokens, rows' = rows PROVE DetectLeaks(rows)' = DetectLeaks(rows)
    BY Zenon
  <2>2. \A list : DetectLeaks(list)' = DetectLeaks(list)
    BY <2>1, LeaksStay
  <2>3. QED
    BY <2>1, <2>2, Zenon
<1>1. CASE leak_detector
  <2>1. /\ node = "leak_detector" /\ node' = "gst_sentinel"
        /\ tokens' = tokens /\ rows' = rows /\ repeats' = repeats
        /\ leaks' = DetectLeaks(rows) /\ gst' = gst /\ tasks' = tasks /\ summary' = summary
    BY <1>1, Zenon DEF leak_detector, Visit
  <2>2. Found(leaks')
    BY <1>0, <2>1, LeaksTyped, Zenon DEF Numbered
  <2>3. gst = {} /\ tasks = {} /\ summary = None
    BY <1>0, <2>1, SMT
  <2>4. node' \in Nodes /\ node' # "end" /\ node' \in {"leak_detector", "gst_sentinel"}
        /\ node' \notin {"build_audit_output", "end"} /\ node' # "leak_detector"
    BY <2>1, SMT DEF Nodes
  <2>5. leaks' = DetectLeaks(rows)'
    BY <1>a, <2>1, Zenon
  <2>6. QED
    BY <1>0, <2>1, <2>2, <2>3, <2>4, <2>5, Zenon DEF LeakInv
<1>2. CASE gst_sentinel
  <2>1. /\ node = "gst_sentinel" /\ node' = "cleanup_planner"
        /\ tokens' = tokens /\ rows' = rows /\ repeats' = repeats
        /\ gst' = Analyze(rows) /\ leaks' = leaks /\ tasks' = tasks /\ summary' = summary
    BY <1>2, Zenon DEF gst_sentinel, Visit
  <2>2. tasks = {} /\ summary = None
    BY <1>0, <2>1, SMT
  <2>3. node' \in Nodes /\ node' # "end" /\ node' \notin {"leak_detector", "gst_sentinel"}
        /\ node' \notin {"build_audit_output", "end"} /\ node' # "leak_detector" /\ node # "leak_detector"
    BY <2>1, SMT DEF Nodes
  <2>4. leaks' = DetectLeaks(rows)'
    BY <1>0, <1>a, <2>1, <2>3, Zenon
  <2>5. QED
    BY <1>0, <2>1, <2>2, <2>3, <2>4, Zenon DEF LeakInv
<1>3. CASE cleanup_planner
  <2>1. /\ node = "cleanup_planner" /\ node' = "build_audit_output"
        /\ tokens' = tokens /\ rows' = rows /\ repeats' = repeats
        /\ tasks' = Plan(leaks, gst) /\ leaks' = leaks /\ gst' = gst /\ summary' = summary
    BY <1>3, Zenon DEF cleanup_planner, Visit
  <2>2. gst = Analyze(rows) /\ summary = None
    BY <1>0, <2>1, SMT
  <2>3. node' \in Nodes /\ node' # "end" /\ node' \notin {"leak_detector", "gst_sentinel"}
        /\ node' \in {"build_audit_output", "end"} /\ node' # "leak_detector" /\ node # "leak_detector"
    BY <2>1, SMT DEF Nodes
  <2>4. leaks' = DetectLeaks(rows)'
    BY <1>0, <1>a, <2>1, <2>3, Zenon
  <2>5. QED
    BY <1>0, <2>1, <2>2, <2>3, <2>4, Zenon DEF LeakInv
<1>4. CASE build_audit_output
  <2>1. /\ node = "build_audit_output" /\ node' = "end"
        /\ tokens' = tokens /\ rows' = rows /\ repeats' = repeats
        /\ leaks' = leaks /\ gst' = gst /\ tasks' = tasks
        /\ summary' = SummaryOf(rows, repeats, leaks, gst)
    BY <1>4, Zenon DEF build_audit_output, Visit, SummaryOf
  <2>2. gst = Analyze(rows) /\ tasks = Plan(leaks, gst)
    BY <1>0, <2>1, SMT
  <2>3. node' \in Nodes /\ node' = "end" /\ node' \notin {"leak_detector", "gst_sentinel"}
        /\ node' \in {"build_audit_output", "end"} /\ node' # "leak_detector" /\ node # "leak_detector"
    BY <2>1, SMT DEF Nodes
  <2>4. leaks' = DetectLeaks(rows)'
    BY <1>0, <1>a, <2>1, <2>3, Zenon
  <2>5. QED
    BY <1>0, <2>1, <2>2, <2>3, <2>4, Zenon DEF LeakInv
<1>5. CASE UNCHANGED vars
  <2>1. /\ tokens' = tokens /\ node' = node /\ rows' = rows /\ repeats' = repeats
        /\ leaks' = leaks /\ gst' = gst /\ tasks' = tasks /\ summary' = summary
    BY <1>5, Zenon DEF vars
  <2>2. leaks' = IF node' = "leak_detector" THEN {} ELSE DetectLeaks(rows)'
    BY <1>0, <1>a, <2>1, Zenon
  <2>3. QED
    BY <1>0, <2>1, <2>2, Zenon DEF LeakInv
<1>6. QED
  BY <1>1, <1>2, <1>3, <1>4, <1>5, Zenon DEF Next, Terminated

\* The summary of an audit has its parts, and the score is a percentage.
LEMMA SummaryTyped ==
  ASSUME LeakInv, node = "end"
  PROVE  summary \in Summary /\ summary # None /\ summary = SummaryOf(rows, repeats, leaks, gst)
         /\ summary.risk_score \in Percent
<1>1. /\ Numbered(rows) /\ Found(leaks) /\ gst = Analyze(rows) /\ repeats \in 0 .. MaxRepeats
      /\ summary = SummaryOf(rows, repeats, leaks, gst)
  <2>1. node \notin {"leak_detector", "gst_sentinel"}
    BY SMT
  <2>2. QED
    BY <2>1, Zenon DEF LeakInv
<1>2. rows \in Seq(Row) /\ Len(rows) \in Nat
  BY <1>1, Places, Zenon DEF Numbered
<1>3. gst \in SUBSET Said /\ IsFiniteSet(gst)
  BY <1>1, AnalyzeIs, Zenon
<1>4. PICK total \in Nat : total = Len(rows) + repeats
  <2>1. MaxRepeats \in Nat
    BY LeakConstants, Zenon
  <2>2. Len(rows) + repeats \in Nat
    BY <1>1, <1>2, <2>1, SMT
  <2>3. QED
    BY <2>2, Zenon
<1>5. PICK count \in Nat, impact \in Nat : count = Cardinality(leaks) /\ impact = Impact(leaks)
  BY <1>1, FindingsSum, Zenon
<1>6. PICK missed \in Nat : missed = Missed(gst)
  BY <1>3, MissedIs, Zenon
<1>7. PICK review \in Nat : review = Reviews(rows)
  BY <1>2, ListSums, Zenon
<1>8. PICK risk \in Percent : risk = ComputeRiskScore(leaks, gst, rows)
  <2>1. /\ Severity(leaks) <= Severity(leaks) /\ Impact(leaks) <= Impact(leaks)
        /\ Cardinality(leaks) <= Cardinality(leaks) /\ Missed(gst) <= Missed(gst) /\ Missed(gst) \in Nat
    <3>1. Severity(leaks) \in Nat /\ Impact(leaks) \in Nat /\ Cardinality(leaks) \in Nat /\ Missed(gst) \in Nat
      BY <1>1, <1>3, FindingsSum, MissedIs, Zenon
    <3>2. \A n \in Nat : n <= n
      BY SMT
    <3>3. QED
      BY <3>1, <3>2, Zenon
  <2>2. ComputeRiskScore(leaks, gst, rows) \in Percent
    BY <1>1, <1>2, <1>3, <2>1, RiskIs, Zenon
  <2>3. QED
    BY <2>2, Zenon
<1>9. summary = [total_transactions |-> total, leak_count |-> count, total_leak_amount |-> impact,
                 missed_itc |-> missed, risk_score |-> risk, review_count |-> review]
  BY <1>1, <1>4, <1>5, <1>6, <1>7, <1>8, Zenon DEF SummaryOf
<1>10. summary \in Summary /\ summary.risk_score = risk
  <2>1. PICK P : P = Percent
    OBVIOUS
  <2>2. risk \in P
    BY <2>1, Zenon
  <2>3. PICK s : s = summary
    OBVIOUS
  <2>4. s \in [total_transactions: Nat, leak_count: Nat, total_leak_amount: Nat,
               missed_itc: Nat, risk_score: P, review_count: Nat] /\ s.risk_score = risk
    BY <1>9, <2>2, <2>3, SMT
  <2>5. QED
    BY <2>1, <2>3, <2>4, Zenon DEF Summary
<1>11. None \notin Summary
  BY LeakConstants, Zenon
<1>12. QED
  BY <1>1, <1>10, <1>11, Zenon

LEMMA LeakInvTypes == LeakInv => TypeOK
<1> SUFFICES ASSUME LeakInv PROVE TypeOK
  OBVIOUS
<1>1. /\ tokens \in SetToSeqs(Tokens) /\ node \in Nodes /\ Numbered(rows)
      /\ repeats \in 0 .. MaxRepeats /\ Found(leaks)
  BY Zenon DEF LeakInv
<1>2. leaks \subseteq Findings /\ \A i \in DOMAIN rows : rows[i].id = i
  BY <1>1, Zenon DEF Found, Numbered
<1>3. gst \subseteq [id: 1 .. MaxRows, invoice: BOOLEAN, itc: Nat]
  <2>1. gst = {} \/ gst = Analyze(rows)
    BY Zenon DEF LeakInv
  <2>2. gst \in SUBSET Said
    BY <1>1, <2>1, AnalyzeIs, Zenon
  <2>3. QED
    BY <2>2, Zenon DEF Said
<1>4. \A t \in tasks : t.type \in {"ledger_reclass", "email_draft", "invoice_fetch", "gst_recon"}
  <2>1. tasks = {} \/ tasks = Plan(leaks, gst)
    BY Zenon DEF LeakInv
  <2>2. \A t \in Plan(leaks, gst) : t.type \in {"ledger_reclass", "email_draft", "invoice_fetch", "gst_recon"}
    BY PlanIs, Zenon
  <2>3. QED
    BY <2>1, <2>2, Zenon
<1>5. (node = "end" <=> summary # None) /\ (node = "end" => summary.risk_score \in Percent)
  <2>1. node # "end" => summary = None
    BY Zenon DEF LeakInv
  <2>2. QED
    BY <2>1, SummaryTyped, Zenon
<1>6. QED
  BY <1>1, <1>2, <1>3, <1>4, <1>5, Zenon DEF TypeOK, Nodes

LEMMA LeakInvSums == LeakInv => SumsGoTogether
<1> SUFFICES ASSUME LeakInv PROVE SumsGoTogether
  OBVIOUS
<1>1. Numbered(rows) /\ Found(leaks)
  BY Zenon DEF LeakInv
<1>2. MissedItcIsFetched
  <2>1. SUFFICES ASSUME node = "end"
                 PROVE  LET fetched == UNION {t.about : t \in {t \in tasks : t.type = "invoice_fetch"}}
                        IN  /\ summary.missed_itc = SumFunctionOnSet([i \in DOMAIN rows |-> 18 * rows[i].amount], fetched)
                            /\ \A i \in fetched : rows[i].debit /\ ~rows[i].invoice /\ rows[i].category = "business"
                            /\ fetched # {} <=> \E t \in tasks : t.type = "gst_recon"
    BY Zenon DEF MissedItcIsFetched
  <2> DEFINE fetched == UNION {t.about : t \in {t \in tasks : t.type = "invoice_fetch"}}
             missing == {g \in Analyze(rows) : ~g.invoice}
  <2>2. /\ gst = Analyze(rows) /\ tasks = Plan(leaks, gst)
        /\ summary = SummaryOf(rows, repeats, leaks, gst)
    <3>1. node \notin {"leak_detector", "gst_sentinel"} /\ node \in {"build_audit_output", "end"}
      BY <2>1, SMT
    <3>2. QED
      BY <2>1, <3>1, Zenon DEF LeakInv
  <2>3. fetched = {g.id : g \in missing} /\ ((\E t \in tasks : t.type = "gst_recon") <=> missing # {})
    BY <2>2, PlanIs, Zenon
  <2>4. summary.missed_itc = Missed(Analyze(rows))
    BY <2>2, SMT DEF SummaryOf
  <2>5. PICK ids : ids = {g.id : g \in missing}
    OBVIOUS
  <2>6. Missed(Analyze(rows)) = SumFunctionOnSet([i \in DOMAIN rows |-> 18 * rows[i].amount], ids)
    BY <1>1, <2>5, MissedIsOfRows
  <2>7. \A i \in ids : rows[i].debit /\ ~rows[i].invoice /\ rows[i].category = "business"
    <3>1. SUFFICES ASSUME NEW g \in missing
                   PROVE  rows[g.id].debit /\ ~rows[g.id].invoice /\ rows[g.id].category = "business"
      BY <2>5, Zenon
    <3>2. g \in Analyze(rows) /\ ~ g.invoice
      BY Zenon
    <3>3. Claimable(rows[g.id]) /\ g = SaidOf(rows[g.id])
      BY <1>1, <3>2, AnalyzeIs, Zenon
    <3>4. PICK row : row = rows[g.id]
      OBVIOUS
    <3>5. SaidOf(row).invoice = row.invoice
      BY SMT DEF SaidOf
    <3>6. ~ row.invoice
      BY <3>2, <3>3, <3>4, <3>5
    <3>7. QED
      BY <3>3, <3>4, <3>6, Zenon DEF Claimable
  <2>8. ids # {} <=> missing # {}
    BY <2>5, Zenon
  <2>9. fetched = ids
    BY <2>3, <2>5, Zenon
  <2> HIDE DEF fetched, missing
  <2>10. /\ summary.missed_itc = SumFunctionOnSet([i \in DOMAIN rows |-> 18 * rows[i].amount], fetched)
         /\ \A i \in fetched : rows[i].debit /\ ~rows[i].invoice /\ rows[i].category = "business"
         /\ fetched # {} <=> \E t \in tasks : t.type = "gst_recon"
    BY <2>3, <2>4, <2>6, <2>7, <2>8, <2>9
  <2>11. QED
    BY <2>10 DEF fetched
<1>3. TasksCoverLeaks
  <2>1. SUFFICES ASSUME node \in {"build_audit_output", "end"}
                 PROVE  LET about == UNION {t.about : t \in {t \in tasks : t.type \in {"ledger_reclass", "email_draft"}}}
                        IN  {f.type : f \in leaks \ about} \subseteq {"trial", "zombie", "hike"} /\ about \subseteq leaks
    BY Zenon DEF TasksCoverLeaks
  <2> DEFINE about == UNION {t.about : t \in {t \in tasks : t.type \in {"ledger_reclass", "email_draft"}}}
  <2>2. tasks = Plan(leaks, gst)
    BY <2>1, Zenon DEF LeakInv
  <2>3. about = {f \in leaks : f.type \in {"tax", "duplicate", "sprawl"}}
    BY <2>2, PlanIs, Zenon
  <2>4. about \subseteq leaks
    BY <2>3, Zenon
  <2>5. ASSUME NEW f \in leaks \ about PROVE f.type \in {"trial", "zombie", "hike"}
    <3>1. f.type \in {"duplicate", "trial", "zombie", "hike", "sprawl", "tax"}
      BY <1>1, FindingFields, Zenon DEF Found
    <3>2. f.type \notin {"tax", "duplicate", "sprawl"}
      BY <2>3, Zenon
    <3>3. QED
      BY <3>1, <3>2, SMT
  <2>6. QED
    BY <2>4, <2>5, Zenon
<1>4. RiskIsMonotone
  <2>1. SUFFICES ASSUME node = "end"
                 PROVE  /\ \A f \in leaks : ComputeRiskScore(leaks \ {f}, gst, rows) <= summary.risk_score
                        /\ \A g \in gst : ComputeRiskScore(leaks, gst \ {g}, rows) <= summary.risk_score
    BY Zenon DEF RiskIsMonotone
  <2>2. summary.risk_score = ComputeRiskScore(leaks, gst, rows)
    <3>1. summary = SummaryOf(rows, repeats, leaks, gst)
      BY <2>1, SummaryTyped, Zenon
    <3>2. QED
      BY <3>1, SMT DEF SummaryOf
  <2>3. gst = {} \/ gst = Analyze(rows)
    BY Zenon DEF LeakInv
  <2>4. gst \in SUBSET Said /\ IsFiniteSet(gst)
    BY <1>1, <2>3, AnalyzeIs, FS_EmptySet, Zenon
  <2>5. rows \in Seq(Row)
    BY <1>1, Zenon DEF Numbered
  <2>6. /\ Severity(leaks) \in Nat /\ Impact(leaks) \in Nat /\ Cardinality(leaks) \in Nat
        /\ Missed(gst) \in Nat
    BY <1>1, <2>4, FindingsSum, MissedIs, Zenon
  <2>7. \A n \in Nat : n <= n
    BY SMT
  <2>8. ASSUME NEW f \in leaks PROVE ComputeRiskScore(leaks \ {f}, gst, rows) <= ComputeRiskScore(leaks, gst, rows)
    <3>1. PICK fewer : fewer = leaks \ {f}
      OBVIOUS
    <3>2. /\ Found(fewer) /\ Severity(fewer) <= Severity(leaks) /\ Impact(fewer) <= Impact(leaks)
          /\ Cardinality(fewer) <= Cardinality(leaks)
      BY <1>1, <3>1, FindingsSumLess, Zenon
    <3>3. ComputeRiskScore(fewer, gst, rows) <= ComputeRiskScore(leaks, gst, rows)
      BY <1>1, <2>4, <2>5, <2>6, <2>7, <3>2, RiskIs, Zenon
    <3>4. QED
      BY <3>1, <3>3, Zenon
  <2>9. ASSUME NEW g \in gst PROVE ComputeRiskScore(leaks, gst \ {g}, rows) <= ComputeRiskScore(leaks, gst, rows)
    <3>1. PICK fewer : fewer = gst \ {g}
      OBVIOUS
    <3>2. Missed(fewer) \in Nat /\ Missed(fewer) <= Missed(gst)
      BY <2>4, <3>1, MissedIs, Zenon
    <3>3. ComputeRiskScore(leaks, fewer, rows) <= ComputeRiskScore(leaks, gst, rows)
      BY <1>1, <2>4, <2>5, <2>6, <2>7, <3>2, RiskIs, Zenon
    <3>4. QED
      BY <3>1, <3>3, Zenon
  <2>10. QED
    BY <2>2, <2>8, <2>9, Zenon
<1>5. QED
  BY <1>2, <1>3, <1>4, Zenon DEF SumsGoTogether

LEMMA LeakInvFindings == LeakInv => FindingsAreStable
<1> SUFFICES ASSUME LeakInv PROVE FindingsAreStable
  OBVIOUS
<1>1. Numbered(rows)
  BY Zenon DEF LeakInv
<1>2. CASE node = "leak_detector"
  <2>1. leaks = {}
    BY <1>2, Zenon DEF LeakInv
  <2>2. Of("hike") = {}
    BY <2>1, Zenon DEF Of
  <2>3. QED
    BY <1>2, <2>2, Zenon
       DEF FindingsAreStable, EqualChargesAreDuplicates, RowOrderDoesNotMatter, HikeIsARise
<1>3. CASE node # "leak_detector"
  <2>1. leaks = DetectLeaks(rows)
    BY <1>3, Zenon DEF LeakInv
  <2>2. EqualChargesAreDuplicates
    BY <1>1, <2>1, EqualsMeet
  <2>3. HikeIsARise
    BY <1>1, <2>1, HikesRise
  <2>4. NoTies => DetectLeaks(Reverse(rows)) = leaks
    BY <1>1, <2>1, LeaksReversed, Zenon
  <2>5. QED
    BY <2>2, <2>3, <2>4, Zenon DEF FindingsAreStable, RowOrderDoesNotMatter
<1>4. QED
  BY <1>2, <1>3, Zenon

-----------------------------------------------------------------------------
(* The four parts                                                           *)

StatementsInv == LimiterInv /\ LeakInv /\ CsvInv /\ PdfInv

LEMMA StatementsStart == StatementsInit => StatementsInv
<1> SUFFICES ASSUME StatementsInit PROVE StatementsInv
  OBVIOUS
<1>1. Limiter!Init /\ (Init \/ LeaksIdle) /\ Csv!Init /\ Pdf!Init
  BY Zenon DEF StatementsInit, LimiterIdle, CsvIdle, PdfIdle
<1>2. QED
  BY <1>1, LimiterStarts, LeaksStart, CsvStarts, PdfStarts, Zenon DEF StatementsInv

LEMMA StatementsKeep ==
  StatementsInv /\ [StatementsNext]_<<component, limiter_vars, vars, csv_vars, pdf_vars>>
    => StatementsInv'
<1> SUFFICES ASSUME StatementsInv,
                    [StatementsNext]_<<component, limiter_vars, vars, csv_vars, pdf_vars>>
             PROVE  StatementsInv'
  OBVIOUS
<1>1. /\ [Limiter!Next]_limiter_vars /\ [Next]_vars
      /\ [Csv!Next]_csv_vars /\ [Pdf!Next]_pdf_vars
  BY DEF StatementsNext
<1>2. [Limiter!Next]_Limiter!vars
  BY <1>1 DEF limiter_vars, Limiter!vars
<1>3. QED
  BY <1>1, <1>2, LimiterKeeps, LeaksKeep, CsvKeeps, PdfKeeps, Zenon DEF StatementsInv

\* The limiters, the readers and the nodes behind the classification leave every
\* variable in its type, and the risk score of a complete audit is a percentage.
THEOREM StatementsTypeCorrect == StatementsSpec => []StatementsTypeOK
<1>1. StatementsInv => StatementsTypeOK
  <2>1. LimiterInv => Limiter!TypeOK
    BY Zenon DEF LimiterInv
  <2>2. QED
    BY <2>1, LeakInvTypes, CsvInvTypes, PdfInvTypes, Zenon DEF StatementsInv, StatementsTypeOK
<1>2. QED
  BY <1>1, StatementsStart, StatementsKeep, PTL DEF StatementsSpec

\* However the requests interleave, the in-process limiter exceeds no window that is
\* shorter than window_seconds by the longest wait for its lock, and the one with
\* Redis lets through one request more for each other thread.
THEOREM WindowsAlwaysHold == StatementsSpec => []WindowsHold
<1>1. StatementsInv => WindowsHold
  BY LimiterInvBounds, Zenon DEF StatementsInv
<1>2. QED
  BY <1>1, StatementsStart, StatementsKeep, PTL DEF StatementsSpec

\* The rows of a statement are read as they stand in it, whatever the file.  Of a CSV
\* file that loads, each row is there by day, amount and description, save those with
\* an unreadable amount that repeat day and description of a row with an empty one,
\* and of repeated rows the first is seen.  Of a page the lines that hang together are
\* one row, and no others; the ids made from the rows of all pages differ, unless
\* taking date and amount out of one leaves a mark for the side that it did not have;
\* and the table of a page says what its picture says.
THEOREM RowsAreAlwaysRead == StatementsSpec => []RowsAreRead
<1>1. StatementsInv => RowsAreRead
  BY CsvInvSaysAll, PdfInvSaysAll, Zenon DEF StatementsInv, RowsAreRead
<1>2. QED
  BY <1>1, StatementsStart, StatementsKeep, PTL DEF StatementsSpec

\* Whatever the statement and whatever it spends, the missed tax credit of a summary is
\* that of the invoices the plan fetches, every leak of a kind someone can write about
\* is in a task, and no leak and no missing invoice lowers the risk score.
THEOREM SumsAlwaysGoTogether == StatementsSpec => []SumsGoTogether
<1>1. StatementsInv => SumsGoTogether
  BY LeakInvSums, Zenon DEF StatementsInv
<1>2. QED
  BY <1>1, StatementsStart, StatementsKeep, PTL DEF StatementsSpec

\* Whatever the charges: equal charges of a merchant that could be a subscription are
\* in one duplicate finding and in no other, the findings are the same when the rows
\* are listed the other way round, and a price hike is a rise above earlier charges.
THEOREM FindingsAlwaysStable == StatementsSpec => []FindingsAreStable
<1>1. StatementsInv => FindingsAreStable
  BY LeakInvFindings, Zenon DEF StatementsInv
<1>2. QED
  BY <1>1, StatementsStart, StatementsKeep, PTL DEF StatementsSpec
=============================================================================
