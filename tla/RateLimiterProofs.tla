------------------------- MODULE RateLimiterProofs -------------------------
(***************************************************************************)
(* The limit of RateLimiter for any number of calls and addresses, any     *)
(* rate, burst and sweep interval.                                         *)
(*                                                                         *)
(* WindowBound counts what an address was granted and says nothing of the  *)
(* bucket that limits it.  BucketInv ties the two: what was spent and what *)
(* is left were earned by the bucket's time.  When the bucket is swept     *)
(* away that balance is lost, and SweptInv takes over: no call that is yet *)
(* to run is so early that a new, full bucket would give it too much.  For *)
(* that the sweep must wait for the bucket to be full (Capacity ticks) and *)
(* for calls that are still waiting for the mutex (MaxDelay).              *)
(***************************************************************************)
EXTENDS RateLimiter, FiniteSetTheorems, TLAPS

\* Calls in flight are at most MaxDelay behind the clock.
DelayInv ==
    \A c \in Calls : pc[c] = "lock" =>
        now[c] <= clock /\ clock - now[c] <= MaxDelay

\* Bucket b of address k holds at most Capacity, and what it holds and what was
\* spent were earned by its time.
Sound(b, k, t) ==
    /\ b.tokens <= Capacity
    /\ b.last <= t
    /\ b.last < from => spent[k] = 0
    /\ b.last >= from => spent[k] + b.tokens <= Capacity + (b.last - from)

BucketInv ==
    \A k \in Clients : buckets[k] # NoBucket => Sound(buckets[k], k, clock)

\* Without a bucket, what was spent was earned before any call yet to run.
SweptInv ==
    \A k \in Clients : buckets[k] = NoBucket /\ spent[k] # 0 =>
        /\ spent[k] <= clock - from
        /\ \A c \in Calls : pc[c] = "lock" => spent[k] <= now[c] - from

IInv == TypeOK /\ DelayInv /\ BucketInv /\ SweptInv
-----------------------------------------------------------------------------
\* allow's refill brings a bucket at least up to the call's time and earns no
\* more than the time that passed.
LEMMA RefillFacts ==
    ASSUME NEW b \in Bucket, NEW t \in Nat, b.tokens <= Capacity
    PROVE  /\ Refill(b, t) \in Bucket
           /\ Refill(b, t).tokens <= Capacity
           /\ Refill(b, t).last >= t
           /\ Refill(b, t).last \in {b.last, t}
           /\ Refill(b, t).last >= b.last
           /\ Refill(b, t).tokens <= b.tokens + (Refill(b, t).last - b.last)
<1>1. b.tokens \in Nat /\ b.last \in Nat /\ Capacity \in Nat
  BY LimiterAssumption DEF Bucket
<1>2. CASE t <= b.last
  BY <1>1, <1>2 DEF Refill
<1>3. CASE ~(t <= b.last)
  <2> DEFINE earned == b.tokens + (t - b.last)
  <2>1. earned \in Nat
    BY <1>1, <1>3
  <2>2. Refill(b, t) =
          [tokens |-> IF earned > Capacity THEN Capacity ELSE earned, last |-> t]
    BY <1>3 DEF Refill
  <2> QED
    BY <1>1, <1>3, <2>1, <2>2 DEF Bucket
<1> QED
  BY <1>2, <1>3

\* The bucket allow works on, before and after its refill, is sound; a new
\* bucket is because SweptInv holds for the call that makes it.
LEMMA WorkedBucket ==
    ASSUME IInv, NEW c \in Calls, pc[c] = "lock",
           NEW map \in [Clients -> Bucket \cup {NoBucket}],
           NEW k \in Clients,
           map[k] # NoBucket => Sound(map[k], k, clock),
           map[k] = NoBucket /\ spent[k] # 0 => spent[k] <= now[c] - from
    PROVE  LET b == Refill(BucketFor(map, k, now[c]), now[c])
           IN b \in Bucket /\ b.last >= now[c] /\ Sound(b, k, clock)
<1> DEFINE old == BucketFor(map, k, now[c])
           b == Refill(old, now[c])
<1>1. /\ now[c] \in Nat /\ clock \in Nat /\ from \in Nat /\ spent[k] \in Nat
      /\ Capacity \in Nat /\ now[c] <= clock
  BY LimiterAssumption DEF IInv, TypeOK, DelayInv
<1>2. old \in Bucket /\ Sound(old, k, clock)
  <2>1. CASE map[k] = NoBucket
    <3>1. old = [tokens |-> Capacity, last |-> now[c]]
      BY <2>1 DEF BucketFor
    <3>2. old \in Bucket /\ old.tokens = Capacity /\ old.last = now[c]
      BY <1>1, <3>1 DEF Bucket
    <3> QED
      BY <1>1, <2>1, <3>2 DEF Sound
  <2>2. CASE map[k] # NoBucket
    BY <2>2 DEF BucketFor
  <2> QED
    BY <2>1, <2>2
<1>3. old.tokens \in Nat /\ old.last \in Nat /\ old.tokens <= Capacity
  BY <1>2 DEF Bucket, Sound
<1>4. /\ b \in Bucket /\ b.tokens <= Capacity /\ b.last >= now[c]
      /\ b.last \in {old.last, now[c]} /\ b.last >= old.last
      /\ b.tokens <= old.tokens + (b.last - old.last)
  BY <1>1, <1>2, <1>3, RefillFacts
<1>5. b.tokens \in Nat /\ b.last \in Nat
  BY <1>4 DEF Bucket
<1>6. Sound(b, k, clock)
  <2> HIDE DEF old, b
  <2> QED
    BY <1>1, <1>2, <1>3, <1>4, <1>5 DEF Sound
<1> QED
  BY <1>4, <1>6

\* A bucket idle long enough to be swept leaves nothing for SweptInv to fear.
LEMMA SweepIsLate ==
    ASSUME IInv, NEW c \in Calls, pc[c] = "lock", NEW k \in Clients,
           buckets[k] # NoBucket, Idle(buckets[k], now[c]), spent[k] # 0
    PROVE  /\ spent[k] <= clock - from
           /\ \A d \in Calls : pc[d] = "lock" => spent[k] <= now[d] - from
<1>1. /\ buckets[k].tokens \in Nat /\ buckets[k].last \in Nat
      /\ clock \in Nat /\ from \in Nat /\ spent[k] \in Nat
      /\ \A d \in Calls : now[d] \in Nat
      /\ Capacity \in Nat /\ IdleTTL \in Nat /\ MaxDelay \in Nat
      /\ Capacity + MaxDelay <= IdleTTL
  BY LimiterAssumption DEF IInv, TypeOK, Bucket
<1>2. spent[k] + buckets[k].tokens <= Capacity + (buckets[k].last - from)
  BY <1>1 DEF IInv, BucketInv, Sound
<1>3. now[c] - buckets[k].last > IdleTTL /\ now[c] <= clock
  BY DEF Idle, IInv, DelayInv
<1>4. \A d \in Calls : pc[d] = "lock" => clock - now[d] <= MaxDelay
  BY DEF IInv, DelayInv
<1> QED
  BY <1>1, <1>2, <1>3, <1>4

\* The map after a sweep: sound where there is a bucket, and safe where not.
LEMMA SweptFacts ==
    ASSUME IInv, NEW c \in Calls, pc[c] = "lock"
    PROVE  /\ Swept(now[c]) \in [Clients -> Bucket \cup {NoBucket}]
           /\ \A k \in Clients :
                /\ Swept(now[c])[k] # NoBucket => Sound(Swept(now[c])[k], k, clock)
                /\ Swept(now[c])[k] = NoBucket /\ spent[k] # 0 =>
                     /\ spent[k] <= clock - from
                     /\ \A d \in Calls : pc[d] = "lock" => spent[k] <= now[d] - from
<1> DEFINE map == Swept(now[c])
<1>1. /\ map \in [Clients -> Bucket \cup {NoBucket}]
      /\ \A k \in Clients :
           \/ map[k] = buckets[k]
           \/ map[k] = NoBucket /\ buckets[k] # NoBucket /\ Idle(buckets[k], now[c])
  BY DEF Swept, IInv, TypeOK
<1>2. ASSUME NEW k \in Clients
      PROVE  /\ map[k] # NoBucket => Sound(map[k], k, clock)
             /\ map[k] = NoBucket /\ spent[k] # 0 =>
                  /\ spent[k] <= clock - from
                  /\ \A d \in Calls : pc[d] = "lock" => spent[k] <= now[d] - from
  <2> HIDE DEF map
  <2>1. CASE map[k] = buckets[k]
    BY <2>1 DEF IInv, BucketInv, SweptInv, Sound
  <2>2. CASE map[k] = NoBucket /\ buckets[k] # NoBucket /\ Idle(buckets[k], now[c])
    BY <2>2, SweepIsLate
  <2> QED
    BY <1>1, <2>1, <2>2
<1> QED
  BY <1>1, <1>2
-----------------------------------------------------------------------------
LEMMA InitIInv == Init => IInv
<1> SUFFICES ASSUME Init PROVE IInv
  OBVIOUS
<1>1. TypeOK
  BY LimiterAssumption DEF Init, TypeOK
<1> QED
  BY <1>1 DEF Init, IInv, DelayInv, BucketInv, SweptInv, Sound

LEMMA ArriveStep ==
    ASSUME IInv, NEW c \in Calls, Arrive(c) PROVE IInv'
<1>1. TypeOK'
  BY DEF Arrive, IInv, TypeOK
<1>2. \A d \in Calls : pc'[d] = "lock" =>
        \/ d = c /\ now'[d] = clock
        \/ pc[d] = "lock" /\ now'[d] = now[d]
  BY DEF Arrive, IInv, TypeOK
<1>3. /\ clock \in Nat /\ MaxDelay \in Nat /\ clock' = clock
      /\ UNCHANGED <<buckets, spent, from>>
  BY LimiterAssumption DEF Arrive, IInv, TypeOK
<1>4. DelayInv'
  BY <1>2, <1>3 DEF IInv, DelayInv
<1>5. BucketInv'
  BY <1>3 DEF IInv, BucketInv, Sound
<1>6. SweptInv'
  BY <1>2, <1>3 DEF IInv, SweptInv
<1> QED
  BY <1>1, <1>4, <1>5, <1>6 DEF IInv

LEMMA TickStep ==
    ASSUME IInv, Tick PROVE IInv'
<1>1. clock \in Nat /\ clock' = clock + 1 /\ from \in Nat /\ MaxDelay \in Nat
      /\ UNCHANGED <<buckets, lastSweep, pc, client, now, verdict, from, spent>>
  BY LimiterAssumption DEF Tick, IInv, TypeOK
<1>2. TypeOK'
  BY <1>1 DEF IInv, TypeOK
<1>3. DelayInv'
  <2> SUFFICES ASSUME NEW c \in Calls, pc[c] = "lock"
               PROVE  now[c] <= clock + 1 /\ (clock + 1) - now[c] <= MaxDelay
    BY <1>1 DEF DelayInv
  <2>1. now[c] \in Nat /\ now[c] <= clock /\ clock - now[c] < MaxDelay
    BY DEF IInv, TypeOK, DelayInv, Tick
  <2> QED
    BY <1>1, <2>1
<1>4. BucketInv'
  <2> SUFFICES ASSUME NEW k \in Clients, buckets[k] # NoBucket
               PROVE  Sound(buckets[k], k, clock + 1)
    BY <1>1 DEF BucketInv, Sound
  <2>1. buckets[k].last \in Nat
    BY DEF IInv, TypeOK, Bucket
  <2> QED
    BY <1>1, <2>1 DEF IInv, BucketInv, Sound
<1>5. SweptInv'
  <2>1. \A k \in Clients : spent[k] \in Nat
    BY DEF IInv, TypeOK
  <2> QED
    BY <1>1, <2>1 DEF IInv, SweptInv
<1> QED
  BY <1>2, <1>3, <1>4, <1>5 DEF IInv

LEMMA AllowStep ==
    ASSUME IInv, NEW c \in Calls, Allow(c) PROVE IInv'
<1> DEFINE k == client[c]
           map == Swept(now[c])
           b == Refill(BucketFor(map, k, now[c]), now[c])
           ok == b.tokens >= Cost
           left == IF ok THEN [tokens |-> b.tokens - Cost, last |-> b.last] ELSE b
           more == IF ok /\ now[c] >= from THEN spent[k] + Cost ELSE spent[k]
<1>1. /\ pc[c] = "lock" /\ pc' = [pc EXCEPT ![c] = "done"]
      /\ lastSweep' = IF SweepDue(now[c]) THEN now[c] ELSE lastSweep
      /\ buckets' = [map EXCEPT ![k] = left]
      /\ verdict' = [verdict EXCEPT ![c] = IF ok THEN "allowed" ELSE "refused"]
      /\ spent' = [spent EXCEPT ![k] = more]
      /\ UNCHANGED <<clock, client, now, from>>
  BY DEF Allow
<1>2. /\ k \in Clients /\ now[c] \in Nat /\ from \in Nat /\ clock \in Nat
      /\ Capacity \in Nat /\ Cost \in Nat /\ spent[k] \in Nat
  BY LimiterAssumption DEF IInv, TypeOK
<1>3. /\ map \in [Clients -> Bucket \cup {NoBucket}]
      /\ \A q \in Clients :
           /\ map[q] # NoBucket => Sound(map[q], q, clock)
           /\ map[q] = NoBucket /\ spent[q] # 0 =>
                /\ spent[q] <= clock - from
                /\ \A d \in Calls : pc[d] = "lock" => spent[q] <= now[d] - from
  BY <1>1, SweptFacts
<1>4. b \in Bucket /\ b.last >= now[c] /\ Sound(b, k, clock)
  <2> HIDE DEF k, map
  <2> QED
    BY <1>1, <1>2, <1>3, WorkedBucket
<1>5. b.tokens \in Nat /\ b.last \in Nat
  BY <1>4 DEF Bucket
<1> HIDE DEF k, map, b
<1>6. left \in Bucket /\ more \in Nat /\ left # NoBucket
  BY <1>2, <1>4, <1>5, NoBucketAssumption DEF Bucket
<1>7. /\ left.tokens <= Capacity /\ left.last <= clock
      /\ left.last < from => more = 0
      /\ left.last >= from => more + left.tokens <= Capacity + (left.last - from)
  BY <1>2, <1>4, <1>5 DEF Sound
<1> HIDE DEF left, more, ok
<1>8. TypeOK'
  BY <1>1, <1>2, <1>3, <1>6 DEF IInv, TypeOK
<1>9. \A d \in Calls : pc'[d] = "lock" => pc[d] = "lock"
  BY <1>1 DEF IInv, TypeOK
<1>10. DelayInv'
  BY <1>1, <1>9 DEF IInv, DelayInv
<1>11. /\ buckets'[k] = left /\ spent'[k] = more
       /\ \A q \in Clients \ {k} : buckets'[q] = map[q] /\ spent'[q] = spent[q]
  BY <1>1, <1>2, <1>3 DEF IInv, TypeOK
<1>12. BucketInv'
  <2> SUFFICES ASSUME NEW q \in Clients, buckets'[q] # NoBucket
               PROVE  /\ buckets'[q].tokens <= Capacity
                      /\ buckets'[q].last <= clock
                      /\ buckets'[q].last < from => spent'[q] = 0
                      /\ buckets'[q].last >= from =>
                           spent'[q] + buckets'[q].tokens
                             <= Capacity + (buckets'[q].last - from)
    BY <1>1 DEF BucketInv, Sound
  <2>1. CASE q = k
    BY <1>7, <1>11, <2>1
  <2>2. CASE q # k
    BY <1>3, <1>11, <2>2 DEF Sound
  <2> QED
    BY <2>1, <2>2
<1>13. SweptInv'
  BY <1>1, <1>3, <1>6, <1>9, <1>11 DEF SweptInv
<1> QED
  BY <1>8, <1>10, <1>12, <1>13 DEF IInv

\* IInv holds throughout.
LEMMA InductiveInvariant == Spec => []IInv
<1>1. IInv /\ [Next]_vars => IInv'
  <2> SUFFICES ASSUME IInv, [Next]_vars PROVE IInv'
    OBVIOUS
  <2>1. CASE \E c \in Calls : Arrive(c)
    BY <2>1, ArriveStep
  <2>2. CASE \E c \in Calls : Allow(c)
    BY <2>2, AllowStep
  <2>3. CASE Tick
    BY <2>3, TickStep
  <2>4. CASE UNCHANGED vars
    BY <2>4 DEF vars, IInv, TypeOK, DelayInv, BucketInv, SweptInv, Sound
  <2> QED
    BY <2>1, <2>2, <2>3, <2>4 DEF Next
<1> QED
  BY <1>1, InitIInv, PTL DEF Spec

\* The rate limit of allow and sweep in middleware.go: from any moment on, no
\* address is granted more than one burst and what it earned since then.
THEOREM RateIsLimited == Spec => []WindowBound
<1>1. IInv => WindowBound
  <2> SUFFICES ASSUME IInv, NEW k \in Clients
               PROVE  spent[k] <= Capacity + (IF clock > from THEN clock - from ELSE 0)
    BY DEF WindowBound
  <2>1. clock \in Nat /\ from \in Nat /\ spent[k] \in Nat /\ Capacity \in Nat
    BY LimiterAssumption DEF IInv, TypeOK
  <2>2. CASE buckets[k] = NoBucket
    BY <2>1, <2>2 DEF IInv, SweptInv
  <2>3. CASE buckets[k] # NoBucket
    <3>1. buckets[k].tokens \in Nat /\ buckets[k].last \in Nat
      BY <2>3 DEF IInv, TypeOK, Bucket
    <3> QED
      BY <2>1, <2>3, <3>1 DEF IInv, BucketInv, Sound
  <2> QED
    BY <2>2, <2>3
<1> QED
  BY <1>1, InductiveInvariant, PTL
-----------------------------------------------------------------------------
(* Nobody is refused before using up a burst *)

\* The calls of address k that were allowed.
Allowed(k) == {o \in Calls : client[o] = k /\ verdict[o] = "allowed"}

\* A bucket starts full and only allowed calls take from it, so what it lacks
\* was paid for; a call without a verdict has not been counted.
PaidInv ==
    /\ \A c \in Calls : pc[c] # "done" => verdict[c] = "none"
    /\ \A k \in Clients :
         /\ IsFiniteSet(Allowed(k))
         /\ buckets[k] # NoBucket =>
              buckets[k].tokens + Cost * Cardinality(Allowed(k)) >= Capacity

BurstInv == PaidInv /\ RefusedOnlyAfterBurst

\* Who has paid for all but less than a token of a full bucket has used a burst.
LEMMA PaidForBurst ==
    ASSUME NEW n \in Nat, NEW tokens \in Nat, tokens < Cost,
           tokens + Cost * n >= Capacity
    PROVE  n >= Burst
<1> SUFFICES ASSUME n <= Burst - 1 PROVE FALSE
  BY LimiterAssumption
<1>1. Cost \in Nat /\ Burst \in Nat
  BY LimiterAssumption
<1>2. PICK d \in Nat : Burst = n + 1 + d
  <2>1. Burst - 1 - n \in Nat /\ Burst = n + 1 + (Burst - 1 - n)
    BY <1>1
  <2> QED
    BY <2>1
<1>3. Cost * Burst = Cost * n + Cost + Cost * d
  BY <1>1, <1>2
<1>4. Cost * d \in Nat /\ Cost * n \in Nat
  BY <1>1
<1> QED
  BY <1>1, <1>3, <1>4 DEF Capacity

\* allow's refill takes nothing away, unless it fills the bucket.
LEMMA RefillGives ==
    ASSUME NEW b \in Bucket, NEW t \in Nat
    PROVE  Refill(b, t).tokens >= b.tokens \/ Refill(b, t).tokens = Capacity
<1>1. b.tokens \in Nat /\ b.last \in Nat /\ Capacity \in Nat
  BY LimiterAssumption DEF Bucket
<1> QED
  BY <1>1 DEF Refill

LEMMA AllowPays ==
    ASSUME IInv, BurstInv, NEW c \in Calls, Allow(c)
    PROVE  BurstInv'
<1> DEFINE k == client[c]
           map == Swept(now[c])
           b == Refill(BucketFor(map, k, now[c]), now[c])
           ok == b.tokens >= Cost
           left == IF ok THEN [tokens |-> b.tokens - Cost, last |-> b.last] ELSE b
<1>1. /\ pc[c] = "lock" /\ pc' = [pc EXCEPT ![c] = "done"]
      /\ buckets' = [map EXCEPT ![k] = left]
      /\ verdict' = [verdict EXCEPT ![c] = IF ok THEN "allowed" ELSE "refused"]
      /\ client' = client
  BY DEF Allow
<1>2. k \in Clients /\ now[c] \in Nat /\ Capacity \in Nat /\ Cost \in Nat \ {0}
  BY LimiterAssumption DEF IInv, TypeOK
<1>3. /\ map \in [Clients -> Bucket \cup {NoBucket}]
      /\ \A q \in Clients :
           /\ map[q] # NoBucket => map[q] = buckets[q] /\ map[q].tokens <= Capacity
  BY <1>1, SweptFacts DEF Swept, Sound
<1>4. b \in Bucket /\ b.tokens \in Nat
  <2> HIDE DEF k, map
  <2>1. /\ map[k] # NoBucket => Sound(map[k], k, clock)
        /\ map[k] = NoBucket /\ spent[k] # 0 => spent[k] <= now[c] - from
    BY <1>1, <1>2, SweptFacts DEF map
  <2> QED
    BY <1>1, <1>2, <1>3, <2>1, WorkedBucket DEF Bucket
<1>5. /\ \A q \in Clients : IsFiniteSet(Allowed(q)) /\ Cardinality(Allowed(q)) \in Nat
      /\ c \notin Allowed(k)
  BY <1>1, FS_CardinalityType DEF BurstInv, PaidInv, Allowed
<1>6. b.tokens + Cost * Cardinality(Allowed(k)) >= Capacity
  <2> DEFINE old == BucketFor(map, k, now[c])
  <2>1. /\ old \in Bucket
        /\ old.tokens + Cost * Cardinality(Allowed(k)) >= Capacity
    <3>1. Cost * Cardinality(Allowed(k)) \in Nat
      BY <1>2, <1>5
    <3>2. CASE map[k] = NoBucket
      <4>1. old = [tokens |-> Capacity, last |-> now[c]]
        BY <3>2 DEF BucketFor
      <4> QED
        BY <1>2, <3>1, <4>1 DEF Bucket
    <3>3. CASE map[k] # NoBucket
      <4> HIDE DEF k, map
      <4> QED
        BY <1>2, <1>3, <3>3 DEF BucketFor, BurstInv, PaidInv
    <3> QED
      BY <3>2, <3>3
  <2>2. b.tokens >= old.tokens \/ b.tokens = Capacity
    BY <1>2, <2>1, RefillGives
  <2>3. old.tokens \in Nat /\ Cost * Cardinality(Allowed(k)) \in Nat
    BY <1>2, <1>5, <2>1 DEF Bucket
  <2> HIDE DEF old, b
  <2> QED
    BY <1>2, <1>4, <2>1, <2>2, <2>3
<1> HIDE DEF k, map, b
<1>7. /\ left.tokens = IF ok THEN b.tokens - Cost ELSE b.tokens
      /\ left.tokens \in Nat
  BY <1>2, <1>4
<1> DEFINE after(q) == IF q = k /\ ok THEN Allowed(q) \cup {c} ELSE Allowed(q)
<1>8. \A q \in Clients : Allowed(q)' = after(q)
  BY <1>1 DEF Allowed, k, IInv, TypeOK, BurstInv, PaidInv
<1>9. \A q \in Clients :
        /\ IsFiniteSet(after(q))
        /\ Cardinality(after(q)) \in Nat
        /\ Cardinality(after(q)) =
             IF q = k /\ ok THEN Cardinality(Allowed(q)) + 1
                            ELSE Cardinality(Allowed(q))
  <2> SUFFICES ASSUME NEW q \in Clients
               PROVE  /\ IsFiniteSet(after(q))
                      /\ Cardinality(after(q)) \in Nat
                      /\ Cardinality(after(q)) =
                           IF q = k /\ ok THEN Cardinality(Allowed(q)) + 1
                                          ELSE Cardinality(Allowed(q))
    BY Zenon
  <2>1. /\ IsFiniteSet(Allowed(q) \cup {c})
        /\ c \notin Allowed(q) =>
             Cardinality(Allowed(q) \cup {c}) = Cardinality(Allowed(q)) + 1
    BY <1>5, FS_AddElement
  <2> HIDE DEF ok
  <2> QED
    BY <1>5, <2>1
<1>10. buckets'[k] = left /\ \A q \in Clients \ {k} : buckets'[q] = map[q]
  BY <1>1, <1>2, <1>3
<1> HIDE DEF left, ok, after
<1>11. left.tokens + Cost * Cardinality(after(k)) >= Capacity
  <2>1. CASE ok
    <3>1. Cost * (Cardinality(Allowed(k)) + 1)
            = Cost * Cardinality(Allowed(k)) + Cost
      BY <1>2, <1>5
    <3>2. Cost * Cardinality(Allowed(k)) \in Nat
      BY <1>2, <1>5
    <3> QED
      BY <1>2, <1>4, <1>6, <1>7, <1>9, <2>1, <3>1, <3>2
  <2>2. CASE ~ok
    BY <1>2, <1>6, <1>7, <1>9, <2>2
  <2> QED
    BY <2>1, <2>2
<1>12. PaidInv'
  <2>1. \A d \in Calls : pc'[d] # "done" => verdict'[d] = "none"
    BY <1>1 DEF IInv, TypeOK, BurstInv, PaidInv
  <2>2. ASSUME NEW q \in Clients, buckets'[q] # NoBucket
        PROVE  buckets'[q].tokens + Cost * Cardinality(after(q)) >= Capacity
    <3>1. CASE q = k
      BY <1>10, <1>11, <3>1
    <3>2. CASE q # k
      BY <1>3, <1>9, <1>10, <2>2, <3>2 DEF BurstInv, PaidInv
    <3> QED
      BY <3>1, <3>2
  <2> QED
    BY <1>8, <1>9, <2>1, <2>2 DEF PaidInv
<1>13. RefusedOnlyAfterBurst'
  <2> SUFFICES ASSUME NEW d \in Calls, verdict'[d] = "refused"
               PROVE  Cardinality(after(client[d])) >= Burst
    <3>1. \A d \in Calls : client[d] \in Clients
      BY DEF IInv, TypeOK
    <3> QED
      BY <1>1, <1>8, <3>1 DEF RefusedOnlyAfterBurst, Allowed
  <2>1. client[d] \in Clients /\ Burst \in Nat
    BY LimiterAssumption DEF IInv, TypeOK
  <2>2. CASE d = c
    <3>1. ~ok
      BY <1>1, <2>2 DEF IInv, TypeOK
    <3>2. b.tokens < Cost
      BY <1>2, <1>4, <3>1 DEF ok
    <3>3. Cardinality(Allowed(k)) >= Burst
      BY <1>2, <1>4, <1>5, <1>6, <3>2, PaidForBurst
    <3> QED
      BY <1>2, <1>9, <2>2, <3>1, <3>3 DEF k
  <2>3. CASE d # c
    <3>1. verdict[d] = "refused"
      BY <1>1, <2>3 DEF IInv, TypeOK
    <3>2. Cardinality(Allowed(client[d])) >= Burst
      BY <3>1 DEF BurstInv, RefusedOnlyAfterBurst, Allowed
    <3> QED
      BY <1>5, <1>9, <2>1, <3>2
  <2> QED
    BY <2>2, <2>3
<1> QED
  BY <1>12, <1>13 DEF BurstInv

\* allow refuses no one who has not used up a burst, whatever is swept and
\* whoever overtakes whom.
THEOREM RefusalsAreEarned == Spec => []RefusedOnlyAfterBurst
<1>1. Init => BurstInv
  <2> SUFFICES ASSUME Init PROVE BurstInv
    OBVIOUS
  <2>1. \A k \in Clients : Allowed(k) = {}
    BY DEF Init, Allowed
  <2>2. \A k \in Clients : IsFiniteSet(Allowed(k))
    BY <2>1, FS_EmptySet
  <2> QED
    BY <2>2 DEF Init, BurstInv, PaidInv, RefusedOnlyAfterBurst
<1>2. IInv /\ BurstInv /\ [Next]_vars => BurstInv'
  <2> SUFFICES ASSUME IInv, BurstInv, [Next]_vars PROVE BurstInv'
    OBVIOUS
  <2>1. ASSUME NEW c \in Calls, Arrive(c) PROVE BurstInv'
    <3>1. \A k \in Clients : Allowed(k)' = Allowed(k)
      BY <2>1 DEF Arrive, Allowed
    <3>2. \A d \in Calls : pc'[d] # "done" => pc[d] # "done"
      BY <2>1 DEF Arrive, IInv, TypeOK
    <3> QED
      BY <2>1, <3>1, <3>2 DEF Arrive, BurstInv, PaidInv, RefusedOnlyAfterBurst
  <2>2. ASSUME NEW c \in Calls, Allow(c) PROVE BurstInv'
    BY <2>2, AllowPays
  <2>3. CASE Tick \/ UNCHANGED vars
    BY <2>3 DEF Tick, vars, BurstInv, PaidInv, RefusedOnlyAfterBurst, Allowed
  <2> QED
    BY <2>1, <2>2, <2>3 DEF Next
<1>3. BurstInv => RefusedOnlyAfterBurst
  BY DEF BurstInv
<1> QED
  BY <1>1, <1>2, <1>3, InductiveInvariant, PTL DEF Spec
=============================================================================
