---------------------------- MODULE RateLimiter ----------------------------
(***************************************************************************)
(* internal/httpapi/middleware.go: the per-address token bucket.           *)
(*                                                                         *)
(* A handler reads the clock, then waits for the limiter's mutex, so calls *)
(* of allow may run in another order than their times.  Tokens are counted *)
(* in the time it takes to earn them: a bucket earns one unit per tick, a  *)
(* request costs Cost units, and a full bucket holds Capacity.             *)
(***************************************************************************)
EXTENDS Integers, FiniteSets

CONSTANTS
    Clients,        \* client addresses
    Calls,          \* handler runs
    Cost,           \* ticks in which one token is earned
    Burst,          \* tokens in a full bucket
    IdleTTL,        \* bucketIdleTTL
    SweepInterval,  \* sweepInterval
    MaxDelay,       \* the longest a handler waits for the mutex
    MaxClock,       \* bound: the last instant of a behaviour
    NoBucket        \* an address without a bucket

Capacity == Cost * Burst

\* A bucket swept for idleness has long been full: 10 minutes are more than the
\* one minute in which a bucket fills, plus any wait for a mutex.
ASSUME LimiterAssumption ==
    /\ Cost \in Nat \ {0} /\ Burst \in Nat \ {0} /\ Capacity \in Nat
    /\ IdleTTL \in Nat /\ SweepInterval \in Nat
    /\ MaxDelay \in Nat /\ MaxClock \in Nat
    /\ Capacity + MaxDelay <= IdleTTL

Bucket == [tokens : Nat, last : Nat]

ASSUME NoBucketAssumption == NoBucket \notin Bucket

VARIABLES
    clock,
    buckets,    \* the limiter's map
    lastSweep,  \* -1 stands for the zero time, long ago
    pc, client, now,  \* each call's place, address and captured time
    verdict,    \* what allow returned
    from,       \* history: the time from which grants are counted
    spent       \* history: units spent per address by calls made since then

vars == <<clock, buckets, lastSweep, pc, client, now, verdict, from, spent>>

TypeOK ==
    /\ clock \in Nat
    /\ buckets \in [Clients -> Bucket \cup {NoBucket}]
    /\ lastSweep \in Nat \cup {-1}
    /\ pc \in [Calls -> {"idle", "lock", "done"}]
    /\ client \in [Calls -> Clients]
    /\ now \in [Calls -> Nat]
    /\ verdict \in [Calls -> {"none", "allowed", "refused"}]
    /\ from \in Nat
    /\ spent \in [Clients -> Nat]

Init ==
    /\ clock = 0
    /\ buckets = [k \in Clients |-> NoBucket]
    /\ lastSweep = -1
    /\ pc = [c \in Calls |-> "idle"]
    /\ client \in [Calls -> Clients]
    /\ now = [c \in Calls |-> 0]
    /\ verdict = [c \in Calls |-> "none"]
    /\ from \in 0..MaxClock
    /\ spent = [k \in Clients |-> 0]

\* middleware: clientIP and time.Now(), before the mutex.
Arrive(c) ==
    /\ pc[c] = "idle"
    /\ pc' = [pc EXCEPT ![c] = "lock"]
    /\ now' = [now EXCEPT ![c] = clock]
    /\ UNCHANGED <<clock, buckets, lastSweep, client, verdict, from, spent>>

\* An idle test that takes any bucket not used in this tick.
Idle_early(b, t) == t > b.last

\* sweep's test of one bucket.
Idle(b, t) == t - b.last > IdleTTL

SweepDue(t) == lastSweep = -1 \/ t - lastSweep >= SweepInterval

\* sweep: the map without its idle buckets, when a sweep is due.
Swept(t) ==
    [k \in Clients |->
        IF SweepDue(t) /\ buckets[k] # NoBucket /\ Idle(buckets[k], t)
          THEN NoBucket ELSE buckets[k]]

\* The bucket of allow after its refill: never for a time already counted.
Refill(b, t) ==
    LET earned == b.tokens + (t - b.last)
    IN IF t <= b.last THEN b
       ELSE [tokens |-> IF earned > Capacity THEN Capacity ELSE earned,
             last   |-> t]

\* A new bucket that has yet to earn its first token.
BucketFor_empty(map, k, t) ==
    IF map[k] = NoBucket THEN [tokens |-> 0, last |-> t] ELSE map[k]

\* The bucket allow works on: the one in the map, or a new full one.
BucketFor(map, k, t) ==
    IF map[k] = NoBucket THEN [tokens |-> Capacity, last |-> t] ELSE map[k]

Allow(c) ==
    LET k == client[c]
        b == Refill(BucketFor(Swept(now[c]), k, now[c]), now[c])
        ok == b.tokens >= Cost
    IN /\ pc[c] = "lock"
       /\ pc' = [pc EXCEPT ![c] = "done"]
       /\ lastSweep' = IF SweepDue(now[c]) THEN now[c] ELSE lastSweep
       /\ buckets' = [Swept(now[c]) EXCEPT ![k] =
            IF ok THEN [tokens |-> b.tokens - Cost, last |-> b.last] ELSE b]
       /\ verdict' = [verdict EXCEPT ![c] = IF ok THEN "allowed" ELSE "refused"]
       /\ spent' = [spent EXCEPT ![k] =
            IF ok /\ now[c] >= from THEN @ + Cost ELSE @]
       /\ UNCHANGED <<clock, client, now, from>>

\* Time passes, but no handler waits longer than MaxDelay.
Tick ==
    /\ clock < MaxClock
    /\ \A c \in Calls : pc[c] = "lock" => clock - now[c] < MaxDelay
    /\ clock' = clock + 1
    /\ UNCHANGED <<buckets, lastSweep, pc, client, now, verdict, from, spent>>

Next == (\E c \in Calls : Arrive(c) \/ Allow(c)) \/ Tick

Spec == Init /\ [][Next]_vars
-----------------------------------------------------------------------------
\* The limit holds over every window, whenever it starts: from any time on, an
\* address is granted at most a burst and what it has earned since, also when
\* its bucket is swept and made anew and calls overtake one another between
\* time.Now() and the mutex.
WindowBound ==
    \A k \in Clients :
        spent[k] <= Capacity + (IF clock > from THEN clock - from ELSE 0)

\* Nobody is refused before using up a burst: a refusal means that at least
\* Burst calls of the same address were allowed before it.
RefusedOnlyAfterBurst ==
    \A c \in Calls : verdict[c] = "refused" =>
        Cardinality({o \in Calls : client[o] = client[c]
                                   /\ verdict[o] = "allowed"}) >= Burst
=============================================================================
