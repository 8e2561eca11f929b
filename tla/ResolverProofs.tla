--------------------------- MODULE ResolverProofs ---------------------------
(***************************************************************************)
(* The properties of Resolver for any set of domains, any number of calls, *)
(* any TTL, timeout and cache size.                                        *)
(*                                                                         *)
(* AnswerIsRecent speaks of keys that were returned.  A key comes from a   *)
(* fetch or from the cache, so the invariant follows it through both: a    *)
(* fetch is no older than its timeout (FetchInv), and what is in the cache *)
(* expires before it is too old to return (CacheInv).                      *)
(***************************************************************************)
EXTENDS Resolver, FiniteSetTheorems, TLAPS

\* A call that has fetched a key, and has yet to store it.
FetchInv ==
    \A c \in Calls :
        /\ pc[c] \in {"fetch", "store"} =>
             domain[c] \in Domains /\ started[c] <= clock
        /\ pc[c] = "store" =>
             /\ key[c] \in Key
             /\ key[c].domain = domain[c]
             /\ started[c] <= key[c].servedAt /\ key[c].servedAt <= clock
             /\ clock - started[c] <= FetchTimeout + LockDelay

\* The key of d's entry was served by d, not long before it was stored.
CacheInv ==
    \A d \in Domains : cache[d] # None =>
        /\ cache[d].signingKey.domain = d
        /\ cache[d].expiresAt <= clock + CacheTTL
        /\ cache[d].expiresAt - cache[d].signingKey.servedAt <= Staleness

Cached(map) == {d \in Domains : map[d] # None}

SizeInv == IsFiniteSet(Cached(cache)) /\ CacheIsBounded

ReturnInv ==
    \A c \in Calls : pc[c] = "returned" =>
        /\ key[c] \in Key
        /\ key[c].domain = domain[c]
        /\ returned[c] - key[c].servedAt <= Staleness

IInv == TypeOK /\ FetchInv /\ CacheInv /\ SizeInv /\ ReturnInv
-----------------------------------------------------------------------------
LEMMA Constants ==
    /\ CacheTTL \in Nat /\ FetchTimeout \in Nat /\ LockDelay \in Nat
    /\ MaxEntries \in Nat /\ MaxEntries >= 1
    /\ Staleness \in Nat /\ Staleness = CacheTTL + FetchTimeout + LockDelay
  BY ResolverAssumption DEF Staleness

\* store's map: what was live, and perhaps one new entry for d.
LEMMA StoredFacts ==
    ASSUME TypeOK, NEW d \in Domains, NEW k \in Key
    PROVE  LET new == [signingKey |-> k, expiresAt |-> clock + CacheTTL]
           IN /\ Stored(d, k) \in [Domains -> Entry \cup {None}]
              /\ \A e \in Domains :
                   \/ Stored(d, k)[e] = cache[e] /\ Live(e)
                   \/ Stored(d, k)[e] = None /\ ~Live(e)
                   \/ e = d /\ Stored(d, k)[e] = new
<1> DEFINE new == [signingKey |-> k, expiresAt |-> clock + CacheTTL]
<1>1. clock \in Nat /\ new \in Entry
  BY Constants DEF TypeOK, Entry
<1>2. /\ Purged \in [Domains -> Entry \cup {None}]
      /\ \A e \in Domains : \/ Purged[e] = cache[e] /\ Live(e)
                            \/ Purged[e] = None /\ ~Live(e)
  BY DEF Purged, TypeOK
<1>3. Stored(d, k) = Purged \/ Stored(d, k) = [Purged EXCEPT ![d] = new]
  BY DEF Stored
<1> HIDE DEF new
<1>4. CASE Stored(d, k) = Purged
  BY <1>2, <1>4 DEF new
<1>5. CASE Stored(d, k) = [Purged EXCEPT ![d] = new]
  BY <1>1, <1>2, <1>5 DEF new
<1> QED
  BY <1>3, <1>4, <1>5

\* store keeps the cache within its cap.
LEMMA StoredIsBounded ==
    ASSUME TypeOK, SizeInv, NEW d \in Domains, NEW k \in Key
    PROVE  IsFiniteSet(Cached(Stored(d, k))) /\ Size(Stored(d, k)) <= MaxEntries
<1> DEFINE new == [signingKey |-> k, expiresAt |-> clock + CacheTTL]
           old == Cached(Purged)
<1>1. \A map : Size(map) = Cardinality(Cached(map))
  BY DEF Size, Cached
<1>2. old \subseteq Cached(cache)
  BY DEF Cached, Purged
<1>3. /\ IsFiniteSet(old) /\ Cardinality(old) \in Nat
      /\ Cardinality(old) <= Cardinality(Cached(cache))
  BY <1>2, FS_Subset, FS_CardinalityType DEF SizeInv
<1>4. Cardinality(Cached(cache)) <= MaxEntries /\ Cardinality(Cached(cache)) \in Nat
  BY <1>1, FS_CardinalityType DEF SizeInv, CacheIsBounded
<1>5. CASE Size(Purged) >= MaxEntries
  BY <1>1, <1>3, <1>4, <1>5, Constants DEF Stored
<1>6. CASE ~(Size(Purged) >= MaxEntries)
  <2>1. Stored(d, k) = [Purged EXCEPT ![d] = new]
    BY <1>6 DEF Stored
  <2>2. Cached(Stored(d, k)) \subseteq old \cup {d}
    BY <2>1 DEF Cached, Purged
  <2>3. /\ IsFiniteSet(old \cup {d}) /\ Cardinality(old \cup {d}) \in Nat
        /\ Cardinality(old \cup {d}) <= Cardinality(old) + 1
    <3> HIDE DEF old
    <3>1. /\ IsFiniteSet(old \cup {d})
          /\ Cardinality(old \cup {d}) =
               IF d \in old THEN Cardinality(old) ELSE Cardinality(old) + 1
      BY <1>3, FS_AddElement
    <3>2. CASE d \in old
      BY <1>3, <3>1, <3>2
    <3>3. CASE d \notin old
      BY <1>3, <3>1, <3>3
    <3> QED
      BY <3>2, <3>3
  <2>4. /\ IsFiniteSet(Cached(Stored(d, k)))
        /\ Cardinality(Cached(Stored(d, k))) \in Nat
        /\ Cardinality(Cached(Stored(d, k))) <= Cardinality(old \cup {d})
    BY <2>2, <2>3, FS_Subset, FS_CardinalityType
  <2> HIDE DEF old
  <2>5. Cardinality(old) < MaxEntries
    BY <1>1, <1>3, <1>6, Constants DEF old
  <2> QED
    BY <1>1, <1>3, <2>3, <2>4, <2>5, Constants
<1> QED
  BY <1>5, <1>6
-----------------------------------------------------------------------------
LEMMA InitIInv == Init => IInv
<1> SUFFICES ASSUME Init PROVE IInv
  OBVIOUS
<1>1. TypeOK /\ FetchInv /\ CacheInv /\ ReturnInv
  BY DEF Init, TypeOK, FetchInv, CacheInv, ReturnInv
<1>2. Cached(cache) = {}
  BY DEF Init, Cached
<1>3. SizeInv
  BY <1>2, FS_EmptySet, Constants DEF SizeInv, CacheIsBounded, Size, Cached
<1> QED
  BY <1>1, <1>3 DEF IInv

\* A step that leaves clock and cache alone keeps what is said of them.
LEMMA SameCache ==
    ASSUME IInv, UNCHANGED <<clock, cache>> PROVE CacheInv' /\ SizeInv'
  BY DEF IInv, CacheInv, SizeInv, CacheIsBounded, Size, Cached

LEMMA RefuseStep ==
    ASSUME IInv, NEW c \in Calls, Refuse(c) PROVE IInv'
<1>1. TypeOK' /\ FetchInv' /\ ReturnInv'
  BY DEF Refuse, IInv, TypeOK, FetchInv, ReturnInv
<1> QED
  BY <1>1, SameCache DEF Refuse, IInv

\* A live entry is not too old to return.
LEMMA CacheHitStep ==
    ASSUME IInv, NEW c \in Calls, CacheHit(c) PROVE IInv'
<1> PICK d \in Domains :
      /\ Live(d)
      /\ domain' = [domain EXCEPT ![c] = d]
      /\ key' = [key EXCEPT ![c] = cache[d].signingKey]
  BY DEF CacheHit
<1>1. /\ pc' = [pc EXCEPT ![c] = "returned"]
      /\ returned' = [returned EXCEPT ![c] = clock]
      /\ UNCHANGED <<clock, cache, started>>
  BY DEF CacheHit
<1>2. cache[d] \in Entry /\ cache[d].signingKey \in Key
  BY DEF Live, IInv, TypeOK, Entry
<1>3. TypeOK'
  BY <1>1, <1>2 DEF IInv, TypeOK
<1>4. FetchInv'
  BY <1>1 DEF IInv, TypeOK, FetchInv
<1>5. clock - cache[d].signingKey.servedAt <= Staleness
  <2>1. /\ clock \in Nat /\ cache[d].expiresAt \in Nat
        /\ cache[d].signingKey.servedAt \in Nat
    BY <1>2 DEF IInv, TypeOK, Entry, Key
  <2>2. clock < cache[d].expiresAt
    BY DEF Live
  <2>3. cache[d].expiresAt - cache[d].signingKey.servedAt <= Staleness
    BY DEF Live, IInv, CacheInv
  <2> QED
    BY <2>1, <2>2, <2>3, Constants
<1>6. cache[d].signingKey.domain = d
  BY DEF Live, IInv, CacheInv
<1>7. ReturnInv'
  BY <1>1, <1>2, <1>5, <1>6 DEF IInv, TypeOK, ReturnInv
<1> QED
  BY <1>1, <1>3, <1>4, <1>7, SameCache DEF IInv

LEMMA CacheMissStep ==
    ASSUME IInv, NEW c \in Calls, CacheMiss(c) PROVE IInv'
<1>1. TypeOK'
  BY DEF CacheMiss, IInv, TypeOK
<1>2. FetchInv'
  BY DEF CacheMiss, IInv, TypeOK, FetchInv
<1>3. ReturnInv'
  BY DEF CacheMiss, IInv, TypeOK, ReturnInv
<1> QED
  BY <1>1, <1>2, <1>3, SameCache DEF CacheMiss, IInv

LEMMA FetchedStep ==
    ASSUME IInv, NEW c \in Calls, Fetched(c) PROVE IInv'
<1> DEFINE k == [domain |-> domain[c], servedAt |-> clock]
<1>1. /\ pc[c] = "fetch" /\ clock - started[c] <= FetchTimeout
      /\ key' = [key EXCEPT ![c] = k]
      /\ pc' = [pc EXCEPT ![c] = "store"]
      /\ UNCHANGED <<clock, cache, domain, started, returned>>
  BY DEF Fetched
<1>2. /\ clock \in Nat /\ started[c] \in Nat /\ domain[c] \in Domains
      /\ started[c] <= clock
  BY <1>1 DEF IInv, TypeOK, FetchInv
<1>3. k \in Key /\ k.domain = domain[c] /\ k.servedAt = clock
  BY <1>2 DEF Key
<1> HIDE DEF k
<1>4. TypeOK'
  BY <1>1, <1>3 DEF IInv, TypeOK
<1>5. clock - started[c] <= FetchTimeout + LockDelay
  BY <1>1, <1>2, Constants
<1>6. FetchInv'
  BY <1>1, <1>2, <1>3, <1>5 DEF IInv, TypeOK, FetchInv
<1>7. ReturnInv'
  BY <1>1 DEF IInv, TypeOK, ReturnInv
<1> QED
  BY <1>1, <1>4, <1>6, <1>7, SameCache DEF IInv

LEMMA FetchFailsStep ==
    ASSUME IInv, NEW c \in Calls, FetchFails(c) PROVE IInv'
<1>1. TypeOK' /\ FetchInv' /\ ReturnInv'
  BY DEF FetchFails, IInv, TypeOK, FetchInv, ReturnInv
<1> QED
  BY <1>1, SameCache DEF FetchFails, IInv

\* The key that is stored was served after the fetch began, and the fetch began
\* no longer ago than its timeout and the wait for the mutex.
LEMMA StoreStep ==
    ASSUME IInv, NEW c \in Calls, Store(c) PROVE IInv'
<1> DEFINE d == domain[c]
           k == key[c]
           new == [signingKey |-> k, expiresAt |-> clock + CacheTTL]
<1>1. /\ pc[c] = "store" /\ cache' = Stored(d, k)
      /\ pc' = [pc EXCEPT ![c] = "returned"]
      /\ returned' = [returned EXCEPT ![c] = clock]
      /\ UNCHANGED <<clock, domain, started, key>>
  BY DEF Store
<1>2. /\ d \in Domains /\ k \in Key /\ k.domain = d
      /\ started[c] <= k.servedAt /\ k.servedAt <= clock
      /\ clock - started[c] <= FetchTimeout + LockDelay
  BY <1>1 DEF IInv, FetchInv
<1>3. clock \in Nat /\ started[c] \in Nat /\ k.servedAt \in Nat
  BY <1>2 DEF IInv, TypeOK, Key
<1>4. /\ cache' \in [Domains -> Entry \cup {None}]
      /\ \A e \in Domains :
           \/ cache'[e] = cache[e] /\ Live(e)
           \/ cache'[e] = None /\ ~Live(e)
           \/ e = d /\ cache'[e] = new
  BY <1>1, <1>2, StoredFacts DEF IInv
<1>5. TypeOK'
  BY <1>1, <1>3, <1>4 DEF IInv, TypeOK
<1>6. FetchInv'
  BY <1>1 DEF IInv, TypeOK, FetchInv
<1>7. CacheInv'
  <2> SUFFICES ASSUME NEW e \in Domains, cache'[e] # None
               PROVE  /\ cache'[e].signingKey.domain = e
                      /\ cache'[e].expiresAt <= clock + CacheTTL
                      /\ cache'[e].expiresAt - cache'[e].signingKey.servedAt
                           <= Staleness
    BY <1>1 DEF CacheInv
  <2>1. CASE cache'[e] = cache[e] /\ Live(e)
    BY <2>1 DEF IInv, CacheInv, Live
  <2>2. CASE e = d /\ cache'[e] = new
    <3>1. new.signingKey = k /\ new.expiresAt = clock + CacheTTL
      OBVIOUS
    <3>2. (clock + CacheTTL) - k.servedAt <= Staleness
      BY <1>2, <1>3, Constants
    <3> QED
      BY <1>2, <1>3, <2>2, <3>1, <3>2, Constants
  <2> QED
    BY <1>4, <2>1, <2>2
<1>8. SizeInv'
  <2>1. IsFiniteSet(Cached(Stored(d, k))) /\ Size(Stored(d, k)) <= MaxEntries
    BY <1>2, StoredIsBounded DEF IInv
  <2>2. Cached(cache)' = Cached(Stored(d, k)) /\ Size(cache)' = Size(Stored(d, k))
    BY <1>1 DEF Cached, Size
  <2> QED
    BY <2>1, <2>2 DEF SizeInv, CacheIsBounded
<1>9. clock - k.servedAt <= Staleness
  BY <1>2, <1>3, Constants
<1>10. ReturnInv'
  BY <1>1, <1>2, <1>9 DEF IInv, TypeOK, ReturnInv
<1> QED
  BY <1>5, <1>6, <1>7, <1>8, <1>10 DEF IInv

LEMMA TickStep ==
    ASSUME IInv, Tick PROVE IInv'
<1>1. /\ clock \in Nat /\ clock' = clock + 1
      /\ UNCHANGED <<cache, pc, domain, started, key, returned>>
  BY DEF Tick, IInv, TypeOK
<1>2. TypeOK'
  BY <1>1 DEF IInv, TypeOK
<1>3. FetchInv'
  <2> SUFFICES ASSUME NEW c \in Calls
               PROVE  /\ pc[c] \in {"fetch", "store"} =>
                           domain[c] \in Domains /\ started[c] <= clock + 1
                      /\ pc[c] = "store" =>
                           /\ key[c] \in Key
                           /\ key[c].domain = domain[c]
                           /\ started[c] <= key[c].servedAt
                           /\ key[c].servedAt <= clock + 1
                           /\ (clock + 1) - started[c] <= FetchTimeout + LockDelay
    BY <1>1 DEF FetchInv
  <2>1. started[c] \in Nat
    BY DEF IInv, TypeOK
  <2>2. pc[c] = "store" =>
          /\ clock - started[c] < FetchTimeout + LockDelay
          /\ key[c].servedAt \in Nat
    BY DEF Tick, IInv, FetchInv, Key
  <2> QED
    BY <1>1, <2>1, <2>2, Constants DEF IInv, FetchInv
<1>4. CacheInv'
  <2> SUFFICES ASSUME NEW d \in Domains, cache[d] # None
               PROVE  /\ cache[d].signingKey.domain = d
                      /\ cache[d].expiresAt <= (clock + 1) + CacheTTL
                      /\ cache[d].expiresAt - cache[d].signingKey.servedAt
                           <= Staleness
    BY <1>1 DEF CacheInv
  <2>1. cache[d].expiresAt \in Nat
    BY DEF IInv, TypeOK, Entry
  <2> QED
    BY <1>1, <2>1, Constants DEF IInv, CacheInv
<1>5. SizeInv' /\ ReturnInv'
  BY <1>1 DEF IInv, SizeInv, CacheIsBounded, Size, Cached, ReturnInv
<1> QED
  BY <1>2, <1>3, <1>4, <1>5 DEF IInv

LEMMA InductiveInvariant == Spec => []IInv
<1>1. IInv /\ [Next]_vars => IInv'
  <2> SUFFICES ASSUME IInv, [Next]_vars PROVE IInv'
    OBVIOUS
  <2>1. CASE \E c \in Calls : Resolve(c)
    BY <2>1, RefuseStep, CacheHitStep, CacheMissStep, FetchedStep,
       FetchFailsStep, StoreStep DEF Resolve
  <2>2. CASE Tick
    BY <2>2, TickStep
  <2>3. CASE UNCHANGED vars
    BY <2>3 DEF vars, IInv, TypeOK, FetchInv, CacheInv, SizeInv, CacheIsBounded,
       Size, Cached, ReturnInv
  <2> QED
    BY <2>1, <2>2, <2>3 DEF Next
<1> QED
  BY <1>1, InitIInv, PTL DEF Spec

\* Resolve returns only keys its domain served within the TTL, one fetch and
\* one wait for the mutex.
THEOREM AnswersAreRecent == Spec => []AnswerIsRecent
<1>1. IInv => AnswerIsRecent
  BY DEF IInv, ReturnInv, AnswerIsRecent
<1> QED
  BY <1>1, InductiveInvariant, PTL

\* The cache of resolver.go never holds more than maxCacheEntries.
THEOREM CacheStaysBounded == Spec => []CacheIsBounded
<1>1. IInv => CacheIsBounded
  BY DEF IInv, SizeInv
<1> QED
  BY <1>1, InductiveInvariant, PTL

\* No call of store evicts a live entry or shortens its life.
THEOREM LiveEntriesAreKept == Spec => LiveEntryKept
<1> DEFINE Kept == \A d \in Domains : Live(d) =>
             cache'[d] # None /\ cache'[d].expiresAt >= cache[d].expiresAt
<1>1. ASSUME IInv, [Next]_vars PROVE Kept
  <2> SUFFICES ASSUME NEW d \in Domains, Live(d)
               PROVE  cache'[d] # None /\ cache'[d].expiresAt >= cache[d].expiresAt
    OBVIOUS
  <2>1. /\ cache[d] # None /\ cache[d].expiresAt \in Nat /\ clock \in Nat
        /\ cache[d].expiresAt <= clock + CacheTTL
    BY <1>1 DEF Live, IInv, TypeOK, Entry, CacheInv
  <2>2. CASE cache' = cache
    BY <2>1, <2>2
  <2>3. ASSUME NEW c \in Calls, Store(c)
        PROVE  cache'[d] # None /\ cache'[d].expiresAt >= cache[d].expiresAt
    <3> DEFINE new == [signingKey |-> key[c], expiresAt |-> clock + CacheTTL]
    <3>1. domain[c] \in Domains /\ key[c] \in Key
      BY <1>1, <2>3 DEF Store, IInv, FetchInv
    <3>2. cache'[d] = cache[d] \/ cache'[d] = new
      BY <1>1, <2>3, <3>1, StoredFacts DEF Store, IInv
    <3>3. new.expiresAt = clock + CacheTTL /\ new # None
      BY <2>1, <3>1, Constants, ResolverAssumption DEF Entry
    <3> HIDE DEF new
    <3> QED
      BY <2>1, <3>2, <3>3
  <2> QED
    BY <1>1, <2>2, <2>3 DEF Next, Resolve, vars, Refuse, CacheHit, CacheMiss,
       Fetched, FetchFails, Tick
<1>2. IInv /\ [Next]_vars => [Kept]_vars
  BY <1>1
<1> QED
  BY <1>2, InductiveInvariant, PTL DEF Spec, LiveEntryKept
=============================================================================
