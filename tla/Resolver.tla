------------------------------ MODULE Resolver ------------------------------
(***************************************************************************)
(* internal/clientdomain/resolver.go: the signing key of a client domain,  *)
(* fetched from its stellar.toml and cached.                               *)
(*                                                                         *)
(* Calls of Resolve run concurrently and hold the mutex only inside cached *)
(* and store, so several may fetch the same domain while the domain itself *)
(* changes its key.  A domain may change its key at any time, so what      *)
(* counts of a signing key is who served it and when.                      *)
(***************************************************************************)
EXTENDS Integers, FiniteSets

CONSTANTS
    Domains,       \* domains callers name
    None,          \* no value
    Allowlist,     \* CLIENT_DOMAIN_ALLOWLIST; empty allows every domain
    CacheTTL,      \* CLIENT_DOMAIN_CACHE_TTL
    FetchTimeout,  \* fetchTimeout
    LockDelay,     \* the longest wait between the fetch and the cache
    MaxEntries,    \* maxCacheEntries
    Calls,         \* runs of Resolve
    MaxClock       \* bound: the last instant of a behaviour

\* A signing key: the one that domain served at that time.
Key == [domain : Domains, servedAt : Nat]

Entry == [signingKey : Key, expiresAt : Nat]

ASSUME ResolverAssumption ==
    /\ Allowlist \subseteq Domains
    /\ CacheTTL \in Nat /\ FetchTimeout \in Nat /\ LockDelay \in Nat
    /\ MaxEntries \in Nat \ {0} /\ MaxClock \in Nat
    /\ None \notin Key /\ None \notin Domains /\ None \notin Entry

VARIABLES
    clock,
    cache,      \* the cache, None where there is no entry
    pc,         \* each call's place
    domain,     \* the domain it was asked for
    started,    \* when its fetch began
    key,        \* the key it fetched or returned
    returned    \* history: when it returned

vars == <<clock, cache, pc, domain, started, key, returned>>

TypeOK ==
    /\ clock \in Nat
    /\ cache \in [Domains -> Entry \cup {None}]
    /\ pc \in [Calls -> {"idle", "fetch", "store", "returned", "failed"}]
    /\ domain \in [Calls -> Domains \cup {None}]
    /\ started \in [Calls -> Nat]
    /\ key \in [Calls -> Key \cup {None}]
    /\ returned \in [Calls -> Nat]

\* Resolve's refusals before any network call; None is the empty domain.
Refused(d) == d = None \/ (Allowlist # {} /\ d \notin Allowlist)

Init ==
    /\ clock = 0
    /\ cache = [d \in Domains |-> None]
    /\ pc = [c \in Calls |-> "idle"]
    /\ domain = [c \in Calls |-> None]
    /\ started = [c \in Calls |-> 0]
    /\ key = [c \in Calls |-> None]
    /\ returned = [c \in Calls |-> 0]

\* An entry that is returned for as long as it is in the map.
Live_forever(d) == cache[d] # None

\* cached's test, and the opposite of store's purge.
Live(d) == cache[d] # None /\ clock < cache[d].expiresAt

Refuse(c) ==
    /\ pc[c] = "idle"
    /\ \E d \in Domains \cup {None} :
         /\ Refused(d)
         /\ domain' = [domain EXCEPT ![c] = d]
    /\ pc' = [pc EXCEPT ![c] = "failed"]
    /\ UNCHANGED <<clock, cache, started, key, returned>>

CacheHit(c) ==
    /\ pc[c] = "idle"
    /\ \E d \in Domains :
         /\ ~Refused(d) /\ Live(d)
         /\ domain' = [domain EXCEPT ![c] = d]
         /\ key' = [key EXCEPT ![c] = cache[d].signingKey]
    /\ pc' = [pc EXCEPT ![c] = "returned"]
    /\ returned' = [returned EXCEPT ![c] = clock]
    /\ UNCHANGED <<clock, cache, started>>

CacheMiss(c) ==
    /\ pc[c] = "idle"
    /\ \E d \in Domains :
         /\ ~Refused(d) /\ ~Live(d)
         /\ domain' = [domain EXCEPT ![c] = d]
    /\ pc' = [pc EXCEPT ![c] = "fetch"]
    /\ started' = [started EXCEPT ![c] = clock]
    /\ UNCHANGED <<clock, cache, key, returned>>

\* The domain answers within the timeout, with a file that holds a key.
Fetched(c) ==
    /\ pc[c] = "fetch"
    /\ clock - started[c] <= FetchTimeout
    /\ key' = [key EXCEPT ![c] = [domain |-> domain[c], servedAt |-> clock]]
    /\ pc' = [pc EXCEPT ![c] = "store"]
    /\ UNCHANGED <<clock, cache, domain, started, returned>>

\* Any other end of the fetch: the timeout, a status that is not 200, a chain
\* of redirects too long or through plain HTTP, a body over the cap, no TOML in
\* it, or no valid SIGNING_KEY.  Nothing about it is cached.
FetchFails(c) ==
    /\ pc[c] = "fetch"
    /\ pc' = [pc EXCEPT ![c] = "failed"]
    /\ UNCHANGED <<clock, cache, domain, started, key, returned>>

\* The map after store's loop.
Purged == [d \in Domains |-> IF Live(d) THEN cache[d] ELSE None]

Size(map) == Cardinality({d \in Domains : map[d] # None})

\* Faults of store: one entry too many, and room made by evicting the rest.
Stored_off_by_one(d, k) ==
    IF Size(Purged) > MaxEntries THEN Purged
    ELSE [Purged EXCEPT ![d] = [signingKey |-> k, expiresAt |-> clock + CacheTTL]]
Stored_evicts(d, k) ==
    [(IF Size(Purged) >= MaxEntries THEN [e \in Domains |-> None] ELSE Purged)
       EXCEPT ![d] = [signingKey |-> k, expiresAt |-> clock + CacheTTL]]

\* store: purge, give up when the cache is still full, write otherwise.
Stored(d, k) ==
    IF Size(Purged) >= MaxEntries THEN Purged
    ELSE [Purged EXCEPT ![d] = [signingKey |-> k, expiresAt |-> clock + CacheTTL]]

Store(c) ==
    /\ pc[c] = "store"
    /\ cache' = Stored(domain[c], key[c])
    /\ pc' = [pc EXCEPT ![c] = "returned"]
    /\ returned' = [returned EXCEPT ![c] = clock]
    /\ UNCHANGED <<clock, domain, started, key>>

\* A fetch ends by its timeout, and soon after it the call of store.
Tick ==
    /\ clock < MaxClock
    /\ \A c \in Calls :
         /\ pc[c] = "fetch" => clock - started[c] < FetchTimeout
         /\ pc[c] = "store" => clock - started[c] < FetchTimeout + LockDelay
    /\ clock' = clock + 1
    /\ UNCHANGED <<cache, pc, domain, started, key, returned>>

Resolve(c) ==
    \/ Refuse(c) \/ CacheHit(c) \/ CacheMiss(c)
    \/ Fetched(c) \/ FetchFails(c) \/ Store(c)

Next == (\E c \in Calls : Resolve(c)) \/ Tick

Spec == Init /\ [][Next]_vars
-----------------------------------------------------------------------------
\* How old a key may be when Resolve returns it.
Staleness == CacheTTL + FetchTimeout + LockDelay

\* A key that is returned was served by that very domain, and no longer ago
\* than the TTL and one fetch, although a slow fetch may overwrite what a
\* quicker one cached after it and so cache an older key for longer.
AnswerIsRecent ==
    \A c \in Calls : pc[c] = "returned" =>
        /\ key[c].domain = domain[c]
        /\ returned[c] - key[c].servedAt <= Staleness

\* store never evicts a live entry to make room: until it expires an entry can
\* only be replaced by one for the same domain that expires no sooner.
LiveEntryKept ==
    [][\A d \in Domains : Live(d) =>
         cache'[d] # None /\ cache'[d].expiresAt >= cache[d].expiresAt]_vars

\* The cache stays within its cap, whatever domains callers name and however
\* many fetches end at once.
CacheIsBounded == Size(cache) <= MaxEntries
=============================================================================
