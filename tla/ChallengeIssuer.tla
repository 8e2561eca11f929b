-------------------------- MODULE ChallengeIssuer --------------------------
(***************************************************************************)
(* internal/auth/challenge.go: what GET /auth turns a query into.          *)
(*                                                                         *)
(* A query field is a value, None when it is missing or empty, or Garbage  *)
(* when it does not parse or is not configured.  The answer of the client  *)
(* domain resolver is a key, or None when it failed or refused.            *)
(***************************************************************************)
EXTENDS Sep10

CONSTANTS
    Garbage,              \* a value that parses as nothing
    LongDomains,          \* client domains over the 64 bytes of manage_data
    ChallengeTimeout,     \* CHALLENGE_TIMEOUT, in half seconds
    ClientDomainRequired  \* CLIENT_DOMAIN_REQUIRED

\* NewIssuer refuses a timeout below one second and an empty domain list.
ASSUME IssuerAssumption ==
    /\ ChallengeTimeout \in Nat /\ ChallengeTimeout >= 2
    /\ ClientDomainRequired \in BOOLEAN
    /\ LongDomains \subseteq ClientDomains
    /\ Garbage \notin Addresses \cup Memos \cup HomeDomains
    /\ Garbage # None

Query == [account : Addresses \cup {None, Garbage},
          memo : Memos \cup {None, Garbage},
          home : HomeDomains \cup {None, Garbage},
          domain : Orelse(ClientDomains)]

IssueErrors == {"BadRequest", "InvalidAccount", "MemoWithMuxed",
                "UnknownHomeDomain", "ClientDomainRejected",
                "ClientDomainRequired", "InternalError"}

\* The checks of getAuthHandler and Issue in their order, up to the signed
\* transaction.  A client domain of more than 64 bytes fails only when the
\* transaction is rebuilt, with an error no sentinel covers.
IssueError(q, key) ==
    IF q.account = None \/ q.memo = Garbage
      THEN "BadRequest"
    ELSE IF q.account \notin Addresses
      THEN "InvalidAccount"
    ELSE IF q.memo # None /\ q.account \in Muxed
      THEN "MemoWithMuxed"
    ELSE IF q.home \notin Orelse(HomeDomains)
      THEN "UnknownHomeDomain"
    ELSE IF q.domain # None /\ key = None
      THEN "ClientDomainRejected"
    ELSE IF q.domain = None /\ ClientDomainRequired
      THEN "ClientDomainRequired"
    ELSE IF q.domain \in LongDomains
      THEN "InternalError"
    ELSE "ok"

\* A builder that forgets the default home domain.
BuildChallenge_nodefault(q, key, t) ==
    [account |-> q.account, home |-> q.home, memo |-> q.memo,
     domain |-> q.domain, key |-> IF q.domain = None THEN None ELSE key,
     minTime |-> Unix(t), maxTime |-> Unix(t + ChallengeTimeout)]

\* The transaction BuildChallengeTx and appendClientDomain sign at time t.
BuildChallenge(q, key, t) ==
    [account |-> q.account,
     home    |-> IF q.home = None THEN FirstDomain ELSE q.home,
     memo    |-> q.memo,
     domain  |-> q.domain,
     key     |-> IF q.domain = None THEN None ELSE key,
     minTime |-> Unix(t),
     maxTime |-> Unix(t + ChallengeTimeout)]

\* IssuedChallenge.ExpiresAt: the instant at which the last second begins.
ExpiresAt(c) == Instant(c.maxTime)
=============================================================================
