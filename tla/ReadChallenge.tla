--------------------------- MODULE ReadChallenge ---------------------------
(***************************************************************************)
(* internal/auth/read.go: ReadChallenge on any envelope a client may post. *)
(*                                                                         *)
(* An envelope is a parsed transaction.  An operation is manage_data or    *)
(* not; its name is a home domain h (for the key "h auth"), one of the two *)
(* names SEP-10 reserves, or anything else; its value is a nonce of the    *)
(* right shape, a domain, None when empty, or anything else.  One step     *)
(* reads the transaction and its first operation, then one step reads each *)
(* further operation, and the last checks the server's signature.          *)
(***************************************************************************)
EXTENDS ChallengeReader

CONSTANTS
    WebAuthDomain,  \* the server's own web_auth_domain
    Envelopes,      \* envelopes clients post that this server never built
    Issuable,       \* the queries that challenges are built from
    Published,      \* the keys a client domain's stellar.toml may name
    SigLists,       \* signatures put on a challenge the server built
    IssueTime,      \* when the server built it
    Times           \* the times at which an envelope arrives

Other == "other"

Operation == [data : BOOLEAN,
              source : Orelse(Addresses),
              name : HomeDomains \cup {"web_auth_domain", "client_domain", Other},
              value : Orelse(Nonces \cup ClientDomains \cup {WebAuthDomain, Other})]

Envelope == [parses : BOOLEAN, source : Addresses, sequence : Nat,
             minTime : Nat, maxTime : Nat, memo : Orelse(Memos \cup {Other}),
             ops : Seq(Operation), sigs : Seq(Keys)]

ASSUME EnvelopesAssumption ==
    /\ Envelopes \subseteq Envelope
    /\ Issuable \subseteq Query
    /\ Published \in [ClientDomains -> SUBSET Keys]
    /\ SigLists \subseteq Seq(Keys)
    /\ IssueTime \in Nat /\ Times \subseteq Nat

ManageData(source, name, value) ==
    [data |-> TRUE, source |-> source, name |-> name, value |-> value]

\* A client_domain operation sourced at the server, as the SDK's reader wants.
ClientDomainOps_at_server(c) ==
    IF c.domain = None THEN <<>>
    ELSE <<ManageData(Server, "client_domain", c.domain)>>

\* appendClientDomain: sourced at the wallet's signing key.
ClientDomainOps(c) ==
    IF c.domain = None THEN <<>>
    ELSE <<ManageData(c.key, "client_domain", c.domain)>>

\* The envelope of challenge c under nonce n: the SDK's two operations and the
\* client_domain operation, with the signatures s.
EnvelopeOf(c, n, s) ==
    [parses |-> TRUE, source |-> Server, sequence |-> 0,
     minTime |-> c.minTime, maxTime |-> c.maxTime, memo |-> c.memo,
     ops |-> <<ManageData(c.account, c.home, n),
               ManageData(Server, "web_auth_domain", WebAuthDomain)>>
             \o ClientDomainOps(c),
     sigs |-> s]

\* Every challenge Issue builds at time t.
IssuedAt(t) ==
    {BuildChallenge(p[1], p[2], t) :
        p \in {p \in Issuable \X Orelse(Keys) :
                 /\ IssueError(p[1], p[2]) = "ok"
                 /\ p[1].domain # None => p[2] \in Published[p[1].domain]}}

VARIABLES
    env,               \* the envelope
    origin,            \* the challenge, nonce and signatures it came from, or None
    time,              \* when it is read
    at,                \* the operation about to be read
    sawWebAuthDomain,
    sawClientDomain,
    challenge,         \* the Challenge under construction
    result             \* "none" while reading, "ok", or the sentinel returned

vars == <<env, origin, time, at, sawWebAuthDomain, sawClientDomain, challenge,
          result>>

Init ==
    /\ time \in Times
    /\ \/ env \in Envelopes /\ origin = None
       \/ \E c \in IssuedAt(IssueTime), n \in Nonces, s \in SigLists :
            /\ origin = [challenge |-> c, nonce |-> n, sigs |-> s]
            /\ env = EnvelopeOf(c, n, s)
    /\ at = 1
    /\ sawWebAuthDomain = FALSE
    /\ sawClientDomain = FALSE
    /\ challenge = None
    /\ result = "none"

\* The checks before the loop, in their order.  A source account that is no
\* address, which the code also refuses, does not come out of an XDR.
HeaderError(e, t) ==
    IF \/ ~e.parses
       \/ e.source # Server
       \/ e.sequence # 0
       \/ e.maxTime = 0
      THEN "ChallengeMalformed"
    ELSE IF ~InTimebounds(e, t)
      THEN "ChallengeExpired"
    ELSE IF e.ops = <<>> \/ ~Head(e.ops).data \/ Head(e.ops).source = None
      THEN "ChallengeMalformed"
    ELSE IF Head(e.ops).name \notin HomeDomains
      THEN "UnknownHomeDomain"
    ELSE IF e.memo # None /\ Head(e.ops).source \in Muxed
      THEN "MemoWithMuxed"
    ELSE IF e.memo \notin Orelse(Memos) \/ Head(e.ops).value \notin Nonces
      THEN "ChallengeMalformed"
    ELSE "ok"

ReadHeader ==
    /\ at = 1 /\ result = "none"
    /\ IF HeaderError(env, time) = "ok"
         THEN /\ challenge' = [account |-> Head(env.ops).source,
                               home |-> Head(env.ops).name, memo |-> env.memo,
                               nonce |-> Head(env.ops).value,
                               domain |-> None, key |-> None]
              /\ at' = 2
              /\ UNCHANGED result
         ELSE result' = HeaderError(env, time) /\ UNCHANGED <<at, challenge>>
    /\ UNCHANGED <<env, origin, time, sawWebAuthDomain, sawClientDomain>>

\* A loop body that does not look for a second client_domain operation.
OpFault_duplicates(op, sawWeb, sawClient) ==
    \/ ~op.data \/ op.source = None
    \/ /\ op.name = "web_auth_domain"
       /\ sawWeb \/ op.source # Server \/ op.value # WebAuthDomain
    \/ /\ op.name = "client_domain"
       /\ op.source \notin Keys \/ op.source = Server \/ op.value = None
    \/ op.name \notin {"web_auth_domain", "client_domain"} /\ op.source # Server

\* The early returns of the loop's body.
OpFault(op, sawWeb, sawClient) ==
    \/ ~op.data \/ op.source = None
    \/ /\ op.name = "web_auth_domain"
       /\ sawWeb \/ op.source # Server \/ op.value # WebAuthDomain
    \/ /\ op.name = "client_domain"
       /\ sawClient \/ op.source \notin Keys \/ op.source = Server \/ op.value = None
    \/ op.name \notin {"web_auth_domain", "client_domain"} /\ op.source # Server

ReadOp ==
    /\ at \in 2..Len(env.ops) /\ result = "none"
    /\ LET op == env.ops[at]
       IN IF OpFault(op, sawWebAuthDomain, sawClientDomain)
            THEN /\ result' = "ChallengeMalformed"
                 /\ UNCHANGED <<at, sawWebAuthDomain, sawClientDomain, challenge>>
            ELSE /\ at' = at + 1
                 /\ sawWebAuthDomain' =
                      (sawWebAuthDomain \/ op.name = "web_auth_domain")
                 /\ sawClientDomain' =
                      (sawClientDomain \/ op.name = "client_domain")
                 /\ challenge' =
                      IF op.name = "client_domain"
                        THEN [challenge EXCEPT !.domain = op.value,
                                               !.key = op.source]
                        ELSE challenge
                 /\ UNCHANGED result
    /\ UNCHANGED <<env, origin, time>>

\* matchSigners with the server's key alone.
CheckServerSignature ==
    /\ at > 1 /\ at = Len(env.ops) + 1 /\ result = "none"
    /\ result' = IF Server \in ToSet(env.sigs) THEN "ok" ELSE "ChallengeMalformed"
    /\ UNCHANGED <<env, origin, time, at, sawWebAuthDomain, sawClientDomain,
                   challenge>>

Next == ReadHeader \/ ReadOp \/ CheckServerSignature

Spec == Init /\ [][Next]_vars
-----------------------------------------------------------------------------
Named(e, name) == {i \in 2..Len(e.ops) : e.ops[i].name = name}

\* What SEP-10 asks of a challenge, without an order of checks.
Acceptable(e, t) ==
    /\ e.parses /\ e.source = Server /\ e.sequence = 0 /\ e.maxTime # 0
    /\ InTimebounds(e, t)
    /\ Server \in ToSet(e.sigs)
    /\ e.ops # <<>>
    /\ \A i \in 1..Len(e.ops) : e.ops[i].data /\ e.ops[i].source # None
    /\ e.ops[1].name \in HomeDomains /\ e.ops[1].value \in Nonces
    /\ e.memo # None => e.memo \in Memos /\ e.ops[1].source \in Keys
    /\ \A i \in 2..Len(e.ops) :
         i \notin Named(e, "client_domain") => e.ops[i].source = Server
    /\ \A i \in Named(e, "web_auth_domain") : e.ops[i].value = WebAuthDomain
    /\ \A i \in Named(e, "client_domain") :
         e.ops[i].source \in Keys \ {Server} /\ e.ops[i].value # None
    /\ Cardinality(Named(e, "web_auth_domain")) <= 1
    /\ Cardinality(Named(e, "client_domain")) <= 1

\* The reader's sequence of early returns and its loop with two flags accept
\* exactly the envelopes SEP-10 allows, whatever the order and number of their
\* operations.
AcceptsExactlyTheRules ==
    result # "none" => (result = "ok" <=> Acceptable(env, time))

\* Issuer and reader fit together: reading what GET /auth built gives back the
\* account, home domain, memo, nonce, client domain and signing key that were
\* signed, and otherwise the refusal ReadError states, which is what AuthServer
\* takes POST /auth to do.
ReadsWhatWasSigned ==
    result # "none" /\ origin # None =>
        LET c == origin.challenge
        IN /\ result = ReadError(c, origin.sigs, time)
           /\ result = "ok" =>
                challenge = [account |-> c.account, home |-> c.home,
                             memo |-> c.memo, nonce |-> origin.nonce,
                             domain |-> c.domain, key |-> c.key]
=============================================================================
