----------------------------- MODULE AuthServer -----------------------------
(***************************************************************************)
(* The SEP-10 exchange as the handlers of internal/httpapi/auth_handler.go *)
(* run it: concurrent GET /auth and POST /auth requests to one or several  *)
(* server processes over one database, the cleanup goroutine of each that  *)
(* deletes expired challenges, clocks that differ between the processes, a *)
(* ledger whose accounts change their signers meanwhile, calls that fail   *)
(* with or without having taken effect, and processes that may crash.      *)
(*                                                                         *)
(* A request is one run of a handler.  It pauses wherever the code calls   *)
(* out of the process or reads the clock, so every interleaving of those   *)
(* points is a behaviour.  A process keeps no state between requests: a    *)
(* crash loses its requests in flight and nothing else.                    *)
(***************************************************************************)
EXTENDS ChallengeStore, ChallengeReader, SignerPolicy

CONSTANTS
    Processes,     \* the servers behind the load balancer
    Skew,          \* how far each one's clock is ahead of the slowest
    MaxSkew,       \* the most they differ
    Requests,      \* handler runs
    Host,          \* the process that serves each request
    Queries,       \* the GET /auth queries clients send
    SigLists,      \* the signature lists clients put on an envelope
    Published,     \* the keys a client domain's stellar.toml may name
    Ledgers,       \* the successive states of the network's accounts
    TokenLifetime, \* JWT_LIFETIME, in half seconds
    MaxClock       \* bound: the last instant of a behaviour

ASSUME ServerAssumption ==
    /\ Queries \subseteq Query
    /\ SigLists \subseteq Seq(Keys)
    /\ Published \in [ClientDomains -> SUBSET Keys]
    /\ Len(Ledgers) \in Nat \ {0}
    /\ \A v \in 1..Len(Ledgers) :
         /\ DOMAIN Ledgers[v] = Keys
         /\ \A k \in Keys : Ledgers[v][k] # None =>
              /\ Ledgers[v][k].med \in Nat
              /\ DOMAIN Ledgers[v][k].signers \subseteq Keys \cup HashSigners
    /\ TokenLifetime \in Nat \ {0}
    /\ MaxClock \in Nat
    /\ None \notin Requests

\* The clocks of the processes differ by no more than the reader's grace, so
\* that none of them takes another's challenge to be from the future.
ASSUME ClusterAssumption ==
    /\ MaxSkew \in Nat /\ MaxSkew <= Instant(ClockGrace)
    /\ Skew \in [Processes -> 0..MaxSkew]
    /\ Host \in [Requests -> Processes]

VARIABLES
    clock,     \* time, as the slowest clock shows it
    ledger,    \* index into Ledgers of the network's present state
    tx,        \* the transaction the server signed under each nonce
    held,      \* nonces whose challenge was returned to a client
    sweep,     \* the time each running cleanup captured, or None
    pc,        \* where each request is
    nonce,     \* the challenge it issues or was sent
    sigs,      \* the signatures on the envelope it was sent
    now,       \* the time it captured
    home,      \* home_domain of the row it consumed
    resp,      \* its answer
    token,     \* the claims of the token it answered with
    won,       \* history: its UPDATE took effect
    ver,       \* history: the ledger when it did
    judged     \* history: its signatures were compared with the account's

store == <<challenges, sessions>>
world == <<clock, ledger>>
locals == <<nonce, sigs, now, home>>
history == <<won, ver, judged>>
vars == <<store, world, tx, held, sweep, pc, locals, resp, token, history>>

PostErrors == {"BadRequest", "UnknownHomeDomain", "MemoWithMuxed",
               "ChallengeMalformed", "ChallengeExpired"}

Judgements == {"token"} \cup (Verdicts \ {"ok"})

Outcomes == IssueErrors \cup PostErrors \cup Judgements
            \cup {"challenge", "ChallengeUnknown", "ChallengeConsumed",
                  "ServiceUnavailable", "AccountLookupFailed"}

InFlight == {"record", "stamp", "update", "classify", "lookup", "session"}

TypeOK ==
    /\ StoreTypeOK
    /\ clock \in Nat
    /\ ledger \in 1..Len(Ledgers)
    /\ tx \in [Nonces -> Orelse(Challenge)]
    /\ held \subseteq Nonces
    /\ sweep \in [Processes -> Orelse(Nat)]
    /\ pc \in [Requests -> {"idle", "done", "lost"} \cup InFlight]
    /\ nonce \in [Requests -> Orelse(Nonces)]
    /\ sigs \in [Requests -> SigLists \cup {<<>>}]
    /\ now \in [Requests -> Nat]
    /\ home \in [Requests -> Orelse(HomeDomains)]
    /\ resp \in [Requests -> Outcomes \cup {"none"}]
    /\ token \in [Requests -> Orelse(Claims)]
    /\ won \in [Requests -> BOOLEAN]
    /\ ver \in [Requests -> Nat]
    /\ judged \in [Requests -> BOOLEAN]

Init ==
    /\ StoreInit
    /\ clock = 0
    /\ ledger = 1
    /\ tx = [n \in Nonces |-> None]
    /\ held = {}
    /\ sweep = [p \in Processes |-> None]
    /\ pc = [r \in Requests |-> "idle"]
    /\ nonce = [r \in Requests |-> None]
    /\ sigs = [r \in Requests |-> <<>>]
    /\ now = [r \in Requests |-> 0]
    /\ home = [r \in Requests |-> None]
    /\ resp = [r \in Requests |-> "none"]
    /\ token = [r \in Requests |-> None]
    /\ won = [r \in Requests |-> FALSE]
    /\ ver = [r \in Requests |-> 0]
    /\ judged = [r \in Requests |-> FALSE]

\* time.Now() in process p, and in the process that runs r.
TimeAt(p) == clock + Skew[p]
LocalTime(r) == TimeAt(Host[r])

Goto(r, label) == pc' = [pc EXCEPT ![r] = label] /\ UNCHANGED resp

\* Every way out of a handler: one answer, and the request is over.
Answer(r, outcome) ==
    /\ pc' = [pc EXCEPT ![r] = "done"]
    /\ resp' = [resp EXCEPT ![r] = outcome]

\* A faulty table, the one in docs/endpoints.md: a failed lookup is a 401.
StatusOf_lookup_is_refusal(outcome) ==
    CASE outcome \in {"challenge", "token"} -> 200
      [] outcome \in {"ChallengeUnknown", "ChallengeConsumed",
                      "ChallengeExpired", "SignatureUnrecognized",
                      "ThresholdNotMet", "ClientDomainUnverified",
                      "AccountLookupFailed"} -> 401
      [] outcome = "ServiceUnavailable" -> 503
      [] OTHER -> 500

\* sentinelStatus and the defaults of respondError and respondStoreError.
StatusOf(outcome) ==
    CASE outcome \in {"challenge", "token"} -> 200
      [] outcome \in {"BadRequest", "InvalidAccount", "MemoWithMuxed",
                      "UnknownHomeDomain", "ClientDomainRequired",
                      "ClientDomainRejected"} -> 400
      [] outcome \in {"ChallengeMalformed", "ChallengeUnknown",
                      "ChallengeConsumed", "ChallengeExpired",
                      "SignatureUnrecognized", "ThresholdNotMet",
                      "ClientDomainUnverified"} -> 401
      [] outcome \in {"AccountLookupFailed", "ServiceUnavailable"} -> 503
      [] OTHER -> 500
-----------------------------------------------------------------------------
(* GET /auth *)

\* The resolver's answers for a query: none is asked for without a domain.
Resolutions(q) ==
    IF q.domain = None THEN {None} ELSE Orelse(Published[q.domain])

GetRefuse(r) ==
    /\ pc[r] = "idle"
    /\ \E q \in Queries : \E key \in Resolutions(q) :
         /\ IssueError(q, key) # "ok"
         /\ Answer(r, IssueError(q, key))
    /\ UNCHANGED <<store, world, tx, held, sweep, locals, token, history>>

\* A faulty handler that returns the challenge before it is recorded.
GetIssue_unrecorded(r) ==
    /\ pc[r] = "idle"
    /\ \E q \in Queries : \E key \in Resolutions(q) : \E n \in Nonces :
         /\ tx[n] = None
         /\ IssueError(q, key) = "ok"
         /\ tx' = [tx EXCEPT ![n] = BuildChallenge(q, key, LocalTime(r))]
         /\ nonce' = [nonce EXCEPT ![r] = n]
         /\ held' = held \cup {n}
    /\ now' = [now EXCEPT ![r] = LocalTime(r)]
    /\ Goto(r, "record")
    /\ UNCHANGED <<store, world, sweep, sigs, home, token, history>>

\* Issue: a fresh nonce and a signed transaction, not yet recorded.  The bound
\* keeps every challenge's expiry inside the behaviour.
GetIssue(r) ==
    /\ pc[r] = "idle"
    /\ clock + MaxSkew + ChallengeTimeout < MaxClock
    /\ \E q \in Queries : \E key \in Resolutions(q) : \E n \in Nonces :
         /\ tx[n] = None
         /\ IssueError(q, key) = "ok"
         /\ tx' = [tx EXCEPT ![n] = BuildChallenge(q, key, LocalTime(r))]
         /\ nonce' = [nonce EXCEPT ![r] = n]
    /\ now' = [now EXCEPT ![r] = LocalTime(r)]
    /\ Goto(r, "record")
    /\ UNCHANGED <<store, world, held, sweep, sigs, home, token, history>>

Insert(r) ==
    LET n == nonce[r]
    IN  RecordChallenge(n, tx[n], now[r], ExpiresAt(tx[n]))

RecordOk(r) ==
    /\ pc[r] = "record"
    /\ Insert(r)
    /\ held' = held \cup {nonce[r]}
    /\ Answer(r, "challenge")
    /\ UNCHANGED <<world, tx, sweep, locals, token, history>>

\* The INSERT returned an error, after or without having committed.
RecordFails(r) ==
    /\ pc[r] = "record"
    /\ Insert(r) \/ UNCHANGED store
    /\ Answer(r, "ServiceUnavailable")
    /\ UNCHANGED <<world, tx, held, sweep, locals, token, history>>
-----------------------------------------------------------------------------
(* POST /auth *)

\* A body without a transaction, or an envelope this server never signed.
\* ReadChallenge reaches one of its refusals before anything is stored.
PostReject(r) ==
    /\ pc[r] = "idle"
    /\ \E outcome \in PostErrors : Answer(r, outcome)
    /\ UNCHANGED <<store, world, tx, held, sweep, locals, token, history>>

\* The client sends back a challenge it holds, with signatures of its choice.
PostRead(r) ==
    /\ pc[r] = "idle"
    /\ \E n \in held, s \in SigLists :
         /\ nonce' = [nonce EXCEPT ![r] = n]
         /\ sigs' = [sigs EXCEPT ![r] = s]
         /\ IF ReadError(tx[n], s, LocalTime(r)) = "ok"
              THEN Goto(r, "stamp")
              ELSE Answer(r, ReadError(tx[n], s, LocalTime(r)))
    /\ UNCHANGED <<store, world, tx, held, sweep, now, home, token, history>>

\* now := time.Now().UTC(), the $2 of the UPDATE and the token's iat.
Stamp(r) ==
    /\ pc[r] = "stamp"
    /\ now' = [now EXCEPT ![r] = LocalTime(r)]
    /\ Goto(r, "update")
    /\ UNCHANGED <<store, world, tx, held, sweep, nonce, sigs, home, token,
                   history>>

\* The UPDATE of r's ConsumeChallenge takes effect.
Spend(r) ==
    /\ MarkConsumed(nonce[r], now[r])
    /\ won' = [won EXCEPT ![r] = TRUE]
    /\ ver' = [ver EXCEPT ![r] = ledger]
    /\ UNCHANGED judged

\* The stored row must agree with the envelope the server signed.
RowAgrees(row, c) == row.account = c.account /\ row.domain = c.domain

ConsumeWins(r) ==
    /\ pc[r] = "update"
    /\ Spend(r)
    /\ home' = [home EXCEPT ![r] = challenges[nonce[r]].home]
    /\ IF RowAgrees(challenges[nonce[r]], tx[nonce[r]])
         THEN Goto(r, "lookup")
         ELSE Answer(r, "ChallengeMalformed")
    /\ UNCHANGED <<world, tx, held, sweep, nonce, sigs, now, token>>

ConsumeMisses(r) ==
    /\ pc[r] = "update"
    /\ ~Consumable(nonce[r], now[r])
    /\ Goto(r, "classify")
    /\ UNCHANGED <<store, world, tx, held, sweep, locals, token, history>>

\* The UPDATE returned an error, after or without having committed.
ConsumeErrs(r) ==
    /\ pc[r] = "update"
    /\ Spend(r) \/ UNCHANGED <<store, history>>
    /\ Answer(r, "ServiceUnavailable")
    /\ UNCHANGED <<world, tx, held, sweep, locals, token>>

Classify(r) ==
    /\ pc[r] = "classify"
    /\ Answer(r, classifyFailure(nonce[r], now[r]))
    /\ UNCHANGED <<store, world, tx, held, sweep, locals, token, history>>

ClassifyErrs(r) ==
    /\ pc[r] = "classify"
    /\ Answer(r, "ServiceUnavailable")
    /\ UNCHANGED <<store, world, tx, held, sweep, locals, token, history>>

\* Horizon's answer for the account below c's address.
AccountAt(v, c) == Ledgers[v][baseAccountID(c.account)]

\* VerifyClient: one Horizon lookup and the judgement on the signatures.
Lookup(r) ==
    /\ pc[r] = "lookup"
    /\ LET c == tx[nonce[r]]
           verdict == VerifyClient(c, sigs[r], AccountAt(ledger, c))
       IN IF verdict = "ok"
            THEN Goto(r, "session")
            ELSE Answer(r, verdict)
    /\ judged' = [judged EXCEPT ![r] = TRUE]
    /\ UNCHANGED <<store, world, tx, held, sweep, locals, token, won, ver>>

LookupFails(r) ==
    /\ pc[r] = "lookup"
    /\ Answer(r, "AccountLookupFailed")
    /\ UNCHANGED <<store, world, tx, held, sweep, locals, token, history>>

\* The claims of token.Issue; NumericDate cuts both times to whole seconds.
TokenFor(r) ==
    LET c == tx[nonce[r]]
    IN [account |-> c.account, memo |-> c.memo, domain |-> c.domain,
        jti |-> nonce[r], iat |-> Unix(now[r]),
        exp |-> Unix(now[r] + TokenLifetime)]

\* Parse at instant x, of a token this server signed: only its expiry decides.
ParseAccepts(claims, x) == x < Instant(claims.exp)

\* The session row; its home domain comes from the stored challenge.
SessionFor(r) ==
    LET c == tx[nonce[r]]
    IN [account |-> c.account, memo |-> c.memo, home |-> home[r],
        domain |-> c.domain, issuedAt |-> now[r],
        expiresAt |-> now[r] + TokenLifetime]

SessionOk(r) ==
    /\ pc[r] = "session"
    /\ RecordSession(nonce[r], SessionFor(r))
    /\ token' = [token EXCEPT ![r] = TokenFor(r)]
    /\ Answer(r, "token")
    /\ UNCHANGED <<world, tx, held, sweep, locals, history>>

\* A faulty handler that hands the token out although the INSERT failed.
SessionErrs_grants(r) ==
    /\ pc[r] = "session"
    /\ token' = [token EXCEPT ![r] = TokenFor(r)]
    /\ Answer(r, "token")
    /\ UNCHANGED <<store, world, tx, held, sweep, locals, history>>

\* A faulty handler that gives the challenge back for another try.
SessionErrs_releases(r) ==
    /\ pc[r] = "session"
    /\ challenges[nonce[r]] # None
    /\ challenges' = [challenges EXCEPT ![nonce[r]].consumedAt = None]
    /\ Answer(r, "ServiceUnavailable")
    /\ UNCHANGED <<sessions, world, tx, held, sweep, locals, token, history>>

\* The INSERT returned an error, after or without having committed.
SessionErrs(r) ==
    /\ pc[r] = "session"
    /\ RecordSession(nonce[r], SessionFor(r)) \/ UNCHANGED store
    /\ Answer(r, "ServiceUnavailable")
    /\ UNCHANGED <<world, tx, held, sweep, locals, token, history>>

\* Hashing the transaction or signing the token fails, or the handler panics
\* and recoverPanic answers for it: a 500, and nothing more is written.
Fault(r) ==
    /\ pc[r] \in InFlight
    /\ Answer(r, "InternalError")
    /\ UNCHANGED <<store, world, tx, held, sweep, locals, token, history>>
-----------------------------------------------------------------------------
(* The cleanup goroutine, the process and its surroundings *)

\* ticker.C fires and the loop captures time.Now() for the DELETE.
SweepTick(p) ==
    /\ sweep[p] = None
    /\ sweep' = [sweep EXCEPT ![p] = TimeAt(p)]
    /\ UNCHANGED <<store, world, tx, held, pc, locals, resp, token, history>>

SweepDelete(p) ==
    /\ sweep[p] # None
    /\ DeleteExpired(sweep[p])
    /\ sweep' = [sweep EXCEPT ![p] = None]
    /\ UNCHANGED <<world, tx, held, pc, locals, resp, token, history>>

\* A failed sweep is logged; the next tick retries.
SweepFails(p) ==
    /\ sweep[p] # None
    /\ sweep' = [sweep EXCEPT ![p] = None]
    /\ UNCHANGED <<store, world, tx, held, pc, locals, resp, token, history>>

\* A process dies and is restarted: its requests in flight get no answer.
Crash(p) ==
    /\ \/ sweep[p] # None
       \/ \E r \in Requests : Host[r] = p /\ pc[r] \in InFlight
    /\ sweep' = [sweep EXCEPT ![p] = None]
    /\ pc' = [r \in Requests |->
         IF Host[r] = p /\ pc[r] \in InFlight THEN "lost" ELSE pc[r]]
    /\ UNCHANGED <<store, world, tx, held, locals, resp, token, history>>

Tick ==
    /\ clock < MaxClock
    /\ clock' = clock + 1
    /\ UNCHANGED <<store, ledger, tx, held, sweep, pc, locals, resp, token,
                   history>>

LedgerClose ==
    /\ ledger < Len(Ledgers)
    /\ ledger' = ledger + 1
    /\ UNCHANGED <<store, clock, tx, held, sweep, pc, locals, resp, token,
                   history>>

Arrive(r) == GetRefuse(r) \/ GetIssue(r) \/ PostReject(r) \/ PostRead(r)

\* Whatever a request in flight may do next: a call returns, well or badly.
Proceed(r) ==
    \/ RecordOk(r) \/ RecordFails(r)
    \/ Stamp(r)
    \/ ConsumeWins(r) \/ ConsumeMisses(r) \/ ConsumeErrs(r)
    \/ Classify(r) \/ ClassifyErrs(r)
    \/ Lookup(r) \/ LookupFails(r)
    \/ SessionOk(r) \/ SessionErrs(r)
    \/ Fault(r)

\* What happens to a process beside its requests.
Background(p) == SweepTick(p) \/ SweepDelete(p) \/ SweepFails(p) \/ Crash(p)

Next ==
    \/ \E r \in Requests : Arrive(r) \/ Proceed(r)
    \/ \E p \in Processes : Background(p)
    \/ Tick \/ LedgerClose

Spec == Init /\ [][Next]_vars

\* Time passes, the ticker keeps firing, and a DELETE that is retried for ever
\* does not fail every time.  Nothing is assumed of the requests.
Fairness ==
    /\ WF_vars(Tick)
    /\ \A p \in Processes : WF_vars(SweepTick(p)) /\ SF_vars(SweepDelete(p))

FairSpec == Spec /\ Fairness
-----------------------------------------------------------------------------
(* What makes the exchange correct *)

\* "One challenge buys one attempt": of all the requests that ever present a
\* challenge, however they interleave, crash or meet a database error, at most
\* one ever has its signatures judged, and a judgement counts also when its
\* session was then not written or its request was lost.  Spending the nonce in
\* a single UPDATE before VerifyClient, and never giving it back, is what the
\* handler relies on for it.
OneVerdictPerChallenge ==
    \A r1, r2 \in Requests :
        judged[r1] /\ judged[r2] /\ nonce[r1] = nonce[r2] => r1 = r2

\* No token without its audit row: when POST /auth answers with a token, the
\* session on record under its jti is for the same account, memo, home and
\* client domain as the transaction the server signed, and Parse, to which times
\* come cut to seconds, accepts it up to the last second of that session and
\* never beyond.
TokenIsOnRecord ==
    \A r \in Requests : token[r] # None =>
        LET t == token[r]
            s == sessions[t.jti]
            c == tx[t.jti]
        IN /\ t.jti = nonce[r]
           /\ s # None
           /\ <<t.account, t.memo, t.domain>> = <<c.account, c.memo, c.domain>>
           /\ <<s.account, s.memo, s.domain>> = <<c.account, c.memo, c.domain>>
           /\ s.home = c.home
           /\ ParseAccepts(t, s.expiresAt - Instant(1))
           /\ ~ParseAccepts(t, s.expiresAt)

\* The signatures s authorise challenge c for the account: every one of them
\* is the server's, the client domain's or an account signer's, none is there
\* twice, the domain's is there when c names one, some account signer's is, and
\* the account signers' weights alone are not below the medium threshold.  An
\* account that does not exist has its master key, and that is enough.
Authorises(c, s, account) ==
    LET signers == IF account = None THEN {baseAccountID(c.account)}
                                     ELSE DOMAIN account.signers
        signed  == ToSet(s)
        voters  == (signed \cap Keys \cap signers) \ {Server, c.key}
    IN /\ Len(s) = Cardinality(signed)
       /\ signed = voters \cup {Server} \cup ({c.key} \ {None})
       /\ voters # {}
       /\ account # None => ~(TotalWeight(account.signers, voters) < account.med)

\* A token is given out only for signatures that authorise it under a state of
\* the ledger no older than the spending of the nonce: rotating a signer away
\* before the challenge is spent always shuts the old key out, and an outage of
\* Horizon or the database never turns into an accepted signature.
TokenIsAuthorised ==
    \A r \in Requests : token[r] # None =>
        \E v \in ver[r]..ledger :
            Authorises(tx[nonce[r]], sigs[r], AccountAt(v, tx[nonce[r]]))

\* A challenge is spent only at a time inside its signed bounds, whatever the
\* delay between the reader's check, the captured time and the UPDATE, and
\* whichever process made it.
SpentInWindow ==
    \A r \in Requests : won[r] =>
        /\ now[r] <= ExpiresAt(tx[nonce[r]])
        /\ InTimebounds(tx[nonce[r]], now[r])

\* Some process's clock is past the end of challenge n.
Over(n) == \E p \in Processes : TimeAt(p) > ExpiresAt(tx[n])

\* A refusal tells the client the truth although it takes two statements, with
\* the cleanup goroutines and other requests in between: "already used" means
\* another request did spend the challenge, and "expired" or "not recognised"
\* mean its time is over by the clock of some process, never that a live
\* challenge was lost, or that one process made it too far in the future for
\* another.
RefusalsAreTruthful ==
    \A r \in Requests : pc[r] = "done" /\ nonce[r] \in held =>
        /\ resp[r] = "ChallengeConsumed" =>
             \E other \in Requests \ {r} : won[other] /\ nonce[other] = nonce[r]
        /\ resp[r] \in {"ChallengeUnknown", "ChallengeExpired"} =>
             Over(nonce[r])

\* A refusal that blames the client is final.  When the request that is refused
\* with 400 or 401 is the one that spent the challenge, that is the verdict on
\* its signatures and there is no session; a call that took effect and still
\* failed, or a failure after the challenge was spent, is reported as the
\* server's, so the client knows that only a new challenge can tell.
RefusalsAreFinal ==
    \A r \in Requests : won[r] /\ StatusOf(resp[r]) \in {400, 401} =>
        /\ resp[r] \in {"SignatureUnrecognized", "ThresholdNotMet",
                        "ClientDomainUnverified"}
        /\ sessions[nonce[r]] = None

\* A challenge a client holds never comes back to life: its row, once consumed
\* or deleted, is not reset, inserted again or replaced, so no later request
\* can find it live.
NeverRevived ==
    [][\A n \in held :
        (challenges[n] = None \/ challenges[n].consumedAt # None)
          => challenges'[n] \in {None, challenges[n]}]_vars

\* The challenges table does not grow for ever: every row is deleted in the
\* end, also one whose sweep failed or was cut short by a crash.
RowsAreSwept ==
    \A n \in Nonces : challenges[n] # None ~> challenges[n] = None
-----------------------------------------------------------------------------
(* The exchange implements OneTimeAuth *)

SubjectOf(x) ==
    IF x = None THEN None
    ELSE [account |-> x.account, memo |-> x.memo, domain |-> x.domain]

Winner(n) ==
    IF \E r \in Requests : won[r] /\ nonce[r] = n
      THEN CHOOSE r \in Requests : won[r] /\ nonce[r] = n
      ELSE None

Abstract == INSTANCE OneTimeAuth WITH
    subject <- [n \in Nonces |-> SubjectOf(tx[n])],
    owner   <- [n \in Nonces |-> Winner(n)],
    granted <- [n \in Nonces |-> SubjectOf(sessions[n])],
    shown   <- [r \in Requests |-> SubjectOf(token[r])]

\* The handlers, the store and the cleanup together implement OneTimeAuth: one
\* spender per challenge, and a grant and a token only for the spender and for
\* the subject the challenge was signed for.
ImplementsOneTimeAuth == Abstract!Spec
-----------------------------------------------------------------------------
(* What the repository's own words claim and the code does not do *)

\* internal/store/postgres.go: a challenge is consumable up to and including
\* its MaxTime, "matching internal/auth/read.go": the store calls no challenge
\* expired that the reader takes to be inside its bounds at the same instant.
StoreMatchesReader ==
    \A r \in Requests :
        pc[r] = "classify"
          /\ classifyFailure(nonce[r], now[r]) = "ChallengeExpired"
        => ~InTimebounds(tx[nonce[r]], now[r])
=============================================================================
