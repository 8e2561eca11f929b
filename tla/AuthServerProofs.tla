-------------------------- MODULE AuthServerProofs --------------------------
(***************************************************************************)
(* Proofs about AuthServer for every set of requests, nonces, keys, every  *)
(* history of the ledger and every length of a behaviour.                  *)
(***************************************************************************)
EXTENDS AuthServer, FiniteSetTheorems, TLAPS

USE DEF Orelse

-----------------------------------------------------------------------------
(* The operators the model is built from *)

LEMMA UnixType == \A t \in Nat : Unix(t) \in Nat /\ Instant(t) \in Nat
  BY DEF Unix, Instant

\* What is left of a time that NumericDate cuts to whole seconds.
LEMMA NumericDate ==
    \A t \in Nat : t - Instant(1) < Instant(Unix(t)) /\ ~(t < Instant(Unix(t)))
  BY DEF Unix, Instant

LEMMA UnixMonotone ==
    \A s, t \in Nat : s <= t => Unix(s) \in Nat /\ Unix(t) \in Nat /\ Unix(s) <= Unix(t)
  BY DEF Unix

LEMMA ExpiresType == \A c \in Challenge : ExpiresAt(c) \in Nat
  BY UnixType DEF ExpiresAt, Challenge

LEMMA BaseType == \A a \in Addresses : baseAccountID(a) \in Keys
  BY IdentityAssumption DEF baseAccountID, Addresses

\* Issue refuses with one of its errors, or signs a well-formed challenge.
LEMMA IssueType ==
    ASSUME NEW q \in Query, NEW key \in Orelse(Keys), NEW t \in Nat
    PROVE  /\ IssueError(q, key) \in IssueErrors \cup {"ok"}
           /\ IssueError(q, key) = "ok" => BuildChallenge(q, key, t) \in Challenge
<1>1. IssueError(q, key) \in IssueErrors \cup {"ok"}
  BY DEF IssueError, IssueErrors
<1>2. ASSUME IssueError(q, key) = "ok"
      PROVE  BuildChallenge(q, key, t) \in Challenge
  <2>1. t + ChallengeTimeout \in Nat
    BY IssuerAssumption
  <2>2. Unix(t) \in Nat /\ Unix(t + ChallengeTimeout) \in Nat
    BY <2>1, UnixType
  <2>3. /\ q.account \in Addresses
        /\ q.memo \in Orelse(Memos)
        /\ q.home \in Orelse(HomeDomains)
        /\ q.domain \in Orelse(ClientDomains)
    BY <1>2 DEF IssueError, Query
  <2> QED
    BY <2>2, <2>3, IdentityAssumption DEF BuildChallenge, Challenge
<1> QED
  BY <1>1, <1>2

LEMMA ResolutionType ==
    \A q \in Queries : /\ q \in Query
                       /\ \A key \in Resolutions(q) : key \in Orelse(Keys)
<1> SUFFICES ASSUME NEW q \in Queries, NEW key \in Resolutions(q)
             PROVE  q \in Query /\ key \in Orelse(Keys)
  BY ServerAssumption
<1>1. q \in Query /\ q.domain \in Orelse(ClientDomains)
  BY ServerAssumption DEF Query
<1>2. CASE q.domain = None
  BY <1>1, <1>2 DEF Resolutions
<1>3. CASE q.domain # None
  BY <1>1, <1>3, ServerAssumption DEF Resolutions
<1> QED
  BY <1>2, <1>3

\* A time the store accepts is a time the reader accepts.
LEMMA WithinBounds ==
    ASSUME NEW c \in Challenge, NEW t \in Nat,
           t <= ExpiresAt(c), c.minTime <= Unix(t) + ClockGrace
    PROVE  InTimebounds(c, t)
<1>1. c.maxTime \in Nat /\ c.minTime \in Nat
  BY DEF Challenge
<1>2. Unix(t) \in Nat /\ Unix(t) <= c.maxTime
  BY <1>1 DEF ExpiresAt, Unix, Instant
<1> QED
  BY <1>1, <1>2, ReaderAssumption DEF InTimebounds

\* A challenge the reader calls expired is past the store's expiry too.
LEMMA PastBounds ==
    ASSUME NEW c \in Challenge, NEW t \in Nat, NEW s,
           c.minTime <= Unix(t) + ClockGrace,
           ReadError(c, s, t) = "ChallengeExpired"
    PROVE  t > ExpiresAt(c)
<1>1. c.maxTime \in Nat /\ c.minTime \in Nat /\ Unix(t) \in Nat
  BY UnixType DEF Challenge
<1>2. Unix(t) > c.maxTime
  BY <1>1, ReaderAssumption DEF ReadError, InTimebounds
<1> QED
  BY <1>1, <1>2 DEF ExpiresAt, Unix, Instant

\* The rows the two writing statements leave behind.
LEMMA InsertedRow ==
    ASSUME NEW c \in Challenge, NEW t \in Nat
    PROVE  [account |-> c.account, home |-> c.home, domain |-> c.domain,
            issuedAt |-> t, expiresAt |-> ExpiresAt(c), consumedAt |-> None]
              \in ChallengeRow
  BY ExpiresType DEF Challenge, ChallengeRow

LEMMA ConsumedRow ==
    ASSUME NEW row \in ChallengeRow, NEW t \in Nat
    PROVE  /\ [row EXCEPT !.consumedAt = t] \in ChallengeRow
           /\ [row EXCEPT !.consumedAt = t] # None
           /\ [row EXCEPT !.consumedAt = t].consumedAt # None
  BY NoneAssumption DEF ChallengeRow

LEMMA VerdictType ==
    \A c, s, a : VerifyClient(c, s, a) \in Verdicts
  BY DEF VerifyClient, verifySigners, Verdicts

\* The times the processes read, and what the grace makes up for.
LEMMA LocalTimes ==
    ASSUME clock \in Nat
    PROVE  /\ \A p \in Processes : TimeAt(p) \in Nat
           /\ Unix(clock + MaxSkew) \in Nat
           /\ \A r \in Requests :
                /\ Host[r] \in Processes
                /\ LocalTime(r) \in Nat
                /\ Unix(LocalTime(r)) \in Nat
                /\ Unix(LocalTime(r)) <= Unix(clock + MaxSkew)
                /\ Unix(clock + MaxSkew) <= Unix(LocalTime(r)) + ClockGrace
<1>1. \A p \in Processes : /\ TimeAt(p) \in Nat
                           /\ clock <= TimeAt(p)
                           /\ TimeAt(p) <= clock + MaxSkew
  BY ClusterAssumption DEF TimeAt
<1>2. ASSUME NEW t \in Nat, clock <= t
      PROVE  Unix(clock + MaxSkew) <= Unix(t) + ClockGrace
  <2>1. MaxSkew \in Nat /\ ClockGrace \in Nat /\ MaxSkew <= 2 * ClockGrace
    BY ClusterAssumption, ReaderAssumption DEF Instant
  <2>2. clock + MaxSkew <= t + 2 * ClockGrace
    BY <1>2, <2>1
  <2>3. (clock + MaxSkew) \div 2 <= (t \div 2) + ClockGrace
    BY <2>1, <2>2
  <2> QED
    BY <2>3 DEF Unix
<1>3. clock + MaxSkew \in Nat
  BY ClusterAssumption
<1> QED
  BY <1>1, <1>2, <1>3, ClusterAssumption, UnixType, UnixMonotone DEF LocalTime
-----------------------------------------------------------------------------
(* The inductive invariant *)

Presented == {"stamp", "update", "classify", "lookup", "session"}

\* A request in flight works on a transaction the server signed, clients hold
\* no other, and a request past the UPDATE has kept the row's home domain.
LinkInv ==
    /\ \A r \in Requests : pc[r] \in InFlight =>
         nonce[r] \in Nonces /\ tx[nonce[r]] # None
    /\ \A r \in Requests : pc[r] = "idle" => nonce[r] = None
    /\ \A n \in held : tx[n] # None
    /\ \A r \in Requests : pc[r] \in {"lookup", "session"} => home[r] # None

TypeInv == TypeOK /\ LinkInv

\* A challenge being recorded is this request's alone and nobody holds it.
RecordingInv ==
    /\ \A r \in Requests : pc[r] = "record" =>
         /\ nonce[r] \notin held
         /\ challenges[nonce[r]] = None
         /\ \A other \in Requests : nonce[other] = nonce[r] => other = r
    /\ \A n \in Nonces : tx[n] = None =>
         /\ challenges[n] = None
         /\ sessions[n] = None
         /\ n \notin held
         /\ \A r \in Requests : nonce[r] # n

\* The stored row is the one the signed transaction was recorded with.
RowInv ==
    \A n \in Nonces : challenges[n] # None =>
        /\ RowAgrees(challenges[n], tx[n])
        /\ challenges[n].home = tx[n].home
        /\ challenges[n].expiresAt = ExpiresAt(tx[n])

\* A request past the reader, or past the UPDATE, presented a held challenge,
\* and the UPDATE's effect is visible for as long as the row is.
SpenderInv ==
    /\ \A r \in Requests : pc[r] \in Presented => nonce[r] \in held
    /\ \A r \in Requests : won[r] =>
         /\ nonce[r] \in held
         /\ pc[r] \notin {"idle", "record", "stamp", "update", "classify"}
         /\ \/ challenges[nonce[r]] = None
            \/ challenges[nonce[r]].consumedAt # None
    /\ \A n \in Nonces :
         challenges[n] # None /\ challenges[n].consumedAt # None =>
           \E r \in Requests : won[r] /\ nonce[r] = n

\* One spender per challenge; what only the spender reaches.
OneSpenderInv ==
    /\ \A r1, r2 \in Requests :
         won[r1] /\ won[r2] /\ nonce[r1] = nonce[r2] => r1 = r2
    /\ \A r \in Requests : pc[r] \in {"lookup", "session"} => won[r]
    /\ \A r \in Requests : resp[r] \in Judgements => won[r]
    /\ \A r \in Requests : resp[r] # "none" => pc[r] = "done"
    /\ \A r \in Requests : token[r] # None => won[r] /\ pc[r] = "done"
    /\ \A n \in Nonces : sessions[n] # None =>
         \E r \in Requests : won[r] /\ nonce[r] = n /\ pc[r] = "done"

\* The home domain kept from the row is the signed one.
HomeInv ==
    \A r \in Requests : pc[r] \in {"lookup", "session"} =>
        home[r] = tx[nonce[r]].home

\* The times of requests, sweeps and transactions are times that have been, by
\* the clock of the process that read them.
TimeInv ==
    /\ \A p \in Processes : sweep[p] # None => sweep[p] <= TimeAt(p)
    /\ \A r \in Requests : now[r] <= LocalTime(r)
    /\ \A n \in Nonces : tx[n] # None => tx[n].minTime <= Unix(clock + MaxSkew)
    /\ \A r \in Requests : pc[r] \in {"update", "classify", "lookup", "session"}
         => tx[nonce[r]].minTime <= Unix(now[r]) + ClockGrace

\* A held challenge without a row, or one the UPDATE did not match, is over.
GoneInv ==
    /\ \A n \in held : challenges[n] = None => Over(n)
    /\ \A r \in Requests : pc[r] = "classify" => ~Consumable(nonce[r], now[r])

IInv ==
    /\ TypeInv
    /\ RecordingInv
    /\ RowInv
    /\ SpenderInv
    /\ OneSpenderInv
    /\ HomeInv
    /\ TokenIsOnRecord
    /\ TimeInv
    /\ SpentInWindow
    /\ GoneInv
    /\ RefusalsAreTruthful
-----------------------------------------------------------------------------
(* Type correctness *)

LEMMA TypeInit == Init => TypeInv
  BY ServerAssumption
     DEF Init, TypeInv, TypeOK, LinkInv, StoreInit, StoreTypeOK, InFlight

\* The row and the claims of a request about to record its session.
LEMMA SessionType ==
    ASSUME TypeInv, NEW r \in Requests, pc[r] = "session"
    PROVE  /\ nonce[r] \in Nonces
           /\ SessionFor(r) \in SessionRow
           /\ TokenFor(r) \in Claims
<1> USE DEF TypeInv, TypeOK, LinkInv, InFlight
<1>1. nonce[r] \in Nonces /\ tx[nonce[r]] \in Challenge
        /\ home[r] \in HomeDomains
  OBVIOUS
<1>2. now[r] \in Nat /\ now[r] + TokenLifetime \in Nat
  BY ServerAssumption
<1>3. Unix(now[r]) \in Nat /\ Unix(now[r] + TokenLifetime) \in Nat
  BY <1>2, UnixType
<1> QED
  BY <1>1, <1>2, <1>3
     DEF SessionFor, TokenFor, Challenge, SessionRow, Claims

LEMMA TypeNext == TypeInv /\ [Next]_vars => TypeInv'
<1> SUFFICES ASSUME TypeInv, [Next]_vars PROVE TypeInv'
  OBVIOUS
<1> USE DEF TypeInv, TypeOK, LinkInv, StoreTypeOK, Goto, Answer, store, world,
            locals, history, InFlight
<1>1. ASSUME NEW r \in Requests, GetRefuse(r) PROVE TypeInv'
  <2>0. PICK q \in Queries : \E key \in Resolutions(q) :
               IssueError(q, key) # "ok" /\ Answer(r, IssueError(q, key))
    BY <1>1 DEF GetRefuse
  <2>1. PICK key \in Resolutions(q) :
               IssueError(q, key) # "ok" /\ Answer(r, IssueError(q, key))
    BY <2>0
  <2>2. q \in Query /\ key \in Orelse(Keys)
    BY ResolutionType
  <2>3. IssueError(q, key) \in Outcomes
    BY <2>1, <2>2, IssueType DEF Outcomes
  <2> QED
    BY <1>1, <2>1, <2>3 DEF GetRefuse
<1>2. ASSUME NEW r \in Requests, GetIssue(r) PROVE TypeInv'
  <2>0. PICK q \in Queries :
             \E key \in Resolutions(q) : \E n \in Nonces :
               /\ tx[n] = None
               /\ IssueError(q, key) = "ok"
               /\ tx' = [tx EXCEPT ![n] = BuildChallenge(q, key, LocalTime(r))]
               /\ nonce' = [nonce EXCEPT ![r] = n]
    BY <1>2, Zenon DEF GetIssue
  <2>1. PICK key \in Resolutions(q), n \in Nonces :
               /\ tx[n] = None
               /\ IssueError(q, key) = "ok"
               /\ tx' = [tx EXCEPT ![n] = BuildChallenge(q, key, LocalTime(r))]
               /\ nonce' = [nonce EXCEPT ![r] = n]
    BY <2>0, Zenon
  <2>2. q \in Query /\ key \in Orelse(Keys)
    BY ResolutionType
  <2>3. LocalTime(r) \in Nat /\ BuildChallenge(q, key, LocalTime(r)) \in Challenge
    BY <2>1, <2>2, IssueType, LocalTimes
  <2>4. TypeOK'
    BY <1>2, <2>1, <2>3 DEF GetIssue
  <2>5. LinkInv'
    BY <1>2, <2>1, <2>3, NoneAssumption DEF GetIssue
  <2> QED
    BY <2>4, <2>5
<1>3. ASSUME NEW r \in Requests, RecordOk(r) \/ RecordFails(r) PROVE TypeInv'
  <2>1. nonce[r] \in Nonces /\ tx[nonce[r]] \in Challenge
    BY <1>3 DEF RecordOk, RecordFails
  <2>2. ASSUME Insert(r) PROVE StoreTypeOK'
    BY <2>1, <2>2, InsertedRow DEF Insert, RecordChallenge
  <2>3. StoreTypeOK'
    BY <1>3, <2>2 DEF RecordOk, RecordFails
  <2> QED
    BY <1>3, <2>1, <2>3 DEF RecordOk, RecordFails, Outcomes
<1>4. ASSUME NEW r \in Requests, PostReject(r) PROVE TypeInv'
  BY <1>4 DEF PostReject, Outcomes
<1>5. ASSUME NEW r \in Requests, PostRead(r) PROVE TypeInv'
  <2>1. PICK n \in held, s \in SigLists :
               /\ nonce' = [nonce EXCEPT ![r] = n]
               /\ sigs' = [sigs EXCEPT ![r] = s]
               /\ IF ReadError(tx[n], s, LocalTime(r)) = "ok"
                    THEN Goto(r, "stamp")
                    ELSE Answer(r, ReadError(tx[n], s, LocalTime(r)))
    BY <1>5, Zenon DEF PostRead
  <2>2. ReadError(tx[n], s, LocalTime(r)) \in Outcomes \cup {"ok"}
    BY DEF ReadError, Outcomes, PostErrors
  <2>3. TypeOK'
    <3>1. /\ nonce' \in [Requests -> Orelse(Nonces)]
          /\ sigs' \in [Requests -> SigLists \cup {<<>>}]
      BY <2>1
    <3>2. /\ pc' \in [Requests -> {"idle", "done", "lost"} \cup InFlight]
          /\ resp' \in [Requests -> Outcomes \cup {"none"}]
      <4>1. CASE ReadError(tx[n], s, LocalTime(r)) = "ok"
        BY <2>1, <4>1 DEF Goto
      <4>2. CASE ReadError(tx[n], s, LocalTime(r)) # "ok"
        <5>1. PICK e \in Outcomes : Answer(r, e)
          BY <2>1, <2>2, <4>2, Zenon
        <5> QED
          BY <5>1 DEF Answer
      <4> QED
        BY <4>1, <4>2
    <3> QED
      BY <1>5, <3>1, <3>2 DEF PostRead
  <2>4. LinkInv'
    BY <1>5, <2>1 DEF PostRead
  <2> QED
    BY <2>3, <2>4
<1>6. ASSUME NEW r \in Requests, Stamp(r) PROVE TypeInv'
  BY <1>6, LocalTimes DEF Stamp
<1>7. ASSUME NEW r \in Requests, Spend(r), nonce[r] \in Nonces
      PROVE  /\ StoreTypeOK'
             /\ won' \in [Requests -> BOOLEAN] /\ ver' \in [Requests -> Nat]
             /\ judged' \in [Requests -> BOOLEAN]
             /\ challenges[nonce[r]] \in ChallengeRow
  <2>1. challenges[nonce[r]] \in ChallengeRow
    BY <1>7 DEF Spend, MarkConsumed, Consumable
  <2>2. [challenges[nonce[r]] EXCEPT !.consumedAt = now[r]] \in ChallengeRow
    BY <2>1, ConsumedRow
  <2> QED
    BY <1>7, <2>1, <2>2 DEF Spend, MarkConsumed
<1>8. ASSUME NEW r \in Requests, ConsumeWins(r) PROVE TypeInv'
  <2>1. nonce[r] \in Nonces /\ tx[nonce[r]] # None /\ Spend(r)
    BY <1>8 DEF ConsumeWins
  <2>2. challenges[nonce[r]].home \in HomeDomains
    BY <1>7, <2>1 DEF ChallengeRow
  <2>3. TypeOK'
    BY <1>7, <1>8, <2>1, <2>2 DEF ConsumeWins, Outcomes, PostErrors
  <2>4. LinkInv'
    BY <1>8, <2>1, <2>2, NoneAssumption DEF ConsumeWins
  <2> QED
    BY <2>3, <2>4
<1>9. ASSUME NEW r \in Requests, ConsumeMisses(r) PROVE TypeInv'
  BY <1>9 DEF ConsumeMisses
<1>10. ASSUME NEW r \in Requests, ConsumeErrs(r) PROVE TypeInv'
  <2>1. /\ StoreTypeOK'
        /\ won' \in [Requests -> BOOLEAN] /\ ver' \in [Requests -> Nat]
        /\ judged' \in [Requests -> BOOLEAN]
    <3>1. CASE Spend(r)
      BY <1>7, <1>10, <3>1 DEF ConsumeErrs
    <3>2. CASE UNCHANGED <<store, history>>
      BY <3>2
    <3> QED
      BY <1>10, <3>1, <3>2 DEF ConsumeErrs
  <2> QED
    BY <1>10, <2>1 DEF ConsumeErrs, Outcomes
<1>11. ASSUME NEW r \in Requests, Classify(r) \/ ClassifyErrs(r)
       PROVE  TypeInv'
  BY <1>11 DEF Classify, ClassifyErrs, classifyFailure, Outcomes, PostErrors
<1>12. ASSUME NEW r \in Requests, Lookup(r) PROVE TypeInv'
  <2> DEFINE verdict == VerifyClient(tx[nonce[r]], sigs[r],
                                     AccountAt(ledger, tx[nonce[r]]))
  <2>1. verdict \in Verdicts
    BY VerdictType
  <2>2. verdict # "ok" => verdict \in Outcomes
    BY <2>1 DEF Outcomes, Judgements
  <2> HIDE DEF verdict
  <2>3. IF verdict = "ok" THEN Goto(r, "session") ELSE Answer(r, verdict)
    BY <1>12 DEF Lookup, verdict
  <2>4. /\ pc' \in [Requests -> {"idle", "done", "lost"} \cup InFlight]
        /\ resp' \in [Requests -> Outcomes \cup {"none"}]
        /\ \A q \in Requests : /\ pc'[q] = "idle" => pc[q] = "idle"
                               /\ pc'[q] \in InFlight => pc[q] \in InFlight
                               /\ pc'[q] \in {"lookup", "session"} =>
                                    pc[q] \in {"lookup", "session"}
    BY <1>12, <2>2, <2>3 DEF Lookup
  <2>5. judged' \in [Requests -> BOOLEAN]
    BY <1>12 DEF Lookup
  <2> QED
    BY <1>12, <2>4, <2>5 DEF Lookup
<1>13. ASSUME NEW r \in Requests, LookupFails(r) PROVE TypeInv'
  BY <1>13 DEF LookupFails, Outcomes
<1>15. ASSUME NEW r \in Requests, SessionOk(r) PROVE TypeInv'
  <2>1. SessionFor(r) \in SessionRow /\ TokenFor(r) \in Claims
    BY <1>15, SessionType DEF SessionOk
  <2>2. StoreTypeOK'
    BY <1>15, <2>1 DEF SessionOk, RecordSession
  <2>3. TypeOK'
    <3>1. token' \in [Requests -> Orelse(Claims)]
      BY <1>15, <2>1 DEF SessionOk
    <3>2. resp' \in [Requests -> Outcomes \cup {"none"}]
      BY <1>15 DEF SessionOk, Outcomes, Judgements
    <3> QED
      BY <1>15, <2>2, <3>1, <3>2 DEF SessionOk
  <2>4. LinkInv'
    BY <1>15 DEF SessionOk
  <2> QED
    BY <2>3, <2>4
<1>16. ASSUME NEW r \in Requests, SessionErrs(r) PROVE TypeInv'
  <2>1. SessionFor(r) \in SessionRow
    BY <1>16, SessionType DEF SessionErrs
  <2>2. StoreTypeOK'
    BY <1>16, <2>1 DEF SessionErrs, RecordSession
  <2>3. LinkInv'
    BY <1>16 DEF SessionErrs
  <2> QED
    BY <1>16, <2>2, <2>3 DEF SessionErrs, Outcomes
<1>14. ASSUME NEW r \in Requests, Fault(r) PROVE TypeInv'
  BY <1>14 DEF Fault, Outcomes, IssueErrors
<1>17. ASSUME NEW p \in Processes, SweepTick(p) \/ SweepFails(p) PROVE TypeInv'
  BY <1>17, LocalTimes DEF SweepTick, SweepFails
<1>18. ASSUME NEW p \in Processes, SweepDelete(p) PROVE TypeInv'
  BY <1>18 DEF SweepDelete, DeleteExpired
<1>19. ASSUME NEW p \in Processes, Crash(p) PROVE TypeInv'
  BY <1>19 DEF Crash
<1>20. CASE Tick \/ LedgerClose
  BY <1>20, ServerAssumption DEF Tick, LedgerClose
<1>21. CASE UNCHANGED vars
  BY <1>21 DEF vars
<1> QED
  BY <1>1, <1>2, <1>3, <1>4, <1>5, <1>6, <1>8, <1>9, <1>10, <1>11, <1>12,
     <1>13, <1>14, <1>15, <1>16, <1>17, <1>18, <1>19, <1>20, <1>21
     DEF Next, Arrive, Proceed, Background

\* The tables, the requests' locals and their answers always have their types:
\* no handler ever writes a row, a session or a token from a missing value.
THEOREM TypeCorrect == Spec => []TypeOK
<1>1. Spec => []TypeInv
  BY TypeInit, TypeNext, PTL DEF Spec
<1> QED
  BY <1>1, PTL DEF TypeInv

-----------------------------------------------------------------------------
(* One step preserves each part of the invariant *)

\* A fresh nonce is unused, and recording it is the last step of its request.
LEMMA RecordingInvNext == IInv /\ TypeInv' /\ [Next]_vars => RecordingInv'
<1> SUFFICES ASSUME IInv, TypeInv', [Next]_vars PROVE RecordingInv'
  OBVIOUS
<1> USE DEF IInv, TypeInv, TypeOK, LinkInv, StoreTypeOK, Goto, Answer, store,
            world, locals, history, InFlight, Presented,
            RecordingInv
<1>1. ASSUME NEW r \in Requests, GetRefuse(r) PROVE RecordingInv'
  BY <1>1 DEF GetRefuse
<1>2. ASSUME NEW r \in Requests, GetIssue(r) PROVE RecordingInv'
  BY <1>2 DEF GetIssue
<1>3. ASSUME NEW r \in Requests, RecordOk(r) PROVE RecordingInv'
  BY <1>3 DEF RecordOk, Insert, RecordChallenge
<1>4. ASSUME NEW r \in Requests, RecordFails(r) PROVE RecordingInv'
  BY <1>4 DEF RecordFails, Insert, RecordChallenge
<1>5. ASSUME NEW r \in Requests, PostReject(r) PROVE RecordingInv'
  BY <1>5 DEF PostReject
<1>6. ASSUME NEW r \in Requests, PostRead(r) PROVE RecordingInv'
  BY <1>6 DEF PostRead, ReadError
<1>7. ASSUME NEW r \in Requests, Stamp(r) PROVE RecordingInv'
  BY <1>7 DEF Stamp
<1>8. ASSUME NEW r \in Requests, ConsumeWins(r) PROVE RecordingInv'
  BY <1>8 DEF ConsumeWins, Spend, MarkConsumed, Consumable
<1>9. ASSUME NEW r \in Requests, ConsumeMisses(r) PROVE RecordingInv'
  BY <1>9 DEF ConsumeMisses
<1>10. ASSUME NEW r \in Requests, ConsumeErrs(r) PROVE RecordingInv'
  BY <1>10 DEF ConsumeErrs, Spend, MarkConsumed, Consumable
<1>11. ASSUME NEW r \in Requests, Classify(r) PROVE RecordingInv'
  BY <1>11 DEF Classify, classifyFailure
<1>12. ASSUME NEW r \in Requests, ClassifyErrs(r) PROVE RecordingInv'
  BY <1>12 DEF ClassifyErrs
<1>13. ASSUME NEW r \in Requests, Lookup(r) PROVE RecordingInv'
  BY <1>13 DEF Lookup
<1>14. ASSUME NEW r \in Requests, LookupFails(r) PROVE RecordingInv'
  BY <1>14 DEF LookupFails
<1>15. ASSUME NEW r \in Requests, SessionOk(r) PROVE RecordingInv'
  BY <1>15 DEF SessionOk, RecordSession
<1>16. ASSUME NEW r \in Requests, SessionErrs(r) PROVE RecordingInv'
  BY <1>16 DEF SessionErrs, RecordSession
<1>17. ASSUME NEW r \in Requests, Fault(r) PROVE RecordingInv'
  BY <1>17 DEF Fault
<1>22. ASSUME NEW p \in Processes, Background(p) PROVE RecordingInv'
  <2>1. CASE SweepTick(p) \/ SweepFails(p)
    BY <2>1 DEF SweepTick, SweepFails
  <2>2. CASE SweepDelete(p)
    BY <2>2 DEF SweepDelete, DeleteExpired
  <2>3. CASE Crash(p)
    BY <2>3 DEF Crash
  <2> QED
    BY <1>22, <2>1, <2>2, <2>3 DEF Background
<1>23. CASE Tick \/ LedgerClose \/ UNCHANGED vars
  BY <1>23 DEF Tick, LedgerClose, vars
<1> QED
  BY <1>1, <1>2, <1>3, <1>4, <1>5, <1>6, <1>7, <1>8, <1>9, <1>10, <1>11,
     <1>12, <1>13, <1>14, <1>15, <1>16, <1>17, <1>22, <1>23
     DEF Next, Arrive, Proceed

\* Rows are inserted from the signed transaction and keep what they got from it.
LEMMA RowInvNext == IInv /\ TypeInv' /\ [Next]_vars => RowInv'
<1> SUFFICES ASSUME IInv, TypeInv', [Next]_vars PROVE RowInv'
  OBVIOUS
<1> USE DEF IInv, TypeInv, TypeOK, LinkInv, StoreTypeOK, Goto, Answer, store,
            world, locals, history, InFlight, Presented,
            RecordingInv, RowInv, RowAgrees
<1>1. ASSUME NEW r \in Requests, GetRefuse(r) PROVE RowInv'
  BY <1>1 DEF GetRefuse
<1>2. ASSUME NEW r \in Requests, GetIssue(r) PROVE RowInv'
  BY <1>2 DEF GetIssue
<1>3. ASSUME NEW r \in Requests, RecordOk(r) PROVE RowInv'
  BY <1>3 DEF RecordOk, Insert, RecordChallenge
<1>4. ASSUME NEW r \in Requests, RecordFails(r) PROVE RowInv'
  BY <1>4 DEF RecordFails, Insert, RecordChallenge
<1>5. ASSUME NEW r \in Requests, PostReject(r) PROVE RowInv'
  BY <1>5 DEF PostReject
<1>6. ASSUME NEW r \in Requests, PostRead(r) PROVE RowInv'
  BY <1>6 DEF PostRead, ReadError
<1>7. ASSUME NEW r \in Requests, Stamp(r) PROVE RowInv'
  BY <1>7 DEF Stamp
<1>8. ASSUME NEW r \in Requests, ConsumeWins(r) PROVE RowInv'
  BY <1>8 DEF ConsumeWins, Spend, MarkConsumed, Consumable
<1>9. ASSUME NEW r \in Requests, ConsumeMisses(r) PROVE RowInv'
  BY <1>9 DEF ConsumeMisses
<1>10. ASSUME NEW r \in Requests, ConsumeErrs(r) PROVE RowInv'
  <2>1. CASE Spend(r)
    BY <1>10, <2>1, NoneAssumption DEF ConsumeErrs, Spend, MarkConsumed, Consumable
  <2>2. CASE UNCHANGED store
    BY <1>10, <2>2 DEF ConsumeErrs
  <2> QED
    BY <1>10, <2>1, <2>2 DEF ConsumeErrs
<1>11. ASSUME NEW r \in Requests, Classify(r) PROVE RowInv'
  BY <1>11 DEF Classify, classifyFailure
<1>12. ASSUME NEW r \in Requests, ClassifyErrs(r) PROVE RowInv'
  BY <1>12 DEF ClassifyErrs
<1>13. ASSUME NEW r \in Requests, Lookup(r) PROVE RowInv'
  BY <1>13 DEF Lookup
<1>14. ASSUME NEW r \in Requests, LookupFails(r) PROVE RowInv'
  BY <1>14 DEF LookupFails
<1>15. ASSUME NEW r \in Requests, SessionOk(r) PROVE RowInv'
  BY <1>15 DEF SessionOk, RecordSession
<1>16. ASSUME NEW r \in Requests, SessionErrs(r) PROVE RowInv'
  BY <1>16 DEF SessionErrs, RecordSession
<1>17. ASSUME NEW r \in Requests, Fault(r) PROVE RowInv'
  BY <1>17 DEF Fault
<1>23. CASE \/ \E p \in Processes : Background(p)
            \/ Tick \/ LedgerClose \/ UNCHANGED vars
  BY <1>23
     DEF Background, SweepTick, SweepDelete, DeleteExpired, Sweepable,
         SweepFails, Crash, Tick, LedgerClose, vars
<1> QED
  BY <1>1, <1>2, <1>3, <1>4, <1>5, <1>6, <1>7, <1>8, <1>9, <1>10, <1>11,
     <1>12, <1>13, <1>14, <1>15, <1>16, <1>17, <1>23
     DEF Next, Arrive, Proceed

\* Spending marks the row, and no statement takes the mark away.
LEMMA SpenderInvNext == IInv /\ TypeInv' /\ [Next]_vars => SpenderInv'
<1> SUFFICES ASSUME IInv, TypeInv', [Next]_vars PROVE SpenderInv'
  OBVIOUS
<1> USE DEF IInv, TypeInv, TypeOK, LinkInv, StoreTypeOK, Goto, Answer, store,
            world, locals, history, InFlight, Presented,
            RecordingInv, SpenderInv
<1>1. ASSUME NEW r \in Requests, GetRefuse(r) PROVE SpenderInv'
  BY <1>1 DEF GetRefuse
<1>2. ASSUME NEW r \in Requests, GetIssue(r) PROVE SpenderInv'
  BY <1>2 DEF GetIssue
<1>3. ASSUME NEW r \in Requests, RecordOk(r) PROVE SpenderInv'
  BY <1>3 DEF RecordOk, Insert, RecordChallenge
<1>4. ASSUME NEW r \in Requests, RecordFails(r) PROVE SpenderInv'
  <2>1. CASE Insert(r)
    BY <1>4, <2>1 DEF RecordFails, Insert, RecordChallenge
  <2>2. CASE UNCHANGED store
    BY <1>4, <2>2 DEF RecordFails
  <2> QED
    BY <1>4, <2>1, <2>2 DEF RecordFails
<1>5. ASSUME NEW r \in Requests, PostReject(r) PROVE SpenderInv'
  BY <1>5 DEF PostReject
<1>6. ASSUME NEW r \in Requests, PostRead(r) PROVE SpenderInv'
  BY <1>6 DEF PostRead, ReadError
<1>7. ASSUME NEW r \in Requests, Stamp(r) PROVE SpenderInv'
  BY <1>7 DEF Stamp
<1>8. ASSUME NEW r \in Requests, ConsumeWins(r) PROVE SpenderInv'
  BY <1>8, NoneAssumption DEF ConsumeWins, Spend, MarkConsumed, Consumable
<1>9. ASSUME NEW r \in Requests, ConsumeMisses(r) PROVE SpenderInv'
  BY <1>9 DEF ConsumeMisses
<1>10. ASSUME NEW r \in Requests, ConsumeErrs(r) PROVE SpenderInv'
  <2>1. CASE Spend(r)
    BY <1>10, <2>1, NoneAssumption DEF ConsumeErrs, Spend, MarkConsumed, Consumable
  <2>2. CASE UNCHANGED <<store, history>>
    BY <1>10, <2>2 DEF ConsumeErrs
  <2> QED
    BY <1>10, <2>1, <2>2 DEF ConsumeErrs
<1>11. ASSUME NEW r \in Requests, Classify(r) PROVE SpenderInv'
  BY <1>11 DEF Classify, classifyFailure
<1>12. ASSUME NEW r \in Requests, ClassifyErrs(r) PROVE SpenderInv'
  BY <1>12 DEF ClassifyErrs
<1>13. ASSUME NEW r \in Requests, Lookup(r) PROVE SpenderInv'
  BY <1>13 DEF Lookup
<1>14. ASSUME NEW r \in Requests, LookupFails(r) PROVE SpenderInv'
  BY <1>14 DEF LookupFails
<1>15. ASSUME NEW r \in Requests, SessionOk(r) PROVE SpenderInv'
  BY <1>15 DEF SessionOk, RecordSession
<1>16. ASSUME NEW r \in Requests, SessionErrs(r) PROVE SpenderInv'
  BY <1>16 DEF SessionErrs, RecordSession
<1>17. ASSUME NEW r \in Requests, Fault(r) PROVE SpenderInv'
  BY <1>17 DEF Fault
<1>23. CASE \/ \E p \in Processes : Background(p)
            \/ Tick \/ LedgerClose \/ UNCHANGED vars
  BY <1>23
     DEF Background, SweepTick, SweepDelete, DeleteExpired, Sweepable,
         SweepFails, Crash, Tick, LedgerClose, vars
<1> QED
  BY <1>1, <1>2, <1>3, <1>4, <1>5, <1>6, <1>7, <1>8, <1>9, <1>10, <1>11,
     <1>12, <1>13, <1>14, <1>15, <1>16, <1>17, <1>23
     DEF Next, Arrive, Proceed

\* A second UPDATE finds the mark of the first, or no row at all.
LEMMA OneSpenderInvNext == IInv /\ TypeInv' /\ [Next]_vars => OneSpenderInv'
<1> SUFFICES ASSUME IInv, TypeInv', [Next]_vars PROVE OneSpenderInv'
  OBVIOUS
<1> USE DEF IInv, TypeInv, TypeOK, LinkInv, StoreTypeOK, Goto, Answer, store,
            world, locals, history, InFlight, Presented,
            RecordingInv, SpenderInv, OneSpenderInv, Judgements,
            Verdicts, PostErrors
<1>1. ASSUME NEW r \in Requests, GetRefuse(r) PROVE OneSpenderInv'
  <2>1. PICK q \in Queries : \E key \in Resolutions(q) :
               IssueError(q, key) # "ok" /\ Answer(r, IssueError(q, key))
    BY <1>1, Zenon DEF GetRefuse
  <2>2. PICK key \in Resolutions(q) :
               IssueError(q, key) # "ok" /\ Answer(r, IssueError(q, key))
    BY <2>1, Zenon
  <2>3. IssueError(q, key) \in IssueErrors
    BY <2>2, ResolutionType, IssueType
  <2>4. PICK e \in IssueErrors : Answer(r, e)
    BY <2>2, <2>3, Zenon
  <2> QED
    BY <1>1, <2>4 DEF GetRefuse, IssueErrors
<1>2. ASSUME NEW r \in Requests, GetIssue(r) PROVE OneSpenderInv'
  BY <1>2 DEF GetIssue
<1>3. ASSUME NEW r \in Requests, RecordOk(r) PROVE OneSpenderInv'
  BY <1>3 DEF RecordOk, Insert, RecordChallenge
<1>4. ASSUME NEW r \in Requests, RecordFails(r) PROVE OneSpenderInv'
  BY <1>4 DEF RecordFails, Insert, RecordChallenge
<1>5. ASSUME NEW r \in Requests, PostReject(r) PROVE OneSpenderInv'
  BY <1>5 DEF PostReject
<1>6. ASSUME NEW r \in Requests, PostRead(r) PROVE OneSpenderInv'
  <2>1. ~won[r]
    BY <1>6 DEF PostRead
  <2>2. PICK n \in held, s \in SigLists :
               /\ nonce' = [nonce EXCEPT ![r] = n]
               /\ sigs' = [sigs EXCEPT ![r] = s]
               /\ IF ReadError(tx[n], s, LocalTime(r)) = "ok"
                    THEN Goto(r, "stamp")
                    ELSE Answer(r, ReadError(tx[n], s, LocalTime(r)))
    BY <1>6, Zenon DEF PostRead
  <2>3. Goto(r, "stamp") \/ \E e \in PostErrors : Answer(r, e)
    BY <2>2 DEF ReadError
  <2>4. CASE Goto(r, "stamp")
    BY <1>6, <2>1, <2>2, <2>4 DEF PostRead
  <2>5. ASSUME NEW e \in PostErrors, Answer(r, e) PROVE OneSpenderInv'
    BY <1>6, <2>1, <2>2, <2>5 DEF PostRead
  <2> QED
    BY <2>3, <2>4, <2>5
<1>7. ASSUME NEW r \in Requests, Stamp(r) PROVE OneSpenderInv'
  BY <1>7 DEF Stamp
<1>8. ASSUME NEW r \in Requests, ConsumeWins(r) PROVE OneSpenderInv'
  <2>1. Spend(r) /\ Goto(r, "lookup")
    BY <1>8 DEF ConsumeWins, Spend, MarkConsumed, Consumable, RowInv
  <2> QED
    BY <1>8, <2>1, NoneAssumption
       DEF ConsumeWins, Spend, MarkConsumed, Consumable
<1>9. ASSUME NEW r \in Requests, ConsumeMisses(r) PROVE OneSpenderInv'
  BY <1>9 DEF ConsumeMisses
<1>10. ASSUME NEW r \in Requests, ConsumeErrs(r) PROVE OneSpenderInv'
  <2>1. CASE Spend(r)
    BY <1>10, <2>1, NoneAssumption DEF ConsumeErrs, Spend, MarkConsumed, Consumable
  <2>2. CASE UNCHANGED <<store, history>>
    BY <1>10, <2>2 DEF ConsumeErrs
  <2> QED
    BY <1>10, <2>1, <2>2 DEF ConsumeErrs
<1>11. ASSUME NEW r \in Requests, Classify(r) PROVE OneSpenderInv'
  BY <1>11 DEF Classify, classifyFailure
<1>12. ASSUME NEW r \in Requests, ClassifyErrs(r) PROVE OneSpenderInv'
  BY <1>12 DEF ClassifyErrs
<1>13. ASSUME NEW r \in Requests, Lookup(r) PROVE OneSpenderInv'
  <2>1. Goto(r, "session") \/ \E e \in Judgements : Answer(r, e)
    BY <1>13, VerdictType, Zenon DEF Lookup, Judgements
  <2>2. CASE Goto(r, "session")
    BY <1>13, <2>2 DEF Lookup
  <2>3. ASSUME NEW e \in Judgements, Answer(r, e) PROVE OneSpenderInv'
    BY <1>13, <2>3 DEF Lookup
  <2> QED
    BY <2>1, <2>2, <2>3
<1>14. ASSUME NEW r \in Requests, LookupFails(r) PROVE OneSpenderInv'
  BY <1>14 DEF LookupFails
<1>15. ASSUME NEW r \in Requests, SessionOk(r) PROVE OneSpenderInv'
  BY <1>15 DEF SessionOk, RecordSession
<1>16. ASSUME NEW r \in Requests, SessionErrs(r) PROVE OneSpenderInv'
  BY <1>16 DEF SessionErrs, RecordSession
<1>20. ASSUME NEW p \in Processes, Crash(p) PROVE OneSpenderInv'
  <2>1. \A r \in Requests :
               /\ pc[r] = "done" => pc'[r] = "done"
               /\ pc'[r] \in {"lookup", "session"} => pc'[r] = pc[r]
    BY <1>20 DEF Crash
  <2> QED
    BY <1>20, <2>1 DEF Crash
<1>17. ASSUME NEW r \in Requests, Fault(r) PROVE OneSpenderInv'
  BY <1>17 DEF Fault
<1>21. ASSUME NEW p \in Processes, SweepTick(p) \/ SweepDelete(p) \/ SweepFails(p)
       PROVE  OneSpenderInv'
  BY <1>21
     DEF SweepTick, SweepDelete, DeleteExpired, Sweepable, SweepFails
<1>23. CASE Tick \/ LedgerClose \/ UNCHANGED vars
  BY <1>23 DEF Tick, LedgerClose, vars
<1> QED
  BY <1>1, <1>2, <1>3, <1>4, <1>5, <1>6, <1>7, <1>8, <1>9, <1>10, <1>11,
     <1>12, <1>13, <1>14, <1>15, <1>16, <1>17, <1>20, <1>21, <1>23
     DEF Next, Arrive, Proceed, Background

\* The row agrees with the transaction when it is read.
LEMMA HomeInvNext == IInv /\ TypeInv' /\ [Next]_vars => HomeInv'
<1> SUFFICES ASSUME IInv, TypeInv', [Next]_vars PROVE HomeInv'
  OBVIOUS
<1> USE DEF IInv, TypeInv, TypeOK, LinkInv, StoreTypeOK, Goto, Answer, store,
            world, locals, history, InFlight, Presented,
            RowInv, RecordingInv, HomeInv, SpenderInv
<1>1. ASSUME NEW r \in Requests, GetRefuse(r) PROVE HomeInv'
  BY <1>1 DEF GetRefuse
<1>2. ASSUME NEW r \in Requests, GetIssue(r) PROVE HomeInv'
  BY <1>2 DEF GetIssue
<1>3. ASSUME NEW r \in Requests, RecordOk(r) PROVE HomeInv'
  BY <1>3 DEF RecordOk, Insert, RecordChallenge
<1>4. ASSUME NEW r \in Requests, RecordFails(r) PROVE HomeInv'
  BY <1>4 DEF RecordFails, Insert, RecordChallenge
<1>5. ASSUME NEW r \in Requests, PostReject(r) PROVE HomeInv'
  BY <1>5 DEF PostReject
<1>6. ASSUME NEW r \in Requests, PostRead(r) PROVE HomeInv'
  BY <1>6 DEF PostRead, ReadError
<1>7. ASSUME NEW r \in Requests, Stamp(r) PROVE HomeInv'
  BY <1>7 DEF Stamp
<1>8. ASSUME NEW r \in Requests, ConsumeWins(r) PROVE HomeInv'
  BY <1>8 DEF ConsumeWins, Spend, MarkConsumed, Consumable
<1>9. ASSUME NEW r \in Requests, ConsumeMisses(r) PROVE HomeInv'
  BY <1>9 DEF ConsumeMisses
<1>10. ASSUME NEW r \in Requests, ConsumeErrs(r) PROVE HomeInv'
  BY <1>10 DEF ConsumeErrs, Spend, MarkConsumed, Consumable
<1>11. ASSUME NEW r \in Requests, Classify(r) PROVE HomeInv'
  BY <1>11 DEF Classify, classifyFailure
<1>12. ASSUME NEW r \in Requests, ClassifyErrs(r) PROVE HomeInv'
  BY <1>12 DEF ClassifyErrs
<1>13. ASSUME NEW r \in Requests, Lookup(r) PROVE HomeInv'
  BY <1>13 DEF Lookup
<1>14. ASSUME NEW r \in Requests, LookupFails(r) PROVE HomeInv'
  BY <1>14 DEF LookupFails
<1>15. ASSUME NEW r \in Requests, SessionOk(r) PROVE HomeInv'
  BY <1>15 DEF SessionOk, RecordSession
<1>16. ASSUME NEW r \in Requests, SessionErrs(r) PROVE HomeInv'
  BY <1>16 DEF SessionErrs, RecordSession
<1>17. ASSUME NEW r \in Requests, Fault(r) PROVE HomeInv'
  BY <1>17 DEF Fault
<1>23. CASE \/ \E p \in Processes : Background(p)
            \/ Tick \/ LedgerClose \/ UNCHANGED vars
  BY <1>23
     DEF Background, SweepTick, SweepDelete, DeleteExpired, Sweepable,
         SweepFails, Crash, Tick, LedgerClose, vars
<1> QED
  BY <1>1, <1>2, <1>3, <1>4, <1>5, <1>6, <1>7, <1>8, <1>9, <1>10, <1>11,
     <1>12, <1>13, <1>14, <1>15, <1>16, <1>17, <1>23
     DEF Next, Arrive, Proceed

\* The session is inserted before the token is shown, and never replaced.
LEMMA TokenIsOnRecordNext == IInv /\ TypeInv' /\ [Next]_vars => TokenIsOnRecord'
<1> SUFFICES ASSUME IInv, TypeInv', [Next]_vars PROVE TokenIsOnRecord'
  OBVIOUS
<1> USE DEF IInv, TypeInv, TypeOK, LinkInv, StoreTypeOK, Goto, Answer, store,
            world, locals, history, InFlight, Presented,
            RecordingInv, HomeInv, TokenIsOnRecord, OneSpenderInv
<1>1. ASSUME NEW r \in Requests, GetRefuse(r) PROVE TokenIsOnRecord'
  BY <1>1 DEF GetRefuse
<1>2. ASSUME NEW r \in Requests, GetIssue(r) PROVE TokenIsOnRecord'
  BY <1>2 DEF GetIssue
<1>3. ASSUME NEW r \in Requests, RecordOk(r) PROVE TokenIsOnRecord'
  BY <1>3 DEF RecordOk, Insert, RecordChallenge
<1>4. ASSUME NEW r \in Requests, RecordFails(r) PROVE TokenIsOnRecord'
  BY <1>4 DEF RecordFails, Insert, RecordChallenge
<1>5. ASSUME NEW r \in Requests, PostReject(r) PROVE TokenIsOnRecord'
  BY <1>5 DEF PostReject
<1>6. ASSUME NEW r \in Requests, PostRead(r) PROVE TokenIsOnRecord'
  BY <1>6 DEF PostRead, ReadError
<1>7. ASSUME NEW r \in Requests, Stamp(r) PROVE TokenIsOnRecord'
  BY <1>7 DEF Stamp
<1>8. ASSUME NEW r \in Requests, ConsumeWins(r) PROVE TokenIsOnRecord'
  BY <1>8 DEF ConsumeWins, Spend, MarkConsumed, Consumable
<1>9. ASSUME NEW r \in Requests, ConsumeMisses(r) PROVE TokenIsOnRecord'
  BY <1>9 DEF ConsumeMisses
<1>10. ASSUME NEW r \in Requests, ConsumeErrs(r) PROVE TokenIsOnRecord'
  BY <1>10 DEF ConsumeErrs, Spend, MarkConsumed, Consumable
<1>11. ASSUME NEW r \in Requests, Classify(r) PROVE TokenIsOnRecord'
  BY <1>11 DEF Classify, classifyFailure
<1>12. ASSUME NEW r \in Requests, ClassifyErrs(r) PROVE TokenIsOnRecord'
  BY <1>12 DEF ClassifyErrs
<1>13. ASSUME NEW r \in Requests, Lookup(r) PROVE TokenIsOnRecord'
  BY <1>13 DEF Lookup
<1>14. ASSUME NEW r \in Requests, LookupFails(r) PROVE TokenIsOnRecord'
  BY <1>14 DEF LookupFails
<1>15. ASSUME NEW r \in Requests, SessionOk(r) PROVE TokenIsOnRecord'
  <2>1. TokenFor(r).jti = nonce[r] /\ SessionFor(r) # None
    BY <1>15, SessionType, NoneAssumption DEF SessionOk, TokenFor
  <2>2. /\ ParseAccepts(TokenFor(r), SessionFor(r).expiresAt - Instant(1))
        /\ ~ParseAccepts(TokenFor(r), SessionFor(r).expiresAt)
    BY ServerAssumption, NumericDate DEF ParseAccepts, TokenFor, SessionFor
  <2>3. /\ sessions' = [sessions EXCEPT ![nonce[r]] = SessionFor(r)]
        /\ sessions[nonce[r]] = None
        /\ nonce[r] \in Nonces
    BY <1>15 DEF SessionOk, RecordSession
  <2>4. ASSUME NEW o \in Requests, token'[o] # None, o # r
        PROVE  token[o] = token'[o] /\ token[o].jti # nonce[r]
    BY <1>15, <2>3, <2>4 DEF SessionOk
  <2> QED
    BY <1>15, <2>1, <2>2, <2>3, <2>4 DEF SessionOk, TokenFor, SessionFor
<1>16. ASSUME NEW r \in Requests, SessionErrs(r) PROVE TokenIsOnRecord'
  <2>1. CASE UNCHANGED store
    BY <1>16, <2>1 DEF SessionErrs
  <2>2. CASE RecordSession(nonce[r], SessionFor(r))
    <3>1. ASSUME NEW o \in Requests, token[o] # None
          PROVE  token[o].jti # nonce[r]
      BY <2>2, <3>1 DEF RecordSession
    <3> QED
      BY <1>16, <2>2, <3>1 DEF SessionErrs, RecordSession
  <2> QED
    BY <1>16, <2>1, <2>2 DEF SessionErrs
<1>17. ASSUME NEW r \in Requests, Fault(r) PROVE TokenIsOnRecord'
  BY <1>17 DEF Fault
<1>23. CASE \/ \E p \in Processes : Background(p)
            \/ Tick \/ LedgerClose \/ UNCHANGED vars
  BY <1>23
     DEF Background, SweepTick, SweepDelete, DeleteExpired, Sweepable,
         SweepFails, Crash, Tick, LedgerClose, vars
<1> QED
  BY <1>1, <1>2, <1>3, <1>4, <1>5, <1>6, <1>7, <1>8, <1>9, <1>10, <1>11,
     <1>12, <1>13, <1>14, <1>15, <1>16, <1>17, <1>23
     DEF Next, Arrive, Proceed

\* Times are captured from the clock, which only moves on.
LEMMA TimeInvNext == IInv /\ TypeInv' /\ [Next]_vars => TimeInv'
<1> SUFFICES ASSUME IInv, TypeInv', [Next]_vars PROVE TimeInv'
  OBVIOUS
<1> USE DEF IInv, TypeInv, TypeOK, LinkInv, StoreTypeOK, Goto, Answer, store,
            world, locals, history, InFlight, Presented,
            RecordingInv, TimeInv
<1>0. clock' = clock => /\ \A p \in Processes : TimeAt(p)' = TimeAt(p)
                        /\ \A r \in Requests : LocalTime(r)' = LocalTime(r)
  BY DEF TimeAt, LocalTime
<1> USE <1>0
<1>1. ASSUME NEW r \in Requests, GetRefuse(r) PROVE TimeInv'
  BY <1>1 DEF GetRefuse
<1>2. ASSUME NEW r \in Requests, GetIssue(r) PROVE TimeInv'
  <2>0. PICK q \in Queries :
             \E key \in Resolutions(q) : \E n \in Nonces :
               /\ tx[n] = None
               /\ IssueError(q, key) = "ok"
               /\ tx' = [tx EXCEPT ![n] = BuildChallenge(q, key, LocalTime(r))]
               /\ nonce' = [nonce EXCEPT ![r] = n]
    BY <1>2, Zenon DEF GetIssue
  <2>1. PICK key \in Resolutions(q), n \in Nonces :
               /\ tx[n] = None
               /\ IssueError(q, key) = "ok"
               /\ tx' = [tx EXCEPT ![n] = BuildChallenge(q, key, LocalTime(r))]
               /\ nonce' = [nonce EXCEPT ![r] = n]
    BY <2>0, Zenon
  <2>2. /\ BuildChallenge(q, key, LocalTime(r)).minTime = Unix(LocalTime(r))
        /\ Unix(LocalTime(r)) <= Unix(clock + MaxSkew)
    BY LocalTimes DEF BuildChallenge
  <2>3. \A m \in Nonces : tx'[m] # None => tx'[m].minTime <= Unix(clock + MaxSkew)
    BY <2>1, <2>2
  <2> HIDE DEF RecordingInv
  <2> QED
    BY <1>2, <2>1, <2>3 DEF GetIssue
<1>3. ASSUME NEW r \in Requests, RecordOk(r) PROVE TimeInv'
  BY <1>3 DEF RecordOk, Insert, RecordChallenge
<1>4. ASSUME NEW r \in Requests, RecordFails(r) PROVE TimeInv'
  BY <1>4 DEF RecordFails, Insert, RecordChallenge
<1>5. ASSUME NEW r \in Requests, PostReject(r) PROVE TimeInv'
  BY <1>5 DEF PostReject
<1>6. ASSUME NEW r \in Requests, PostRead(r) PROVE TimeInv'
  BY <1>6 DEF PostRead, ReadError
<1>7. ASSUME NEW r \in Requests, Stamp(r) PROVE TimeInv'
  <2>1. nonce[r] \in Nonces /\ tx[nonce[r]] \in Challenge
    BY <1>7 DEF Stamp
  <2>2. /\ tx[nonce[r]].minTime \in Nat
        /\ Unix(clock + MaxSkew) \in Nat
        /\ Unix(LocalTime(r)) + ClockGrace \in Nat
    BY <2>1, ReaderAssumption, LocalTimes DEF Challenge
  <2>3. tx[nonce[r]].minTime <= Unix(LocalTime(r)) + ClockGrace
    <3>1. tx[nonce[r]].minTime <= Unix(clock + MaxSkew)
      BY <2>1, NoneAssumption
    <3>2. Unix(clock + MaxSkew) <= Unix(LocalTime(r)) + ClockGrace
      BY LocalTimes
    <3> QED
      BY <2>2, <3>1, <3>2
  <2> QED
    BY <1>7, <2>3, LocalTimes DEF Stamp
<1>8. ASSUME NEW r \in Requests, ConsumeWins(r) PROVE TimeInv'
  BY <1>8 DEF ConsumeWins, Spend, MarkConsumed, Consumable
<1>9. ASSUME NEW r \in Requests, ConsumeMisses(r) PROVE TimeInv'
  BY <1>9 DEF ConsumeMisses
<1>10. ASSUME NEW r \in Requests, ConsumeErrs(r) PROVE TimeInv'
  BY <1>10 DEF ConsumeErrs, Spend, MarkConsumed, Consumable
<1>11. ASSUME NEW r \in Requests, Classify(r) PROVE TimeInv'
  BY <1>11 DEF Classify, classifyFailure
<1>12. ASSUME NEW r \in Requests, ClassifyErrs(r) PROVE TimeInv'
  BY <1>12 DEF ClassifyErrs
<1>13. ASSUME NEW r \in Requests, Lookup(r) PROVE TimeInv'
  BY <1>13 DEF Lookup
<1>14. ASSUME NEW r \in Requests, LookupFails(r) PROVE TimeInv'
  BY <1>14 DEF LookupFails
<1>15. ASSUME NEW r \in Requests, SessionOk(r) PROVE TimeInv'
  BY <1>15 DEF SessionOk, RecordSession
<1>16. ASSUME NEW r \in Requests, SessionErrs(r) PROVE TimeInv'
  BY <1>16 DEF SessionErrs, RecordSession
<1>21. CASE Tick
  <2>1. /\ \A p \in Processes : TimeAt(p) \in Nat /\ TimeAt(p)' = TimeAt(p) + 1
        /\ \A r \in Requests :
             LocalTime(r) \in Nat /\ LocalTime(r)' = LocalTime(r) + 1
    BY <1>21, LocalTimes, ClusterAssumption DEF Tick, TimeAt, LocalTime
  <2>2. /\ Unix(clock + MaxSkew) \in Nat /\ Unix(clock' + MaxSkew) \in Nat
        /\ Unix(clock + MaxSkew) <= Unix(clock' + MaxSkew)
    <3>1. /\ clock + MaxSkew \in Nat /\ clock' + MaxSkew \in Nat
          /\ clock + MaxSkew <= clock' + MaxSkew
      BY <1>21, ClusterAssumption DEF Tick
    <3> QED
      BY <3>1, UnixMonotone
  <2>3. /\ \A p \in Processes : sweep'[p] # None => sweep'[p] <= TimeAt(p)'
        /\ \A r \in Requests : now'[r] <= LocalTime(r)'
    BY <1>21, <2>1 DEF Tick
  <2>4. \A n \in Nonces :
          tx'[n] # None => tx'[n].minTime <= Unix(clock' + MaxSkew)
    BY <1>21, <2>2 DEF Tick, Challenge
  <2> QED
    BY <1>21, <2>3, <2>4 DEF Tick
<1>17. ASSUME NEW r \in Requests, Fault(r) PROVE TimeInv'
  BY <1>17 DEF Fault
<1>22. ASSUME NEW p \in Processes, Background(p) PROVE TimeInv'
  <2>1. CASE SweepTick(p)
    BY <2>1, LocalTimes DEF SweepTick
  <2>2. CASE SweepDelete(p)
    BY <2>2 DEF SweepDelete, DeleteExpired
  <2>3. CASE SweepFails(p)
    BY <2>3 DEF SweepFails
  <2>4. CASE Crash(p)
    BY <2>4 DEF Crash
  <2> QED
    BY <1>22, <2>1, <2>2, <2>3, <2>4 DEF Background
<1>23. CASE LedgerClose \/ UNCHANGED vars
  BY <1>23 DEF LedgerClose, vars
<1> QED
  BY <1>1, <1>2, <1>3, <1>4, <1>5, <1>6, <1>7, <1>8, <1>9, <1>10, <1>11,
     <1>12, <1>13, <1>14, <1>15, <1>16, <1>17, <1>21, <1>22, <1>23
     DEF Next, Arrive, Proceed

\* The UPDATE compares with the expiry the transaction was signed with.
LEMMA SpentInWindowNext == IInv /\ TypeInv' /\ [Next]_vars => SpentInWindow'
<1> SUFFICES ASSUME IInv, TypeInv', [Next]_vars PROVE SpentInWindow'
  OBVIOUS
<1> USE DEF IInv, TypeInv, TypeOK, LinkInv, StoreTypeOK, Goto, Answer, store,
            world, locals, history, InFlight, Presented,
            RecordingInv, SpentInWindow, SpenderInv, TimeInv, RowInv
<1>1. ASSUME NEW r \in Requests, GetRefuse(r) PROVE SpentInWindow'
  BY <1>1 DEF GetRefuse
<1>2. ASSUME NEW r \in Requests, GetIssue(r) PROVE SpentInWindow'
  BY <1>2 DEF GetIssue
<1>3. ASSUME NEW r \in Requests, RecordOk(r) PROVE SpentInWindow'
  BY <1>3 DEF RecordOk, Insert, RecordChallenge
<1>4. ASSUME NEW r \in Requests, RecordFails(r) PROVE SpentInWindow'
  BY <1>4 DEF RecordFails, Insert, RecordChallenge
<1>5. ASSUME NEW r \in Requests, PostReject(r) PROVE SpentInWindow'
  BY <1>5 DEF PostReject
<1>6. ASSUME NEW r \in Requests, PostRead(r) PROVE SpentInWindow'
  BY <1>6 DEF PostRead, ReadError
<1>7. ASSUME NEW r \in Requests, Stamp(r) PROVE SpentInWindow'
  BY <1>7 DEF Stamp
<1>8. ASSUME NEW r \in Requests, ConsumeWins(r) PROVE SpentInWindow'
  <2>1. Spend(r)
    BY <1>8 DEF ConsumeWins
  <2> QED
    <3>1. nonce[r] \in Nonces /\ tx[nonce[r]] \in Challenge
            /\ challenges[nonce[r]] # None /\ pc[r] = "update"
      BY <1>8, <2>1 DEF ConsumeWins, Spend, MarkConsumed, Consumable
    <3>2. now[r] <= ExpiresAt(tx[nonce[r]])
      BY <2>1, <3>1 DEF Spend, MarkConsumed, Consumable
    <3>5. InTimebounds(tx[nonce[r]], now[r])
      BY <3>1, <3>2, WithinBounds
    <3> QED
      BY <1>8, <2>1, <3>2, <3>5 DEF ConsumeWins, Spend
<1>9. ASSUME NEW r \in Requests, ConsumeMisses(r) PROVE SpentInWindow'
  BY <1>9 DEF ConsumeMisses
<1>10. ASSUME NEW r \in Requests, ConsumeErrs(r) PROVE SpentInWindow'
  <2>1. CASE Spend(r)
    <3>1. nonce[r] \in Nonces /\ tx[nonce[r]] \in Challenge
            /\ challenges[nonce[r]] # None /\ pc[r] = "update"
      BY <1>10, <2>1 DEF ConsumeErrs, Spend, MarkConsumed, Consumable
    <3>2. now[r] <= ExpiresAt(tx[nonce[r]])
      BY <2>1, <3>1 DEF Spend, MarkConsumed, Consumable
    <3>5. InTimebounds(tx[nonce[r]], now[r])
      BY <3>1, <3>2, WithinBounds
    <3> QED
      BY <1>10, <2>1, <3>2, <3>5 DEF ConsumeErrs, Spend
  <2>2. CASE UNCHANGED <<store, history>>
    BY <1>10, <2>2 DEF ConsumeErrs
  <2> QED
    BY <1>10, <2>1, <2>2 DEF ConsumeErrs
<1>11. ASSUME NEW r \in Requests, Classify(r) PROVE SpentInWindow'
  BY <1>11 DEF Classify, classifyFailure
<1>12. ASSUME NEW r \in Requests, ClassifyErrs(r) PROVE SpentInWindow'
  BY <1>12 DEF ClassifyErrs
<1>13. ASSUME NEW r \in Requests, Lookup(r) PROVE SpentInWindow'
  BY <1>13 DEF Lookup
<1>14. ASSUME NEW r \in Requests, LookupFails(r) PROVE SpentInWindow'
  BY <1>14 DEF LookupFails
<1>15. ASSUME NEW r \in Requests, SessionOk(r) PROVE SpentInWindow'
  BY <1>15 DEF SessionOk, RecordSession
<1>16. ASSUME NEW r \in Requests, SessionErrs(r) PROVE SpentInWindow'
  BY <1>16 DEF SessionErrs, RecordSession
<1>17. ASSUME NEW r \in Requests, Fault(r) PROVE SpentInWindow'
  BY <1>17 DEF Fault
<1>23. CASE \/ \E p \in Processes : Background(p)
            \/ Tick \/ LedgerClose \/ UNCHANGED vars
  BY <1>23
     DEF Background, SweepTick, SweepDelete, DeleteExpired, Sweepable,
         SweepFails, Crash, Tick, LedgerClose, vars
<1> QED
  BY <1>1, <1>2, <1>3, <1>4, <1>5, <1>6, <1>7, <1>8, <1>9, <1>10, <1>11,
     <1>12, <1>13, <1>14, <1>15, <1>16, <1>17, <1>23
     DEF Next, Arrive, Proceed

\* A challenge that is over stays over.
LEMMA OverStays ==
    ASSUME TypeInv, Tick, NEW n \in held
    PROVE  Over(n) => Over(n)'
<1>1. ExpiresAt(tx[n]) \in Nat /\ clock \in Nat
  BY ExpiresType DEF TypeInv, TypeOK, LinkInv
<1>2. \A p \in Processes : TimeAt(p) \in Nat /\ TimeAt(p)' = TimeAt(p) + 1
  BY <1>1, LocalTimes, ClusterAssumption DEF Tick, TimeAt
<1> QED
  BY <1>1, <1>2 DEF Over, Tick

\* Only rows whose time is over are deleted.
LEMMA GoneInvNext == IInv /\ TypeInv' /\ [Next]_vars => GoneInv'
<1> SUFFICES ASSUME IInv, TypeInv', [Next]_vars PROVE GoneInv'
  OBVIOUS
<1> USE DEF IInv, TypeInv, TypeOK, LinkInv, StoreTypeOK, Goto, Answer, store,
            world, locals, history, InFlight, Presented,
            RecordingInv, GoneInv, RowInv, TimeInv, Consumable, Over, TimeAt
<1>1. ASSUME NEW r \in Requests, GetRefuse(r) PROVE GoneInv'
  BY <1>1 DEF GetRefuse
<1>2. ASSUME NEW r \in Requests, GetIssue(r) PROVE GoneInv'
  <2>1. \A n \in held : tx'[n] = tx[n]
    BY <1>2 DEF GetIssue
  <2>2. UNCHANGED <<challenges, held, clock>>
    BY <1>2 DEF GetIssue
  <2>3. \A n \in held : challenges'[n] = None => Over(n)'
    BY <2>1, <2>2 DEF ExpiresAt
  <2>4. \A q \in Requests : pc'[q] = "classify" =>
               pc[q] = "classify" /\ now'[q] = now[q] /\ nonce'[q] = nonce[q]
    BY <1>2 DEF GetIssue
  <2> QED
    BY <2>2, <2>3, <2>4
<1>3. ASSUME NEW r \in Requests, RecordOk(r) PROVE GoneInv'
  <2>1. challenges'[nonce[r]] # None
    BY <1>3, InsertedRow, NoneAssumption DEF RecordOk, Insert, RecordChallenge
  <2> QED
    BY <1>3, <2>1 DEF RecordOk, Insert, RecordChallenge
<1>4. ASSUME NEW r \in Requests, RecordFails(r) PROVE GoneInv'
  BY <1>4 DEF RecordFails, Insert, RecordChallenge
<1>5. ASSUME NEW r \in Requests, PostReject(r) PROVE GoneInv'
  BY <1>5 DEF PostReject
<1>6. ASSUME NEW r \in Requests, PostRead(r) PROVE GoneInv'
  BY <1>6 DEF PostRead, ReadError
<1>7. ASSUME NEW r \in Requests, Stamp(r) PROVE GoneInv'
  BY <1>7 DEF Stamp
<1>8. ASSUME NEW r \in Requests, ConsumeWins(r) PROVE GoneInv'
  <2>1. /\ challenges'[nonce[r]] # None
        /\ challenges'[nonce[r]].consumedAt # None
    <3>1. challenges[nonce[r]] \in ChallengeRow /\ nonce[r] \in Nonces
      BY <1>8 DEF ConsumeWins, Spend, MarkConsumed
    <3>2. challenges'[nonce[r]] =
            [challenges[nonce[r]] EXCEPT !.consumedAt = now[r]]
      BY <1>8, <3>1 DEF ConsumeWins, Spend, MarkConsumed
    <3> QED
      BY <3>1, <3>2, ConsumedRow
  <2> QED
    BY <1>8, <2>1, NoneAssumption DEF ConsumeWins, Spend, MarkConsumed
<1>9. ASSUME NEW r \in Requests, ConsumeMisses(r) PROVE GoneInv'
  BY <1>9 DEF ConsumeMisses
<1>10. ASSUME NEW r \in Requests, ConsumeErrs(r) PROVE GoneInv'
  <2>1. CASE Spend(r)
    <3>1. /\ challenges'[nonce[r]] # None
          /\ challenges'[nonce[r]].consumedAt # None
      <4>1. challenges[nonce[r]] \in ChallengeRow /\ nonce[r] \in Nonces
        BY <1>10, <2>1 DEF ConsumeErrs, Spend, MarkConsumed
      <4>2. challenges'[nonce[r]] =
              [challenges[nonce[r]] EXCEPT !.consumedAt = now[r]]
        BY <2>1, <4>1 DEF Spend, MarkConsumed
      <4> QED
        BY <4>1, <4>2, ConsumedRow
    <3> QED
      BY <1>10, <2>1, <3>1, NoneAssumption DEF ConsumeErrs, Spend, MarkConsumed
  <2>2. CASE UNCHANGED <<store, history>>
    BY <1>10, <2>2 DEF ConsumeErrs
  <2> QED
    BY <1>10, <2>1, <2>2 DEF ConsumeErrs
<1>11. ASSUME NEW r \in Requests, Classify(r) PROVE GoneInv'
  BY <1>11 DEF Classify, classifyFailure
<1>12. ASSUME NEW r \in Requests, ClassifyErrs(r) PROVE GoneInv'
  BY <1>12 DEF ClassifyErrs
<1>13. ASSUME NEW r \in Requests, Lookup(r) PROVE GoneInv'
  BY <1>13 DEF Lookup
<1>14. ASSUME NEW r \in Requests, LookupFails(r) PROVE GoneInv'
  BY <1>14 DEF LookupFails
<1>15. ASSUME NEW r \in Requests, SessionOk(r) PROVE GoneInv'
  BY <1>15 DEF SessionOk, RecordSession
<1>16. ASSUME NEW r \in Requests, SessionErrs(r) PROVE GoneInv'
  BY <1>16 DEF SessionErrs, RecordSession
<1>18. ASSUME NEW p \in Processes, SweepDelete(p) PROVE GoneInv'
  <2>1. sweep[p] \in Nat /\ sweep[p] <= TimeAt(p) /\ TimeAt(p) \in Nat
    BY <1>18, LocalTimes DEF SweepDelete
  <2>2. \A n \in Nonces : challenges'[n] # challenges[n] =>
           challenges'[n] = None /\ TimeAt(p) > ExpiresAt(tx[n])
    BY <1>18, <2>1 DEF SweepDelete, DeleteExpired, Sweepable, ChallengeRow
  <2> QED
    BY <1>18, <2>2 DEF SweepDelete
<1>21. CASE Tick
  <2>1. \A n \in held : Over(n) => Over(n)'
    BY <1>21, OverStays
  <2> QED
    BY <1>21, <2>1 DEF Tick
<1>17. ASSUME NEW r \in Requests, Fault(r) PROVE GoneInv'
  BY <1>17 DEF Fault
<1>23. CASE \/ \E p \in Processes : SweepTick(p) \/ SweepFails(p) \/ Crash(p)
            \/ LedgerClose
            \/ UNCHANGED vars
  BY <1>23
     DEF SweepTick, SweepFails, Crash, LedgerClose, vars
<1> QED
  BY <1>1, <1>2, <1>3, <1>4, <1>5, <1>6, <1>7, <1>8, <1>9, <1>10, <1>11,
     <1>12, <1>13, <1>14, <1>15, <1>16, <1>17, <1>18, <1>21, <1>23
     DEF Next, Arrive, Proceed, Background

\* What the second statement reads still explains why the first found nothing.
LEMMA RefusalsAreTruthfulNext == IInv /\ TypeInv' /\ [Next]_vars => RefusalsAreTruthful'
<1> SUFFICES ASSUME IInv, TypeInv', [Next]_vars PROVE RefusalsAreTruthful'
  OBVIOUS
<1> USE DEF IInv, TypeInv, TypeOK, LinkInv, StoreTypeOK, Goto, Answer, store,
            world, locals, history, InFlight, Presented,
            RecordingInv, RefusalsAreTruthful, SpenderInv,
            OneSpenderInv, GoneInv
<1>0. ASSUME clock' = clock, NEW n, tx'[n] = tx[n] PROVE Over(n)' = Over(n)
  BY <1>0 DEF Over, TimeAt
<1> USE <1>0
<1>1. ASSUME NEW r \in Requests, GetRefuse(r) PROVE RefusalsAreTruthful'
  <2>1. nonce'[r] \notin held
    BY <1>1, NoneAssumption DEF GetRefuse
  <2> QED
    BY <1>1, <2>1 DEF GetRefuse
<1>2. ASSUME NEW r \in Requests, GetIssue(r) PROVE RefusalsAreTruthful'
  <2>1. /\ \A n \in held : tx'[n] = tx[n]
        /\ \A other \in Requests \ {r} : nonce'[other] = nonce[other]
        /\ pc'[r] = "record" /\ ~won[r]
        /\ \A other \in Requests \ {r} : pc'[other] = pc[other]
        /\ UNCHANGED <<clock, held, resp, won>>
    BY <1>2 DEF GetIssue
  <2>2. \A n \in held : Over(n)' = Over(n)
    BY <2>1
  <2>3. ASSUME NEW x \in Requests, pc'[x] = "done", nonce'[x] \in held'
        PROVE  x # r /\ pc[x] = "done" /\ nonce'[x] = nonce[x] /\ nonce[x] \in held
    BY <2>1, <2>3
  <2>4. ASSUME NEW x \in Requests, won[x] PROVE won'[x] /\ nonce'[x] = nonce[x]
    BY <2>1, <2>4
  <2> QED
    BY <2>1, <2>2, <2>3, <2>4
<1>3. ASSUME NEW r \in Requests, RecordOk(r) PROVE RefusalsAreTruthful'
  BY <1>3 DEF RecordOk, Insert, RecordChallenge
<1>4. ASSUME NEW r \in Requests, RecordFails(r) PROVE RefusalsAreTruthful'
  BY <1>4 DEF RecordFails, Insert, RecordChallenge
<1>5. ASSUME NEW r \in Requests, PostReject(r) PROVE RefusalsAreTruthful'
  <2>1. nonce'[r] \notin held
    BY <1>5, NoneAssumption DEF PostReject
  <2> QED
    BY <1>5, <2>1 DEF PostReject
<1>6. ASSUME NEW r \in Requests, PostRead(r) PROVE RefusalsAreTruthful'
  <2>1. PICK n \in held, s \in SigLists :
               /\ nonce' = [nonce EXCEPT ![r] = n]
               /\ sigs' = [sigs EXCEPT ![r] = s]
               /\ IF ReadError(tx[n], s, LocalTime(r)) = "ok"
                    THEN Goto(r, "stamp")
                    ELSE Answer(r, ReadError(tx[n], s, LocalTime(r)))
    BY <1>6, Zenon DEF PostRead
  <2>2. ~won[r]
    BY <1>6 DEF PostRead
  <2>3. ASSUME ReadError(tx[n], s, LocalTime(r)) = "ChallengeExpired"
        PROVE  Over(n)
    <3>1. /\ tx[n] \in Challenge
          /\ tx[n].minTime <= Unix(clock + MaxSkew) /\ tx[n].minTime \in Nat
      BY DEF TimeInv, Challenge
    <3>2. /\ LocalTime(r) \in Nat /\ Host[r] \in Processes
          /\ Unix(clock + MaxSkew) <= Unix(LocalTime(r)) + ClockGrace
          /\ Unix(clock + MaxSkew) \in Nat /\ Unix(LocalTime(r)) \in Nat
          /\ ClockGrace \in Nat
      BY LocalTimes, ReaderAssumption
    <3>3. tx[n].minTime <= Unix(LocalTime(r)) + ClockGrace
      BY <3>1, <3>2
    <3>4. LocalTime(r) > ExpiresAt(tx[n])
      BY <2>3, <3>1, <3>2, <3>3, PastBounds
    <3> QED
      BY <3>2, <3>4 DEF Over, LocalTime
  <2>4. Goto(r, "stamp") \/ Answer(r, "ChallengeMalformed")
          \/ (Answer(r, "ChallengeExpired") /\ Over(n))
    BY <2>1, <2>3 DEF ReadError
  <2> QED
    BY <1>6, <2>1, <2>2, <2>4 DEF PostRead
<1>7. ASSUME NEW r \in Requests, Stamp(r) PROVE RefusalsAreTruthful'
  BY <1>7 DEF Stamp
<1>8. ASSUME NEW r \in Requests, ConsumeWins(r) PROVE RefusalsAreTruthful'
  <2>1. Spend(r) /\ Goto(r, "lookup")
    BY <1>8 DEF ConsumeWins, Spend, MarkConsumed, Consumable, RowInv
  <2> QED
    BY <1>8, <2>1 DEF ConsumeWins, Spend
<1>9. ASSUME NEW r \in Requests, ConsumeMisses(r) PROVE RefusalsAreTruthful'
  BY <1>9 DEF ConsumeMisses
<1>10. ASSUME NEW r \in Requests, ConsumeErrs(r) PROVE RefusalsAreTruthful'
  BY <1>10 DEF ConsumeErrs, Spend, MarkConsumed, Consumable
<1>11. ASSUME NEW r \in Requests, Classify(r) PROVE RefusalsAreTruthful'
  <2> DEFINE n == nonce[r]
  <2>1. n \in held /\ n \in Nonces /\ ~won[r] /\ tx[n] \in Challenge
    BY <1>11 DEF Classify
  <2>2. ASSUME classifyFailure(n, now[r]) = "ChallengeConsumed"
        PROVE  \E other \in Requests \ {r} : won[other] /\ nonce[other] = n
    BY <1>11, <2>1, <2>2 DEF Classify, classifyFailure, Consumable, ChallengeRow
  <2>3. ASSUME classifyFailure(n, now[r]) \in {"ChallengeUnknown", "ChallengeExpired"}
        PROVE  Over(n)
    <3>1. CASE challenges[n] = None
      BY <2>1, <3>1
    <3>2. CASE challenges[n] # None
      <4>1. now[r] > ExpiresAt(tx[n]) /\ now[r] <= LocalTime(r)
        BY <1>11, <2>1, <2>3, <3>2
           DEF Classify, classifyFailure, RowInv, TimeInv, ChallengeRow
      <4> QED
        BY <2>1, <4>1, LocalTimes, ExpiresType DEF Over, LocalTime
    <3> QED
      BY <3>1, <3>2
  <2> QED
    BY <1>11, <2>1, <2>2, <2>3 DEF Classify
<1>12. ASSUME NEW r \in Requests, ClassifyErrs(r) PROVE RefusalsAreTruthful'
  BY <1>12 DEF ClassifyErrs
<1>13. ASSUME NEW r \in Requests, Lookup(r) PROVE RefusalsAreTruthful'
  <2>1. Goto(r, "session") \/ \E e \in Judgements : Answer(r, e)
    BY <1>13, VerdictType, Zenon DEF Lookup, Judgements
  <2>2. CASE Goto(r, "session")
    BY <1>13, <2>2 DEF Lookup
  <2>3. ASSUME NEW e \in Judgements, Answer(r, e) PROVE RefusalsAreTruthful'
    BY <1>13, <2>3 DEF Lookup, Judgements, Verdicts
  <2> QED
    BY <2>1, <2>2, <2>3
<1>14. ASSUME NEW r \in Requests, LookupFails(r) PROVE RefusalsAreTruthful'
  BY <1>14 DEF LookupFails
<1>15. ASSUME NEW r \in Requests, SessionOk(r) PROVE RefusalsAreTruthful'
  BY <1>15 DEF SessionOk, RecordSession
<1>16. ASSUME NEW r \in Requests, SessionErrs(r) PROVE RefusalsAreTruthful'
  BY <1>16 DEF SessionErrs, RecordSession
<1>21. CASE Tick
  <2>1. \A n \in held : Over(n) => Over(n)'
    BY <1>21, OverStays
  <2> QED
    BY <1>21, <2>1 DEF Tick
<1>17. ASSUME NEW r \in Requests, Fault(r) PROVE RefusalsAreTruthful'
  BY <1>17 DEF Fault
<1>22. ASSUME NEW p \in Processes, Background(p) PROVE RefusalsAreTruthful'
  BY <1>22
     DEF Background, SweepTick, SweepDelete, DeleteExpired, SweepFails, Crash
<1>23. CASE LedgerClose \/ UNCHANGED vars
  BY <1>23 DEF LedgerClose, vars
<1> QED
  BY <1>1, <1>2, <1>3, <1>4, <1>5, <1>6, <1>7, <1>8, <1>9, <1>10, <1>11,
     <1>12, <1>13, <1>14, <1>15, <1>16, <1>17, <1>21, <1>22, <1>23
     DEF Next, Arrive, Proceed

-----------------------------------------------------------------------------
(* The theorems *)

LEMMA IInvInit == Init => IInv
<1> SUFFICES ASSUME Init PROVE IInv
  OBVIOUS
<1>1. TypeInv
  BY TypeInit
<1>2. RecordingInv /\ RowInv /\ SpenderInv /\ GoneInv
  BY NoneAssumption
     DEF Init, StoreInit, RecordingInv, RowInv, SpenderInv, GoneInv, Presented
<1>3. OneSpenderInv /\ HomeInv
  BY DEF Init, StoreInit, OneSpenderInv, HomeInv, Judgements, Verdicts
<1>4. TokenIsOnRecord /\ SpentInWindow /\ RefusalsAreTruthful
  BY DEF Init, TokenIsOnRecord, SpentInWindow, RefusalsAreTruthful
<1>5. TimeInv
  BY LocalTimes DEF Init, TimeInv
<1> QED
  BY <1>1, <1>2, <1>3, <1>4, <1>5 DEF IInv

LEMMA IInvNext == IInv /\ [Next]_vars => IInv'
<1> SUFFICES ASSUME IInv, [Next]_vars PROVE IInv'
  OBVIOUS
<1>1. TypeInv'
  BY TypeNext DEF IInv
<1>2. RecordingInv' /\ RowInv' /\ SpenderInv' /\ OneSpenderInv' /\ HomeInv'
  BY <1>1, RecordingInvNext, RowInvNext, SpenderInvNext, OneSpenderInvNext,
     HomeInvNext
<1>3. TokenIsOnRecord' /\ TimeInv' /\ SpentInWindow' /\ GoneInv'
        /\ RefusalsAreTruthful'
  BY <1>1, TokenIsOnRecordNext, TimeInvNext, SpentInWindowNext, GoneInvNext,
     RefusalsAreTruthfulNext
<1> QED
  BY <1>1, <1>2, <1>3 DEF IInv

LEMMA Invariance == Spec => []IInv
  BY IInvInit, IInvNext, PTL DEF Spec

\* Whoever was ever judged is the spender, whatever became of the request.
JudgedInv == \A r \in Requests : judged[r] => won[r]

LEMMA JudgedInvNext == IInv /\ JudgedInv /\ [Next]_vars => JudgedInv'
<1> SUFFICES ASSUME IInv, JudgedInv, [Next]_vars PROVE JudgedInv'
  OBVIOUS
<1> USE DEF IInv, TypeInv, TypeOK, JudgedInv, history
<1>1. ASSUME NEW r \in Requests, Lookup(r) PROVE JudgedInv'
  <2>1. won[r]
    BY <1>1 DEF Lookup, OneSpenderInv
  <2> QED
    BY <1>1, <2>1 DEF Lookup
<1>2. ASSUME NEW r \in Requests, Spend(r) PROVE JudgedInv'
  BY <1>2 DEF Spend
<1>3. CASE UNCHANGED history
  BY <1>3
<1>4. ASSUME NEW r \in Requests, Arrive(r) PROVE UNCHANGED history
  BY <1>4 DEF Arrive, GetRefuse, GetIssue, PostReject, PostRead
<1>5. ASSUME NEW r \in Requests, Proceed(r)
      PROVE  Lookup(r) \/ Spend(r) \/ UNCHANGED history
  BY <1>5
     DEF Proceed, RecordOk, RecordFails, Stamp, ConsumeWins, ConsumeMisses,
         ConsumeErrs, Classify, ClassifyErrs, LookupFails, SessionOk,
         SessionErrs, Fault
<1>6. CASE \/ \E p \in Processes : Background(p)
           \/ Tick \/ LedgerClose \/ UNCHANGED vars
  BY <1>3, <1>6
     DEF Background, SweepTick, SweepDelete, SweepFails, Crash, Tick,
         LedgerClose, vars
<1> QED
  BY <1>1, <1>2, <1>3, <1>4, <1>5, <1>6 DEF Next

\* One challenge buys one attempt, however many requests present it at once and
\* however the one that was judged ended: postAuthHandler compares signatures
\* only after its own UPDATE, and nothing ever takes an UPDATE back.
THEOREM OneAttempt == Spec => []OneVerdictPerChallenge
<1>1. Init => JudgedInv
  BY DEF Init, JudgedInv
<1>2. Spec => []JudgedInv
  BY <1>1, JudgedInvNext, Invariance, PTL DEF Spec
<1>3. IInv /\ JudgedInv => OneVerdictPerChallenge
  BY DEF IInv, OneSpenderInv, JudgedInv, OneVerdictPerChallenge
<1> QED
  BY <1>2, <1>3, Invariance, PTL

\* POST /auth never answers with a token that has no matching session row.
THEOREM TokensAreOnRecord == Spec => []TokenIsOnRecord
<1>1. IInv => TokenIsOnRecord
  BY DEF IInv
<1> QED
  BY <1>1, Invariance, PTL

\* A challenge is never spent outside the time bounds the server signed.
THEOREM SpendingInWindow == Spec => []SpentInWindow
<1>1. IInv => SpentInWindow
  BY DEF IInv
<1> QED
  BY <1>1, Invariance, PTL

\* ConsumeChallenge and classifyFailure, two statements with anything between
\* them, give the true reason for a refusal; the default branch of the switch,
\* which would call a live challenge used, is never what answers.
THEOREM TruthfulRefusals == Spec => []RefusalsAreTruthful
<1>1. IInv => RefusalsAreTruthful
  BY DEF IInv
<1> QED
  BY <1>1, Invariance, PTL

\* What the spender of a challenge may be told, and that a verdict against its
\* signatures leaves no session.
FinalInv ==
    /\ \A r \in Requests : won[r] =>
         resp[r] \in {"none", "ServiceUnavailable", "InternalError",
                      "AccountLookupFailed"} \cup Judgements
    /\ \A r \in Requests : won[r] /\ resp[r] \in Verdicts =>
         sessions[nonce[r]] = None

LEMMA FinalInvNext == IInv /\ FinalInv /\ [Next]_vars => FinalInv'
<1> SUFFICES ASSUME IInv, FinalInv, [Next]_vars PROVE FinalInv'
  OBVIOUS
<1>0. ASSUME UNCHANGED sessions,
             \A q \in Requests : won'[q] => /\ won[q]
                                           /\ resp'[q] = resp[q]
                                           /\ nonce'[q] = nonce[q]
      PROVE  FinalInv'
  BY <1>0 DEF FinalInv
<1> USE DEF IInv, TypeInv, TypeOK, LinkInv, StoreTypeOK, Goto, Answer, store,
            world, locals, history, InFlight, SpenderInv, OneSpenderInv,
            FinalInv, Judgements, Verdicts
<1>1. ASSUME NEW r \in Requests, GetRefuse(r) \/ PostReject(r)
      PROVE  FinalInv'
  <2>1. ~won[r] /\ \A other \in Requests \ {r} : resp'[other] = resp[other]
    BY <1>1 DEF GetRefuse, PostReject
  <2>2. UNCHANGED <<won, nonce, sessions>>
    BY <1>1 DEF GetRefuse, PostReject
  <2>3. \A q \in Requests : won'[q] => /\ won[q]
                                       /\ resp'[q] = resp[q]
                                       /\ nonce'[q] = nonce[q]
    BY <2>1, <2>2
  <2> QED
    BY <1>0, <2>2, <2>3
<1>2. ASSUME NEW r \in Requests, GetIssue(r) \/ PostRead(r) PROVE FinalInv'
  <2>1. ~won[r] /\ UNCHANGED <<won, sessions>>
    BY <1>2 DEF GetIssue, PostRead
  <2>2. \A other \in Requests \ {r} : /\ resp'[other] = resp[other]
                                      /\ nonce'[other] = nonce[other]
    BY <1>2 DEF GetIssue, PostRead
  <2>3. \A other \in Requests : won'[other] => /\ won[other]
                                               /\ resp'[other] = resp[other]
                                               /\ nonce'[other] = nonce[other]
    BY <2>1, <2>2
  <2> QED
    BY <2>1, <2>3 DEF FinalInv
<1>3. ASSUME NEW r \in Requests, RecordOk(r) \/ RecordFails(r) PROVE FinalInv'
  <2>1. ~won[r] /\ \A other \in Requests \ {r} : resp'[other] = resp[other]
    BY <1>3 DEF RecordOk, RecordFails
  <2>2. UNCHANGED <<won, nonce, sessions>>
    BY <1>3 DEF RecordOk, RecordFails, Insert, RecordChallenge
  <2>3. \A q \in Requests : won'[q] => /\ won[q]
                                       /\ resp'[q] = resp[q]
                                       /\ nonce'[q] = nonce[q]
    BY <2>1, <2>2
  <2> QED
    BY <1>0, <2>2, <2>3
<1>4. ASSUME NEW r \in Requests,
             Stamp(r) \/ ConsumeMisses(r) \/ Classify(r) \/ ClassifyErrs(r)
      PROVE  FinalInv'
  <2>1. ~won[r] /\ \A other \in Requests \ {r} : resp'[other] = resp[other]
    BY <1>4 DEF Stamp, ConsumeMisses, Classify, ClassifyErrs
  <2>2. UNCHANGED <<won, nonce, sessions>>
    BY <1>4 DEF Stamp, ConsumeMisses, Classify, ClassifyErrs
  <2>3. \A q \in Requests : won'[q] => /\ won[q]
                                       /\ resp'[q] = resp[q]
                                       /\ nonce'[q] = nonce[q]
    BY <2>1, <2>2
  <2> QED
    BY <1>0, <2>2, <2>3
<1>5. ASSUME NEW r \in Requests, ConsumeWins(r) PROVE FinalInv'
  <2>1. Spend(r) /\ Goto(r, "lookup") /\ resp[r] = "none"
    BY <1>5 DEF ConsumeWins, Spend, MarkConsumed, Consumable, RowInv
  <2>2. UNCHANGED <<resp, nonce, sessions>>
    BY <1>5, <2>1 DEF ConsumeWins, Spend, MarkConsumed
  <2>3. \A other \in Requests \ {r} : won'[other] = won[other]
    BY <2>1 DEF Spend
  <2> QED
    BY <2>1, <2>2, <2>3
<1>6. ASSUME NEW r \in Requests, ConsumeErrs(r) PROVE FinalInv'
  <2>1. UNCHANGED <<nonce, sessions>> /\ resp'[r] = "ServiceUnavailable"
    BY <1>6 DEF ConsumeErrs, Spend, MarkConsumed
  <2>2. \A other \in Requests \ {r} : /\ won'[other] = won[other]
                                      /\ resp'[other] = resp[other]
    BY <1>6 DEF ConsumeErrs, Spend
  <2> QED
    BY <2>1, <2>2
<1>7. ASSUME NEW r \in Requests, Lookup(r) PROVE FinalInv'
  <2>1. Goto(r, "session") \/ \E e \in Judgements : Answer(r, e)
    BY <1>7, VerdictType, Zenon DEF Lookup, Judgements
  <2>2. sessions[nonce[r]] = None
    BY <1>7 DEF Lookup
  <2>3. CASE Goto(r, "session")
    BY <1>7, <2>3 DEF Lookup
  <2>4. ASSUME NEW e \in Judgements, Answer(r, e) PROVE FinalInv'
    BY <1>7, <2>2, <2>4 DEF Lookup
  <2> QED
    BY <2>1, <2>3, <2>4
<1>8. ASSUME NEW r \in Requests, LookupFails(r) \/ Fault(r) PROVE FinalInv'
  <2>1. /\ resp'[r] \in {"AccountLookupFailed", "InternalError"}
        /\ \A other \in Requests \ {r} : resp'[other] = resp[other]
    BY <1>8 DEF LookupFails, Fault
  <2>2. UNCHANGED <<won, nonce, sessions>>
    BY <1>8 DEF LookupFails, Fault
  <2> QED
    BY <2>1, <2>2
<1>9. ASSUME NEW r \in Requests, SessionOk(r) \/ SessionErrs(r) PROVE FinalInv'
  <2>1. won[r] /\ \A other \in Requests \ {r} : won[other] =>
               nonce[other] # nonce[r]
    BY <1>9 DEF SessionOk, SessionErrs
  <2>2. CASE SessionOk(r)
    BY <2>1, <2>2 DEF SessionOk, RecordSession
  <2>3. CASE SessionErrs(r)
    BY <2>1, <2>3 DEF SessionErrs, RecordSession
  <2> QED
    BY <1>9, <2>2, <2>3
<1>10. ASSUME NEW p \in Processes, Background(p) PROVE FinalInv'
  BY <1>10
     DEF Background, SweepTick, SweepDelete, DeleteExpired, SweepFails, Crash
<1>11. CASE Tick \/ LedgerClose \/ UNCHANGED vars
  BY <1>11 DEF Tick, LedgerClose, vars
<1> QED
  BY <1>1, <1>2, <1>3, <1>4, <1>5, <1>6, <1>7, <1>8, <1>9, <1>10, <1>11
     DEF Next, Arrive, Proceed

\* Whoever spent a challenge and is refused with 400 or 401 was judged, and
\* has no session: respondError and respondStoreError keep outages apart.
THEOREM FinalRefusals == Spec => []RefusalsAreFinal
<1>1. Init => FinalInv
  BY DEF Init, FinalInv
<1>2. FinalInv => RefusalsAreFinal
  <2> SUFFICES ASSUME FinalInv, NEW r \in Requests, won[r],
                      StatusOf(resp[r]) \in {400, 401}
               PROVE  resp[r] \in Verdicts \ {"ok"}
    BY DEF FinalInv, RefusalsAreFinal, Verdicts
  <2>1. resp[r] \in {"none", "ServiceUnavailable", "InternalError",
                     "AccountLookupFailed", "token"} \cup (Verdicts \ {"ok"})
    BY DEF FinalInv, Judgements
  <2>2. StatusOf("none") = 500 /\ StatusOf("InternalError") = 500
    BY DEF StatusOf
  <2>3. StatusOf("ServiceUnavailable") = 503
    BY DEF StatusOf
  <2>4. StatusOf("AccountLookupFailed") = 503 /\ StatusOf("token") = 200
    BY DEF StatusOf
  <2> QED
    BY <2>1, <2>2, <2>3, <2>4
<1> QED
  BY <1>1, <1>2, Invariance, FinalInvNext, PTL DEF Spec

\* No statement brings a consumed or deleted challenge back: the INSERT only
\* ever writes a nonce that nobody holds yet, the UPDATE only a live row.
THEOREM NoRevival == Spec => NeverRevived
<1> DEFINE A == \A n \in held :
                  (challenges[n] = None \/ challenges[n].consumedAt # None)
                    => challenges'[n] \in {None, challenges[n]}
<1>1. ASSUME IInv, [Next]_vars PROVE A
  <2> SUFFICES ASSUME NEW n \in held,
                      challenges[n] = None \/ challenges[n].consumedAt # None
               PROVE  challenges'[n] \in {None, challenges[n]}
    OBVIOUS
  <2> USE <1>1 DEF IInv, TypeInv, TypeOK, LinkInv, StoreTypeOK, store, InFlight
  <2>1. ASSUME NEW r \in Requests, pc[r] = "record", Insert(r)
        PROVE  challenges'[n] = challenges[n]
    BY <2>1 DEF Insert, RecordChallenge, RecordingInv
  <2>2. ASSUME NEW r \in Requests, pc[r] = "update", Spend(r)
        PROVE  challenges'[n] = challenges[n]
    BY <2>2 DEF Spend, MarkConsumed, Consumable
  <2>3. ASSUME NEW r \in Requests, Arrive(r) PROVE challenges' = challenges
    BY <2>3 DEF Arrive, GetRefuse, GetIssue, PostReject, PostRead
  <2>4. ASSUME NEW r \in Requests, Proceed(r)
        PROVE  challenges'[n] = challenges[n]
    <3>1. CASE RecordOk(r) \/ RecordFails(r)
      BY <2>1, <3>1 DEF RecordOk, RecordFails
    <3>2. CASE ConsumeWins(r) \/ ConsumeErrs(r)
      BY <2>2, <3>2 DEF ConsumeWins, ConsumeErrs
    <3>3. CASE SessionOk(r) \/ SessionErrs(r)
      BY <3>3 DEF SessionOk, SessionErrs, RecordSession
    <3>4. CASE Stamp(r) \/ ConsumeMisses(r) \/ Lookup(r) \/ LookupFails(r)
      BY <3>4 DEF Stamp, ConsumeMisses, Lookup, LookupFails
    <3>5. CASE Classify(r) \/ ClassifyErrs(r) \/ Fault(r)
      BY <3>5 DEF Classify, ClassifyErrs, Fault
    <3> QED
      BY <2>4, <3>1, <3>2, <3>3, <3>4, <3>5 DEF Proceed
  <2>5. ASSUME NEW p \in Processes, SweepDelete(p)
        PROVE  challenges'[n] \in {None, challenges[n]}
    BY <2>5 DEF SweepDelete, DeleteExpired
  <2>6. CASE \/ \E p \in Processes : SweepTick(p) \/ SweepFails(p) \/ Crash(p)
             \/ Tick \/ LedgerClose \/ UNCHANGED vars
    BY <2>6 DEF SweepTick, SweepFails, Crash, Tick, LedgerClose, vars
  <2> QED
    BY <2>3, <2>4, <2>5, <2>6 DEF Next, Background
<1>2. IInv /\ [Next]_vars => [A]_vars
  BY <1>1
<1> QED
  BY <1>2, Invariance, PTL DEF Spec, NeverRevived
-----------------------------------------------------------------------------
(* What a token is given out for *)

\* The signers of a list of signatures: no more of them than signatures.
LEMMA SignersOfList ==
    ASSUME NEW s \in Seq(Keys)
    PROVE  /\ IsFiniteSet(ToSet(s)) /\ ToSet(s) \subseteq Keys
           /\ Cardinality(ToSet(s)) <= Len(s)
<1>1. ToSet(s) = {s[i] : i \in 1..Len(s)} /\ Len(s) \in Nat
  BY DEF ToSet
<1>2. IsFiniteSet(1..Len(s)) /\ Cardinality(1..Len(s)) = Len(s)
  BY <1>1, FS_Interval
<1>3. s \in Surjection(1..Len(s), ToSet(s))
  BY <1>1 DEF Surjection
<1> QED BY <1>1, <1>2, <1>3, FS_Surjection

\* What verifySigners accepts: every signature is the server's or a candidate's,
\* none is there twice, and one is an account signer's that is not the domain's.
LEMMA SignersAccepted ==
    ASSUME NEW key \in Orelse(Keys), NEW s \in Seq(Keys), NEW A,
           verifySigners(key, s, A) = "ok"
    PROVE  LET voters == (ToSet(s) \cap Keys \cap A) \ {Server, key}
           IN /\ Len(s) = Cardinality(ToSet(s))
              /\ ToSet(s) = voters \cup {Server} \cup ({key} \ {None})
              /\ voters # {}
              /\ voters = (matchSigners(s, candidates(A, key)) \ {key}) \cap A
<1> DEFINE signed == ToSet(s)
           clients == candidates(A, key)
           matched == matchSigners(s, clients \cup {Server})
           voters == (signed \cap Keys \cap A) \ {Server, key}
<1>1. /\ Server \in matched /\ ~(matched \ {Server} \subseteq {key})
      /\ Cardinality(matched) = Len(s)
      /\ key # None => key \in matched \ {Server}
  BY DEF verifySigners
<1>2. matched \subseteq signed
  BY DEF matchSigners
<1>3. IsFiniteSet(signed) /\ signed \subseteq Keys /\ Cardinality(signed) <= Len(s)
  BY SignersOfList
<1>4. matched = signed
  <2>1. /\ IsFiniteSet(matched) /\ Cardinality(matched) <= Cardinality(signed)
        /\ (Cardinality(matched) = Cardinality(signed) => matched = signed)
    BY <1>2, <1>3, FS_Subset
  <2>2. Cardinality(signed) \in Nat /\ Cardinality(matched) \in Nat
    BY <1>3, <2>1, FS_CardinalityType
  <2>3. Len(s) \in Nat
    OBVIOUS
  <2> HIDE DEF signed, matched
  <2> QED BY <1>1, <1>3, <2>1, <2>2, <2>3
<1>5. \A k \in signed : k = Server \/ (k \in A \cup {key} /\ k \in Keys)
  BY <1>4 DEF matchSigners, candidates
<1>6. None \notin Keys /\ Server \in Keys
  BY IdentityAssumption, NoneAssumption
<1>7. signed = voters \cup {Server} \cup ({key} \ {None})
  BY <1>1, <1>4, <1>5, <1>6
<1>8. voters # {}
  BY <1>1, <1>3, <1>4, <1>5
<1>9. voters = (matchSigners(s, clients) \ {key}) \cap A
  BY DEF matchSigners, candidates
<1> QED BY <1>1, <1>4, <1>7, <1>8, <1>9

\* VerifyClient lets nothing through but what authorises the challenge.
LEMMA AcceptedIsAuthorised ==
    ASSUME NEW c \in Challenge, NEW s \in Seq(Keys), NEW account,
           VerifyClient(c, s, account) = "ok"
    PROVE  Authorises(c, s, account)
<1>0. c.key \in Orelse(Keys)
  BY DEF Challenge
<1>1. CASE account = None
  <2>1. verifySigners(c.key, s, {baseAccountID(c.account)}) = "ok"
    BY <1>1 DEF VerifyClient
  <2> QED BY <1>0, <1>1, <2>1, SignersAccepted DEF Authorises
<1>2. CASE account # None
  <2> DEFINE A == DOMAIN account.signers
             voters == (ToSet(s) \cap Keys \cap A) \ {Server, c.key}
  <2>1. verifySigners(c.key, s, A) = "ok"
    BY <1>2 DEF VerifyClient
  <2>2. ~(TotalWeight(account.signers,
            (matchSigners(s, candidates(A, c.key)) \ {c.key}) \cap A) < account.med)
    BY <1>2, <2>1 DEF VerifyClient, accountSignerWeight
  <2>3. /\ Len(s) = Cardinality(ToSet(s))
        /\ ToSet(s) = voters \cup {Server} \cup ({c.key} \ {None})
        /\ voters # {}
        /\ voters = (matchSigners(s, candidates(A, c.key)) \ {c.key}) \cap A
    BY <1>0, <2>1, SignersAccepted
  <2>4. ~(TotalWeight(account.signers, voters) < account.med)
    BY <2>2, <2>3
  <2> QED BY <1>2, <2>3, <2>4 DEF Authorises
<1> QED BY <1>1, <1>2

\* Some state of the ledger since r spent its challenge authorises r.
Backed(r) ==
    \E v \in ver[r]..ledger :
        Authorises(tx[nonce[r]], sigs[r], AccountAt(v, tx[nonce[r]]))

AuthorisedInv ==
    \A r \in Requests : won[r] =>
        /\ ver[r] \in 1..ledger
        /\ pc[r] = "session" \/ token[r] # None => Backed(r)

\* What the judgement on a request rests on does not change once it has spent
\* its challenge, and the ledger only goes forward.
LEMMA SpenderKeeps ==
    ASSUME IInv, [Next]_vars, NEW q \in Requests, won[q]
    PROVE  /\ nonce'[q] = nonce[q] /\ sigs'[q] = sigs[q] /\ ver'[q] = ver[q]
           /\ tx'[nonce[q]] = tx[nonce[q]]
           /\ ledger' \in Nat /\ ledger' >= ledger
<1> USE DEF IInv, TypeInv, TypeOK, LinkInv, StoreTypeOK, Goto, Answer, store,
            world, locals, history, InFlight, SpenderInv
<1>0. nonce[q] \in held /\ nonce[q] \in Nonces /\ tx[nonce[q]] # None
      /\ pc[q] \notin {"idle", "update"} /\ ledger \in Nat
  BY ServerAssumption
<1>1. ASSUME NEW r \in Requests, GetIssue(r)
      PROVE  /\ \A n \in Nonces : tx[n] # None => tx'[n] = tx[n]
             /\ r # q /\ nonce'[q] = nonce[q]
  <2>1. PICK n \in Nonces : /\ tx[n] = None
                            /\ \E new : tx' = [tx EXCEPT ![n] = new]
                            /\ nonce' = [nonce EXCEPT ![r] = n]
    BY <1>1 DEF GetIssue
  <2>2. r # q
    BY <1>0, <1>1 DEF GetIssue
  <2> QED BY <2>1, <2>2
<1>2. CASE \E r \in Requests : GetIssue(r)
  BY <1>0, <1>1, <1>2 DEF GetIssue
<1>3. CASE \E r \in Requests : PostRead(r)
  BY <1>0, <1>3 DEF PostRead
<1>4. CASE \E r \in Requests : ConsumeWins(r) \/ ConsumeErrs(r)
  BY <1>0, <1>4 DEF ConsumeWins, ConsumeErrs, Spend
<1>5. CASE \E r \in Requests :
             \/ GetRefuse(r) \/ PostReject(r) \/ RecordOk(r) \/ RecordFails(r)
             \/ Stamp(r) \/ ConsumeMisses(r) \/ Classify(r) \/ ClassifyErrs(r)
  BY <1>0, <1>5 DEF GetRefuse, PostReject, RecordOk, RecordFails, Stamp,
                    ConsumeMisses, Classify, ClassifyErrs
<1>6. CASE \E r \in Requests :
             \/ Lookup(r) \/ LookupFails(r) \/ SessionOk(r) \/ SessionErrs(r)
             \/ Fault(r)
  BY <1>0, <1>6 DEF Lookup, LookupFails, SessionOk, SessionErrs, Fault
<1>7. CASE (\E p \in Processes : Background(p)) \/ Tick \/ LedgerClose
             \/ UNCHANGED vars
  BY <1>0, <1>7 DEF Background, SweepTick, SweepDelete, SweepFails, Crash, Tick,
                    LedgerClose, vars
<1> QED
  BY <1>2, <1>3, <1>4, <1>5, <1>6, <1>7 DEF Next, Arrive, Proceed

LEMMA BackedStays ==
    ASSUME IInv, [Next]_vars, NEW q \in Requests, won[q], ver[q] \in 1..ledger
    PROVE  /\ ver'[q] \in 1..ledger'
           /\ Backed(q) => Backed(q)'
<1>1. /\ nonce'[q] = nonce[q] /\ sigs'[q] = sigs[q] /\ ver'[q] = ver[q]
      /\ tx'[nonce[q]] = tx[nonce[q]]
      /\ ledger' \in Nat /\ ledger' >= ledger /\ ledger \in Nat
  BY SpenderKeeps, ServerAssumption DEF IInv, TypeInv, TypeOK
<1>2. ver'[q] \in 1..ledger' /\ \A v \in ver[q]..ledger : v \in ver'[q]..ledger'
  BY <1>1
<1> QED BY <1>1, <1>2 DEF Backed

\* A request is new in a place where it must be backed only by Lookup.
LEMMA NewlyBacked ==
    ASSUME IInv, AuthorisedInv, [Next]_vars, NEW q \in Requests,
           pc'[q] = "session" \/ token'[q] # None
    PROVE  \/ won[q] /\ (pc[q] = "session" \/ token[q] # None)
           \/ Lookup(q)
<1> USE DEF IInv, TypeInv, TypeOK, LinkInv, StoreTypeOK, Goto, Answer, store,
            world, locals, history, InFlight, SpenderInv, OneSpenderInv
<1>1. CASE \E r \in Requests : Lookup(r)
  <2>1. PICK r \in Requests : Lookup(r)
    BY <1>1
  <2>2. CASE r = q
    BY <2>1, <2>2
  <2>3. CASE r # q
    BY <2>1, <2>3 DEF Lookup
  <2> QED
    BY <2>2, <2>3
<1>2. CASE \E r \in Requests : SessionOk(r)
  BY <1>2 DEF SessionOk
<1>3. CASE \E r \in Requests : Arrive(r)
  BY <1>3 DEF Arrive, GetRefuse, GetIssue, PostReject, PostRead
<1>4. CASE \E r \in Requests :
             \/ RecordOk(r) \/ RecordFails(r) \/ Stamp(r) \/ ConsumeWins(r)
             \/ ConsumeMisses(r) \/ ConsumeErrs(r)
  BY <1>4 DEF RecordOk, RecordFails, Stamp, ConsumeWins, ConsumeMisses,
              ConsumeErrs
<1>5. CASE \E r \in Requests :
             \/ Classify(r) \/ ClassifyErrs(r) \/ LookupFails(r)
             \/ SessionErrs(r) \/ Fault(r)
  BY <1>5 DEF Classify, ClassifyErrs, LookupFails, SessionErrs, Fault
<1>6. CASE (\E p \in Processes : Background(p)) \/ Tick \/ LedgerClose
             \/ UNCHANGED vars
  BY <1>6 DEF Background, SweepTick, SweepDelete, SweepFails, Crash, Tick,
              LedgerClose, vars
<1> QED
  BY <1>1, <1>2, <1>3, <1>4, <1>5, <1>6 DEF Next, Proceed

\* A request that wins in a step spent its challenge in it.
LEMMA NewlyWon ==
    ASSUME IInv, [Next]_vars, NEW q \in Requests, won'[q], ~won[q]
    PROVE  ver'[q] = ledger /\ ledger' = ledger /\ ~(pc'[q] = "session")
<1> USE DEF IInv, TypeInv, TypeOK, Goto, Answer, store, world, locals, history
<1>1. PICK r \in Requests : (ConsumeWins(r) \/ ConsumeErrs(r)) /\ Spend(r)
  BY DEF Next, Arrive, Proceed, GetRefuse, GetIssue, PostReject, PostRead,
         RecordOk, RecordFails, Stamp, ConsumeWins, ConsumeMisses, ConsumeErrs,
         Classify, ClassifyErrs, Lookup, LookupFails, SessionOk, SessionErrs,
         Fault, Background, SweepTick, SweepDelete, SweepFails, Crash, Tick,
         LedgerClose, vars
<1>2. r = q
  BY <1>1 DEF Spend
<1> QED BY <1>1, <1>2 DEF ConsumeWins, ConsumeErrs, Spend

LEMMA LookupBacks ==
    ASSUME IInv, AuthorisedInv, NEW q \in Requests, Lookup(q),
           pc'[q] = "session"
    PROVE  won[q] /\ Backed(q)
<1> DEFINE c == tx[nonce[q]]
<1>1. /\ pc[q] = "lookup" /\ c \in Challenge /\ sigs[q] \in Seq(Keys) /\ won[q]
  <2>1. pc[q] = "lookup" /\ nonce[q] \in Nonces /\ c # None /\ won[q]
    BY DEF Lookup, IInv, TypeInv, LinkInv, InFlight, OneSpenderInv
  <2>2. c \in Challenge
    BY <2>1 DEF IInv, TypeInv, TypeOK
  <2>3. <<>> \in Seq(Keys) /\ SigLists \subseteq Seq(Keys)
    BY ServerAssumption
  <2>4. sigs[q] \in SigLists \cup {<<>>}
    BY DEF IInv, TypeInv, TypeOK
  <2> QED BY <2>1, <2>2, <2>3, <2>4
<1>2. VerifyClient(c, sigs[q], AccountAt(ledger, c)) = "ok"
  BY DEF Lookup, Answer, IInv, TypeInv, TypeOK
<1>3. Authorises(c, sigs[q], AccountAt(ledger, c))
  BY <1>1, <1>2, AcceptedIsAuthorised
<1>4. ledger \in ver[q]..ledger
  <2>1. ver[q] \in 1..ledger /\ ledger \in Nat
    BY <1>1, ServerAssumption DEF AuthorisedInv, IInv, TypeInv, TypeOK
  <2> QED BY <2>1
<1> QED BY <1>1, <1>3, <1>4 DEF Backed

LEMMA AuthorisedInvNext ==
    IInv /\ IInv' /\ AuthorisedInv /\ [Next]_vars => AuthorisedInv'
<1> SUFFICES ASSUME IInv, IInv', AuthorisedInv, [Next]_vars,
                    NEW q \in Requests, won'[q]
             PROVE  /\ ver'[q] \in 1..ledger'
                    /\ pc'[q] = "session" \/ token'[q] # None => Backed(q)'
  BY DEF AuthorisedInv
<1>1. CASE won[q]
  <2>1. ver[q] \in 1..ledger
    BY <1>1 DEF AuthorisedInv
  <2>2. ver'[q] \in 1..ledger' /\ (Backed(q) => Backed(q)')
    BY <1>1, <2>1, BackedStays
  <2>3. ASSUME pc'[q] = "session" \/ token'[q] # None PROVE Backed(q)
    <3>1. CASE pc[q] = "session" \/ token[q] # None
      BY <1>1, <3>1 DEF AuthorisedInv
    <3>2. CASE Lookup(q) /\ ~(pc[q] = "session" \/ token[q] # None)
      BY <2>3, <3>2, LookupBacks DEF Lookup
    <3> QED BY <2>3, <3>1, <3>2, NewlyBacked
  <2> QED BY <2>2, <2>3
<1>2. CASE ~won[q]
  <2>1. ver'[q] = ledger /\ ledger' = ledger /\ pc'[q] # "session"
    BY <1>2, NewlyWon
  <2>2. ledger \in 1..ledger
    BY ServerAssumption DEF IInv, TypeInv, TypeOK
  <2>3. token'[q] = None
    <3>1. SUFFICES ASSUME token'[q] # None PROVE FALSE
      OBVIOUS
    <3>2. Lookup(q)
      BY <1>2, <3>1, NewlyBacked
    <3> QED BY <1>2, <3>2 DEF Lookup, history
  <2> QED BY <2>1, <2>2, <2>3
<1> QED BY <1>1, <1>2

\* For any signers, weights, thresholds and signature lists, and any changes of
\* them on the ledger meanwhile: POST /auth gives a token out only for signatures
\* that VerifyClient found to authorise it under a state of the ledger no older
\* than the UPDATE that spent the challenge.
THEOREM TokensAreAuthorised == Spec => []TokenIsAuthorised
<1>1. Init => AuthorisedInv
  BY DEF Init, AuthorisedInv
<1>2. Spec => []AuthorisedInv
  BY <1>1, IInvNext, Invariance, AuthorisedInvNext, PTL DEF Spec
<1>3. IInv /\ AuthorisedInv => TokenIsAuthorised
  BY DEF IInv, OneSpenderInv, AuthorisedInv, Backed, TokenIsAuthorised
<1> QED BY <1>2, <1>3, Invariance, PTL
-----------------------------------------------------------------------------
(* AuthServer implements OneTimeAuth: a step of the server is an Issue, a   *)
(* Spend or a Grant of the abstract specification, or changes nothing the   *)
(* abstraction can see.                                                     *)

\* The spender the invariant makes unique is the one Winner names, before and
\* after a step.
LEMMA WinnerIs ==
    ASSUME OneSpenderInv, NEW r \in Requests, NEW n, won[r], nonce[r] = n
    PROVE  Winner(n) = r
<1>1. \A s \in Requests : won[s] /\ nonce[s] = n => s = r
  BY DEF OneSpenderInv
<1>2. (CHOOSE s \in Requests : won[s] /\ nonce[s] = n) = r
  BY <1>1, Zenon
<1> QED
  BY <1>2 DEF Winner

LEMMA WinnerIsNext ==
    ASSUME OneSpenderInv', NEW r \in Requests, NEW n, won'[r], nonce'[r] = n
    PROVE  Winner(n)' = r
<1>1. \A s \in Requests : won'[s] /\ nonce'[s] = n => s = r
  BY DEF OneSpenderInv
<1>2. (CHOOSE s \in Requests : won'[s] /\ nonce'[s] = n) = r
  BY <1>1, Zenon
<1> QED
  BY <1>2 DEF Winner

\* Winners stay what they are while the requests that have won stay the same
\* and keep their nonce.
LEMMA WinnerKept ==
    ASSUME OneSpenderInv, OneSpenderInv', NEW n,
           \A r \in Requests : won'[r] /\ nonce'[r] = n
                               <=> won[r] /\ nonce[r] = n
    PROVE  Winner(n)' = Winner(n)
<1>1. CASE \E r \in Requests : won[r] /\ nonce[r] = n
  <2>1. PICK r \in Requests : won[r] /\ nonce[r] = n
    BY <1>1
  <2>2. won'[r] /\ nonce'[r] = n
    BY <2>1
  <2> QED
    BY <2>1, <2>2, WinnerIs, WinnerIsNext
<1>2. CASE ~\E r \in Requests : won[r] /\ nonce[r] = n
  BY <1>2 DEF Winner
<1> QED
  BY <1>1, <1>2

-----------------------------------------------------------------------------
(* What a step does to the abstract state *)

\* The four abstract variables, and the step that leaves them all alone.
SubjectMap == [n \in Nonces |-> SubjectOf(tx[n])]
OwnerMap == [n \in Nonces |-> Winner(n)]
GrantMap == [n \in Nonces |-> SubjectOf(sessions[n])]
ShownMap == [r \in Requests |-> SubjectOf(token[r])]

Unseen == UNCHANGED <<SubjectMap, OwnerMap, GrantMap, ShownMap>>

LEMMA OwnerKept ==
    ASSUME IInv, IInv', won' = won,
           \A r \in Requests : won[r] => nonce'[r] = nonce[r]
    PROVE  OwnerMap' = OwnerMap
<1>1. \A n \in Nonces : Winner(n)' = Winner(n)
  <2> SUFFICES ASSUME NEW n \in Nonces PROVE Winner(n)' = Winner(n)
    OBVIOUS
  <2>1. \A r \in Requests : won'[r] /\ nonce'[r] = n
                             <=> won[r] /\ nonce[r] = n
    BY Zenon
  <2> QED
    BY <2>1, WinnerKept DEF IInv
<1> QED
  BY <1>1 DEF OwnerMap

\* Steps that touch neither transactions, sessions, tokens nor winners.
LEMMA UnseenIf ==
    ASSUME IInv, IInv', tx' = tx, sessions' = sessions, token' = token,
           won' = won, \A r \in Requests : won[r] => nonce'[r] = nonce[r]
    PROVE  Unseen
<1>1. OwnerMap' = OwnerMap
  BY OwnerKept
<1> QED
  BY <1>1 DEF Unseen, SubjectMap, GrantMap, ShownMap

LEMMA SubjectType ==
    ASSUME NEW x \in Challenge
    PROVE  SubjectOf(x) \in Subjects /\ SubjectOf(x) # None
<1>1. SubjectOf(x) \in Subjects
  BY NoneAssumption DEF SubjectOf, Subjects, Challenge
<1> QED
  BY <1>1, NoneAssumption

LEMMA IssueStep ==
    ASSUME IInv, IInv', NEW r \in Requests, GetIssue(r)
    PROVE  \E n \in Nonces : \E s \in Subjects : Abstract!Issue(n, s)
<1> USE DEF IInv, TypeInv, TypeOK, LinkInv
<1>1. PICK n \in Nonces : /\ tx[n] = None
                          /\ tx'[n] # None
                          /\ \A m \in Nonces \ {n} : tx'[m] = tx[m]
  <2>1. PICK q \in Queries : \E key \in Resolutions(q) : \E n \in Nonces :
               /\ tx[n] = None
               /\ IssueError(q, key) = "ok"
               /\ tx' = [tx EXCEPT ![n] = BuildChallenge(q, key, LocalTime(r))]
               /\ nonce' = [nonce EXCEPT ![r] = n]
    BY Zenon DEF GetIssue
  <2>2. PICK key \in Resolutions(q), n \in Nonces :
               /\ tx[n] = None
               /\ IssueError(q, key) = "ok"
               /\ tx' = [tx EXCEPT ![n] = BuildChallenge(q, key, LocalTime(r))]
               /\ nonce' = [nonce EXCEPT ![r] = n]
    BY <2>1, Zenon
  <2>3. BuildChallenge(q, key, LocalTime(r)) \in Challenge
    BY <2>2, ResolutionType, IssueType, LocalTimes
  <2> QED
    BY <2>2, <2>3, NoneAssumption
<1>2. SubjectOf(tx'[n]) \in Subjects
  <2>1. tx'[n] \in Challenge
    BY <1>1
  <2> QED
    BY <2>1, SubjectType
<1>3. SubjectMap[n] = None
  BY <1>1 DEF SubjectMap, SubjectOf
<1>4. SubjectMap' = [SubjectMap EXCEPT ![n] = SubjectOf(tx'[n])]
  BY <1>1 DEF SubjectMap, SubjectOf
<1>5. OwnerMap' = OwnerMap
  <2>1. ~won[r] /\ won' = won
    BY DEF GetIssue, history, SpenderInv
  <2>2. \A s \in Requests : won[s] => nonce'[s] = nonce[s]
    BY <2>1 DEF GetIssue
  <2> QED
    BY <2>1, <2>2, OwnerKept
<1>6. GrantMap' = GrantMap /\ ShownMap' = ShownMap
  BY DEF GetIssue, store, GrantMap, ShownMap
<1>7. Abstract!Issue(n, SubjectOf(tx'[n]))
  BY <1>3, <1>4, <1>5, <1>6
     DEF Abstract!Issue, SubjectMap, OwnerMap, GrantMap, ShownMap
<1> QED
  BY <1>2, <1>7

LEMMA SpendStep ==
    ASSUME IInv, IInv', NEW r \in Requests, ConsumeWins(r) \/ ConsumeErrs(r),
           Spend(r)
    PROVE  \E n \in Nonces : Abstract!Spend(n, r)
<1> USE DEF IInv, TypeInv, TypeOK, LinkInv, StoreTypeOK, InFlight
<1> DEFINE n == nonce[r]
<1>1. /\ pc[r] = "update" /\ n \in Nonces /\ n \in held /\ ~won[r]
      /\ tx' = tx /\ token' = token /\ sessions' = sessions
      /\ nonce' = nonce
  BY DEF ConsumeWins, ConsumeErrs, Spend, MarkConsumed, SpenderInv, Presented,
         locals
<1>2. \A s \in Requests : won[s] => nonce[s] # n
  BY DEF Spend, MarkConsumed, Consumable, SpenderInv
<1>3. won' = [won EXCEPT ![r] = TRUE]
  BY DEF Spend
<1>4. SubjectMap[n] # None
  <2>1. tx[n] \in Challenge
    BY <1>1
  <2> QED
    BY <1>1, <2>1, SubjectType DEF SubjectMap
<1>5. OwnerMap[n] = None
  BY <1>1, <1>2 DEF OwnerMap, Winner
<1>6. \A m \in Nonces : OwnerMap[m] # r
  <2> SUFFICES ASSUME NEW m \in Nonces PROVE Winner(m) # r
    BY DEF OwnerMap
  <2>1. CASE \E s \in Requests : won[s] /\ nonce[s] = m
    <3>1. PICK s \in Requests : won[s] /\ nonce[s] = m
      BY <2>1
    <3>2. Winner(m) = s
      BY <3>1, WinnerIs
    <3> QED
      BY <1>1, <3>1, <3>2
  <2>2. CASE ~\E s \in Requests : won[s] /\ nonce[s] = m
    BY <2>2, ServerAssumption DEF Winner
  <2> QED
    BY <2>1, <2>2
<1>7. OwnerMap' = [OwnerMap EXCEPT ![n] = r]
  <2>1. Winner(n)' = r
    BY <1>1, <1>3, WinnerIsNext
  <2>2. ASSUME NEW m \in Nonces, m # n PROVE Winner(m)' = Winner(m)
    <3>1. \A s \in Requests : won'[s] /\ nonce'[s] = m
                               <=> won[s] /\ nonce[s] = m
      BY <1>1, <1>3, <2>2
    <3> QED
      BY <3>1, WinnerKept
  <2> QED
    BY <1>1, <2>1, <2>2 DEF OwnerMap
<1>8. UNCHANGED <<SubjectMap, GrantMap, ShownMap>>
  BY <1>1 DEF SubjectMap, GrantMap, ShownMap
<1>9. Abstract!Spend(n, r)
  BY <1>4, <1>5, <1>6, <1>7, <1>8
     DEF Abstract!Spend, SubjectMap, OwnerMap, GrantMap, ShownMap
<1> QED
  BY <1>1, <1>9

LEMMA GrantStep ==
    ASSUME IInv, IInv', NEW r \in Requests, SessionOk(r) \/ SessionErrs(r),
           RecordSession(nonce[r], SessionFor(r))
    PROVE  \E n \in Nonces : Abstract!Grant(n, r)
<1> USE DEF IInv, TypeInv, TypeOK, LinkInv, StoreTypeOK, InFlight
<1> DEFINE n == nonce[r]
<1>1. /\ pc[r] = "session" /\ n \in Nonces /\ tx[n] # None /\ won[r]
      /\ tx' = tx /\ won' = won /\ nonce' = nonce
      /\ sessions[n] = None
      /\ sessions' = [sessions EXCEPT ![n] = SessionFor(r)]
  BY DEF SessionOk, SessionErrs, RecordSession, OneSpenderInv, locals, history
<1>2. SessionFor(r) # None /\ TokenFor(r) # None
  BY <1>1, SessionType, NoneAssumption
<1>3. /\ SubjectOf(SessionFor(r)) = SubjectOf(tx[n])
      /\ SubjectOf(TokenFor(r)) = SubjectOf(tx[n])
  BY <1>1, <1>2 DEF SubjectOf, SessionFor, TokenFor
<1>4. OwnerMap[n] = r
  BY <1>1, WinnerIs DEF OwnerMap
<1>5. GrantMap[n] = None
  BY <1>1 DEF GrantMap, SubjectOf
<1>6. GrantMap' = [GrantMap EXCEPT ![n] = SubjectMap[n]]
  BY <1>1, <1>3 DEF GrantMap, SubjectMap
<1>7. \/ ShownMap' = [ShownMap EXCEPT ![r] = SubjectMap[n]]
      \/ ShownMap' = ShownMap
  <2>1. CASE SessionOk(r)
    BY <1>1, <1>3, <2>1 DEF SessionOk, ShownMap, SubjectMap
  <2>2. CASE SessionErrs(r)
    BY <2>2 DEF SessionErrs, ShownMap
  <2> QED
    BY <2>1, <2>2
<1>8. SubjectMap' = SubjectMap /\ OwnerMap' = OwnerMap
  BY <1>1, OwnerKept DEF SubjectMap
<1>9. Abstract!Grant(n, r)
  BY <1>4, <1>5, <1>6, <1>7, <1>8
     DEF Abstract!Grant, SubjectMap, OwnerMap, GrantMap, ShownMap
<1> QED
  BY <1>1, <1>9

-----------------------------------------------------------------------------
(* The implementation *)

LEMMA AbstractInit == Init => Abstract!Init
  BY DEF Init, StoreInit, Abstract!Init, SubjectOf, Winner

LEMMA AbstractStep ==
    ASSUME IInv, IInv', [Next]_vars
    PROVE  Abstract!Next \/ Unseen
<1> USE DEF store, world, locals, history
<1>1. ASSUME NEW r \in Requests, Arrive(r) PROVE Abstract!Next \/ Unseen
  <2>1. CASE GetIssue(r)
    BY <2>1, IssueStep DEF Abstract!Next
  <2>2. CASE GetRefuse(r) \/ PostReject(r)
    BY <2>2, UnseenIf DEF GetRefuse, PostReject
  <2>3. CASE PostRead(r)
    <3>1. ~won[r]
      BY <2>3 DEF PostRead, IInv, SpenderInv
    <3>2. \A s \in Requests : won[s] => nonce'[s] = nonce[s]
      BY <2>3, <3>1 DEF PostRead, IInv, TypeInv, TypeOK
    <3> QED
      BY <2>3, <3>2, UnseenIf DEF PostRead
  <2> QED
    BY <1>1, <2>1, <2>2, <2>3 DEF Arrive
<1>2. ASSUME NEW r \in Requests, Proceed(r) PROVE Abstract!Next \/ Unseen
  <2>1. CASE RecordOk(r) \/ RecordFails(r)
    BY <2>1, UnseenIf DEF RecordOk, RecordFails, Insert, RecordChallenge
  <2>2. CASE Stamp(r) \/ ConsumeMisses(r) \/ Classify(r) \/ ClassifyErrs(r)
    BY <2>2, UnseenIf DEF Stamp, ConsumeMisses, Classify, ClassifyErrs
  <2>3. CASE Lookup(r) \/ LookupFails(r) \/ Fault(r)
    BY <2>3, UnseenIf DEF Lookup, LookupFails, Fault
  <2>4. CASE ConsumeWins(r)
    BY <2>4, SpendStep DEF ConsumeWins, Abstract!Next
  <2>5. CASE ConsumeErrs(r)
    <3>1. CASE Spend(r)
      BY <2>5, <3>1, SpendStep DEF Abstract!Next
    <3>2. CASE UNCHANGED <<store, history>>
      BY <2>5, <3>2, UnseenIf DEF ConsumeErrs
    <3> QED
      BY <2>5, <3>1, <3>2 DEF ConsumeErrs
  <2>6. CASE SessionOk(r)
    BY <2>6, GrantStep DEF SessionOk, Abstract!Next
  <2>7. CASE SessionErrs(r)
    <3>1. CASE RecordSession(nonce[r], SessionFor(r))
      BY <2>7, <3>1, GrantStep DEF Abstract!Next
    <3>2. CASE UNCHANGED store
      BY <2>7, <3>2, UnseenIf DEF SessionErrs
    <3> QED
      BY <2>7, <3>1, <3>2 DEF SessionErrs
  <2> QED
    BY <1>2, <2>1, <2>2, <2>3, <2>4, <2>5, <2>6, <2>7 DEF Proceed
<1>3. ASSUME NEW p \in Processes, Background(p) PROVE Unseen
  BY <1>3, UnseenIf
     DEF Background, SweepTick, SweepDelete, SweepFails, DeleteExpired, Crash
<1>4. CASE Tick \/ LedgerClose \/ UNCHANGED vars
  BY <1>4, UnseenIf DEF Tick, LedgerClose, vars
<1> QED
  BY <1>1, <1>2, <1>3, <1>4 DEF Next

\* The handlers over the store, with the cleanup goroutine, failing calls and
\* crashes, implement OneTimeAuth: every challenge is spent at most once, by one
\* request, and only that request's session and token follow, for the subject
\* the server signed.
THEOREM Implementation == Spec => ImplementsOneTimeAuth
<1>1. IInv /\ IInv' /\ [Next]_vars => [Abstract!Next]_(Abstract!vars)
  BY AbstractStep
     DEF Unseen, Abstract!vars, SubjectMap, OwnerMap, GrantMap, ShownMap
<1> QED
  BY <1>1, AbstractInit, Invariance, PTL
     DEF Spec, ImplementsOneTimeAuth, Abstract!Spec
=============================================================================
