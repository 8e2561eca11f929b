--------------------------- MODULE ChallengeStore ---------------------------
(***************************************************************************)
(* internal/store/postgres.go: the challenges and sessions tables.         *)
(*                                                                         *)
(* Each operator with a prime is one SQL statement and takes effect        *)
(* atomically; a method of the code that runs two statements is two        *)
(* operators here.  A table maps its primary key to a row, or to None.     *)
(***************************************************************************)
EXTENDS Sep10

VARIABLES challenges, sessions

StoreTypeOK ==
    /\ challenges \in [Nonces -> Orelse(ChallengeRow)]
    /\ sessions \in [Nonces -> Orelse(SessionRow)]

StoreInit ==
    /\ challenges = [n \in Nonces |-> None]
    /\ sessions = [n \in Nonces |-> None]

\* RecordChallenge's INSERT; the primary key refuses a second row.
RecordChallenge(n, c, t, expires) ==
    /\ challenges[n] = None
    /\ challenges' = [challenges EXCEPT ![n] =
         [account |-> c.account, home |-> c.home, domain |-> c.domain,
          issuedAt |-> t, expiresAt |-> expires, consumedAt |-> None]]
    /\ UNCHANGED sessions

\* Replay and expiry faults of the consume statement, one clause dropped each.
Consumable_replay(n, t) ==
    challenges[n] # None /\ challenges[n].expiresAt >= t
Consumable_late(n, t) ==
    challenges[n] # None /\ challenges[n].consumedAt = None

\* The WHERE clause of ConsumeChallenge's UPDATE.
Consumable(n, t) ==
    /\ challenges[n] # None
    /\ challenges[n].consumedAt = None
    /\ challenges[n].expiresAt >= t

\* The UPDATE itself, when its WHERE clause matches.
MarkConsumed(n, t) ==
    /\ Consumable(n, t)
    /\ challenges' = [challenges EXCEPT ![n].consumedAt = t]
    /\ UNCHANGED sessions

\* classifyFailure's SELECT and the switch on its row.
classifyFailure(n, t) ==
    IF challenges[n] = None
      THEN "ChallengeUnknown"
    ELSE IF challenges[n].consumedAt # None
      THEN "ChallengeConsumed"
    ELSE IF challenges[n].expiresAt < t
      THEN "ChallengeExpired"
    ELSE "ChallengeConsumed"

\* RecordSession's INSERT; sessions are never updated or deleted.
RecordSession(n, row) ==
    /\ sessions[n] = None
    /\ sessions' = [sessions EXCEPT ![n] = row]
    /\ UNCHANGED challenges

\* A sweep that also takes the rows in their last instant.
Sweepable_early(n, before) ==
    challenges[n] # None /\ challenges[n].expiresAt <= before

\* A sweep that spares the consumed rows.
Sweepable_unconsumed(n, before) ==
    /\ challenges[n] # None
    /\ challenges[n].consumedAt = None
    /\ challenges[n].expiresAt < before

\* The WHERE clause of DeleteExpiredChallenges.
Sweepable(n, before) ==
    challenges[n] # None /\ challenges[n].expiresAt < before

\* DeleteExpiredChallenges' DELETE.
DeleteExpired(before) ==
    /\ challenges' = [n \in Nonces |->
         IF Sweepable(n, before) THEN None ELSE challenges[n]]
    /\ UNCHANGED sessions
=============================================================================
