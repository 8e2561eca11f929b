-------------------------- MODULE ChallengeReader --------------------------
(***************************************************************************)
(* internal/auth/read.go on a transaction this server signed, in one step: *)
(* the client can add and strip signatures and change nothing else.  The   *)
(* whole function, on any envelope, is ReadChallenge; that the two agree   *)
(* is a property of that module.                                           *)
(***************************************************************************)
EXTENDS ChallengeIssuer, SequencesExt

CONSTANT ClockGrace     \* clockGracePeriod, in seconds

ASSUME ReaderAssumption == ClockGrace \in Nat

\* The time bounds as ReadChallenge compares them, in Unix seconds.
InTimebounds(c, t) ==
    /\ Unix(t) + ClockGrace >= c.minTime
    /\ Unix(t) <= c.maxTime

\* A client domain that published the server's own key was let through by
\* Issue and is refused here.
ReadError(c, signatures, t) ==
    IF ~InTimebounds(c, t)
      THEN "ChallengeExpired"
    ELSE IF c.key = Server \/ Server \notin ToSet(signatures)
      THEN "ChallengeMalformed"
    ELSE "ok"
=============================================================================
