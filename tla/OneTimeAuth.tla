----------------------------- MODULE OneTimeAuth -----------------------------
(***************************************************************************)
(* What the exchange promises, without databases, clocks or failures.      *)
(*                                                                         *)
(* A challenge is issued for one subject.  At most one request ever spends *)
(* it, only that request can have a grant written down for it, the grant   *)
(* names the subject the challenge was issued for, and a token is shown to *)
(* nobody but the spender, at the moment its grant is written down.        *)
(***************************************************************************)
CONSTANTS Nonces, Requests, Subjects, None

VARIABLES
    subject,  \* whom each issued challenge is for
    owner,    \* the request that spent it
    granted,  \* the subject of the grant on record for it
    shown     \* the subject of the token each request was shown

vars == <<subject, owner, granted, shown>>

Init ==
    /\ subject = [n \in Nonces |-> None]
    /\ owner = [n \in Nonces |-> None]
    /\ granted = [n \in Nonces |-> None]
    /\ shown = [r \in Requests |-> None]

Issue(n, s) ==
    /\ subject[n] = None
    /\ subject' = [subject EXCEPT ![n] = s]
    /\ UNCHANGED <<owner, granted, shown>>

Spend(n, r) ==
    /\ subject[n] # None
    /\ owner[n] = None
    /\ \A m \in Nonces : owner[m] # r
    /\ owner' = [owner EXCEPT ![n] = r]
    /\ UNCHANGED <<subject, granted, shown>>

Grant(n, r) ==
    /\ owner[n] = r
    /\ granted[n] = None
    /\ granted' = [granted EXCEPT ![n] = subject[n]]
    /\ \/ shown' = [shown EXCEPT ![r] = subject[n]]
       \/ UNCHANGED shown
    /\ UNCHANGED <<subject, owner>>

Next ==
    \E n \in Nonces :
        \/ \E s \in Subjects : Issue(n, s)
        \/ \E r \in Requests : Spend(n, r) \/ Grant(n, r)

Spec == Init /\ [][Next]_vars
=============================================================================
