---------------------------- MODULE MCAuthServer ----------------------------
(***************************************************************************)
(* Small instances of AuthServer.  Alice's account exists and rotates its  *)
(* signers when the ledger closes; bob's does not exist; wallet is the key *)
(* of a client domain and, to begin with, also a signer of alice's         *)
(* account.  Requests run on one process, or on a slow and a fast one.     *)
(***************************************************************************)
EXTENDS AuthServer

CONSTANTS slow, fast, OnSlow

MCHost == [r \in Requests |-> IF r \in OnSlow THEN slow ELSE fast]
MCSkew == [p \in Processes |-> IF p = slow THEN 0 ELSE MaxSkew]

CONSTANTS alice, bob, cosigner, wallet, m, hash, d1, long, h1, h2, memo

MCKeys == {alice, bob, cosigner, wallet, Server}
MCBaseOf == [a \in {m} |-> alice]
MCPublished == [d \in {d1, long} |-> {wallet, Server}]

\* One account of each shape: multisig with a hash signer and the wallet and
\* the server among its signers, then alone with cosigner removed.
Multisig == [signers |-> (alice :> 1) @@ (cosigner :> 1) @@ (wallet :> 1)
                           @@ (Server :> 2) @@ (hash :> 2),
             med |-> 2]
Alone == [signers |-> (alice :> 2), med |-> 2]
MCLedgers ==
    <<[k \in MCKeys |-> IF k = alice THEN Multisig ELSE None],
      [k \in MCKeys |-> IF k = alice THEN Alone ELSE None]>>

\* For the races, which do not depend on it, a ledger that never changes.
StillLedger == SubSeq(MCLedgers, 1, 1)

Ask(a, mm, h, d) == [account |-> a, memo |-> mm, home |-> h, domain |-> d]

\* Races are run on one query that succeeds; refusals on one of each kind.
GoodQueries == {Ask(alice, None, h2, d1)}
AllQueries ==
    {Ask(alice, memo, None, None), Ask(m, None, h2, d1), Ask(bob, None, h1, d1),
     Ask(None, None, None, None), Ask(Garbage, None, None, None),
     Ask(alice, Garbage, None, None), Ask(m, memo, None, None),
     Ask(alice, None, Garbage, None), Ask(alice, None, None, long)}

GoodSigs == {<<Server, alice, cosigner, wallet>>}
AllSigs ==
    {<<Server, alice>>, <<Server, bob>>, <<Server, wallet>>,
     <<Server, alice, wallet>>, <<Server, bob, wallet>>, <<alice>>,
     <<Server, alice, cosigner>>, <<Server, alice, cosigner, wallet>>,
     <<Server, alice, alice>>, <<Server, Server, alice>>}

Symmetry == Permutations(OnSlow) \cup Permutations(Requests \ OnSlow)
=============================================================================
