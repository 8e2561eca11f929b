-------------------------- MODULE MCSignatureLoop --------------------------
EXTENDS SignatureLoop

CONSTANTS alice, bob, wallet, hash, h1, h2

MCKeys == {alice, bob, wallet, Server}
MCBaseOf == [a \in {} |-> alice]

\* bob's key and the wallet's share alice's hint.
MCHintOf == [k \in MCKeys |-> IF k = Server THEN h2 ELSE h1]

MCSignerLists ==
    {<<>>, <<alice>>, <<hash, alice>>, <<alice, bob>>, <<bob, alice>>,
     <<Server, alice>>, <<wallet, alice>>, <<Server>>, <<alice, bob, wallet>>}

\* A good signature of each key, one of alice's with a wrong hint, and one that
\* has her hint and verifies under no key.
Good(k) == [hint |-> MCHintOf[k], by |-> k]

MCSignatures ==
    {Good(k) : k \in MCKeys}
      \cup {[hint |-> h2, by |-> alice], [hint |-> h1, by |-> None]}

MCSignatureLists == SeqOf(MCSignatures, 3)
=============================================================================
