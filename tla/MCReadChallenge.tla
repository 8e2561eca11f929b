-------------------------- MODULE MCReadChallenge --------------------------
(***************************************************************************)
(* Envelopes with every kind of first operation and every sequence of up   *)
(* to three further ones, each kind of fault in the transaction around     *)
(* them, and the challenges the server itself builds.                      *)
(***************************************************************************)
EXTENDS ReadChallenge

CONSTANTS alice, wallet, m, h1, h2, d1, d2, memo, n1, n2

MCKeys == {alice, wallet, Server}
MCBaseOf == [a \in {m} |-> alice]
MCPublished == [d \in {d1, d2} |-> {wallet, Server}]

FirstOps ==
    {ManageData(alice, h1, n1), ManageData(m, h2, n1),
     ManageData(alice, Other, n1), ManageData(alice, h1, Other),
     ManageData(None, h1, n1),
     [ManageData(alice, h1, n1) EXCEPT !.data = FALSE]}

FurtherOps ==
    {ManageData(Server, "web_auth_domain", WebAuthDomain),
     ManageData(Server, "web_auth_domain", Other),
     ManageData(alice, "web_auth_domain", WebAuthDomain),
     ManageData(wallet, "client_domain", d1),
     ManageData(alice, "client_domain", d2),
     ManageData(Server, "client_domain", d1),
     ManageData(m, "client_domain", d1),
     ManageData(wallet, "client_domain", None),
     ManageData(Server, Other, Other), ManageData(alice, Other, Other),
     ManageData(Server, h1, n2), ManageData(None, Other, Other),
     [ManageData(Server, Other, Other) EXCEPT !.data = FALSE]}

Base(ops) ==
    [parses |-> TRUE, source |-> Server, sequence |-> 0, minTime |-> 2,
     maxTime |-> 3, memo |-> None, ops |-> ops, sigs |-> <<Server, alice>>]

\* Every operation list, in a faultless transaction.
Shapes ==
    {Base(<<f>> \o rest) : f \in FirstOps,
        rest \in BoundedSeq(FurtherOps, 2)}
    \cup {Base(<<ManageData(alice, h1, n1)>> \o rest) :
            rest \in SeqOf(FurtherOps, 3)}

\* Every combination of faults in the transaction, around good operations.
Headers ==
    {[parses |-> p, source |-> s, sequence |-> q, minTime |-> 2, maxTime |-> x,
      memo |-> mm, ops |-> o, sigs |-> g] :
        p \in BOOLEAN, s \in {Server, alice}, q \in {0, 1}, x \in {0, 3},
        mm \in {None, memo, Other}, g \in {<<>>, <<alice>>, <<Server>>},
        o \in {<<>>, <<ManageData(alice, h1, n1)>>, <<ManageData(m, h2, n2)>>}}

MCEnvelopes == Shapes \cup Headers

Ask(a, mm, h, d) == [account |-> a, memo |-> mm, home |-> h, domain |-> d]
MCIssuable ==
    {Ask(alice, mm, h, d) : mm \in {None, memo}, h \in {None, h1, h2},
                            d \in {None, d1, d2}}
    \cup {Ask(m, None, h, d) : h \in {None, h2}, d \in {None, d1, d2}}
MCSigLists == {<<Server, alice>>, <<Server, alice, wallet>>, <<alice>>}
=============================================================================
