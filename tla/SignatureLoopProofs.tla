------------------------ MODULE SignatureLoopProofs ------------------------
(***************************************************************************)
(* Proofs about SignatureLoop for every list of signers and signatures and *)
(* every assignment of hints to keys.                                      *)
(***************************************************************************)
EXTENDS SignatureLoop, TLAPS

\* The signers add has been called with.
Offered ==
    {signers[x] : x \in 1..(next - 1) \cap 1..Len(signers)}
      \cup (IF next = Len(signers) + 2 THEN {cdKey} ELSE {})

\* The list of candidates: the server first, nobody twice, and of those offered
\* the ones that can sign.
AllInv ==
    /\ Len(all) >= 1 /\ all[1] = Server
    /\ \A x, y \in 1..Len(all) : all[x] = all[y] => x = y
    /\ ToSet(all) = (Offered \cap Keys) \cup {Server}
    /\ pc # "add" => next = Len(signers) + 2

Signed(k) == \E j \in 1..Len(signatures) : Fits(signatures[j], k)

\* The loops: a signature is consumed for a signer already behind, the signers
\* behind are matched if they signed, and the one being tried has no signature
\* before the present one.
LoopInv ==
    /\ pc = "add" => s = 1 /\ i = 1 /\ used = {} /\ matched = {}
    /\ s <= Len(all) + 1
    /\ \A j \in used : \E x \in 1..(s - 1) : Fits(signatures[j], all[x])
    /\ matched = {all[x] : x \in {y \in 1..(s - 1) : Signed(all[y])}}
    /\ s <= Len(all) =>
         \A j \in 1..(i - 1) :
           j <= Len(signatures) => ~Fits(signatures[j], all[s])

PolicyInv == VerdictIsThePolicy

SInv == TypeOK /\ AllInv /\ LoopInv /\ PolicyInv

USE DEF Orelse, input

LEMMA ToSetIs == \A q : ToSet(q) = {q[x] : x \in DOMAIN q}
  BY DEF ToSet

LEMMA SInvInit == Init => TypeOK /\ AllInv /\ LoopInv /\ PolicyInv
<1> SUFFICES ASSUME Init PROVE TypeOK /\ AllInv /\ LoopInv /\ PolicyInv
  OBVIOUS
<1>1. TypeOK
  BY LoopAssumption, IdentityAssumption DEF Init, TypeOK
<1>2. AllInv
  <2>1. Len(all) = 1 /\ all[1] = Server /\ DOMAIN all = {1}
    BY DEF Init
  <2>2. Offered = {}
    BY <1>1 DEF Init, Offered, TypeOK
  <2> QED
    BY <2>1, <2>2, ToSetIs DEF Init, AllInv
<1>3. LoopInv
  BY DEF Init, LoopInv
<1> QED
  BY <1>1, <1>2, <1>3 DEF Init, PolicyInv, VerdictIsThePolicy

LEMMA TypeNext == TypeOK /\ LoopInv /\ [Next]_vars => TypeOK'
<1> SUFFICES ASSUME TypeOK, LoopInv, [Next]_vars PROVE TypeOK'
  OBVIOUS
<1> USE DEF TypeOK
<1>1. CASE Add
  <2>1. all' \in Seq(Keys)
    BY <1>1 DEF Add, Addable
  <2> QED
    BY <1>1, <2>1 DEF Add
<1>2. CASE Added
  BY <1>2 DEF Added, Verdicts
<1>3. CASE Take
  BY <1>3 DEF Take, Trying
<1>4. CASE Skip \/ NextSigner
  <2>1. s' \in Nat \ {0} /\ i' \in Nat \ {0}
    BY <1>4 DEF Skip, NextSigner
  <2> QED
    BY <1>4, <2>1 DEF Skip, NextSigner
<1>5. CASE Judge
  BY <1>5 DEF Judge, Judgement, Verdicts
<1>6. CASE Done \/ UNCHANGED vars
  BY <1>6 DEF Done, vars
<1> QED
  BY <1>1, <1>2, <1>3, <1>4, <1>5, <1>6 DEF Next

LEMMA AllNext == TypeOK /\ AllInv /\ TypeOK' /\ [Next]_vars => AllInv'
<1> SUFFICES ASSUME TypeOK, AllInv, TypeOK', [Next]_vars PROVE AllInv'
  OBVIOUS
<1>1. CASE Add
  <2> DEFINE signer == IF next <= Len(signers) THEN signers[next] ELSE cdKey
  <2>1. /\ pc' = "add" /\ pc = "add"
        /\ all' = IF Addable(signer) THEN Append(all, signer) ELSE all
        /\ next' = next + 1 /\ next \in 1..(Len(signers) + 1)
        /\ signers' = signers /\ cdKey' = cdKey
    BY <1>1 DEF Add, TypeOK
  <2>2. Offered' = Offered \cup {signer}
    <3>1. CASE next <= Len(signers)
      <4>1. 1..(next' - 1) \cap 1..Len(signers)
              = (1..(next - 1) \cap 1..Len(signers)) \cup {next}
        BY <2>1, <3>1 DEF TypeOK
      <4>2. next' # Len(signers) + 2 /\ next # Len(signers) + 2
        BY <2>1, <3>1 DEF TypeOK
      <4> QED
        BY <2>1, <3>1, <4>1, <4>2 DEF Offered
    <3>2. CASE next = Len(signers) + 1
      <4>1. 1..(next' - 1) \cap 1..Len(signers)
              = 1..(next - 1) \cap 1..Len(signers)
        BY <2>1, <3>2 DEF TypeOK
      <4>2. next' = Len(signers) + 2 /\ next # Len(signers) + 2
              /\ ~(next <= Len(signers))
        BY <2>1, <3>2 DEF TypeOK
      <4> QED
        BY <2>1, <4>1, <4>2 DEF Offered
    <3> QED
      BY <2>1, <3>1, <3>2 DEF TypeOK
  <2> HIDE DEF signer
  <2>3. CASE Addable(signer)
    <3>1. /\ signer \in Keys /\ all \in Seq(Keys)
          /\ all' = Append(all, signer)
          /\ \A x \in 1..Len(all) : all[x] # signer
      BY <2>1, <2>3 DEF Addable, TypeOK
    <3>2. /\ Len(all') = Len(all) + 1
          /\ \A x \in 1..Len(all) : all'[x] = all[x]
          /\ all'[Len(all) + 1] = signer
          /\ DOMAIN all' = 1..(Len(all) + 1)
          /\ DOMAIN all = 1..Len(all)
      BY <3>1
    <3>3. ToSet(all') = ToSet(all) \cup {signer}
      BY <3>2, ToSetIs
    <3>4. \A x, y \in 1..Len(all') : all'[x] = all'[y] => x = y
      BY <3>1, <3>2 DEF AllInv
    <3> QED
      BY <2>1, <2>2, <3>1, <3>2, <3>3, <3>4 DEF AllInv
  <2>4. CASE ~Addable(signer)
    <3>1. all' = all /\ (signer \in Keys => signer \in ToSet(all))
      BY <2>1, <2>4, ToSetIs DEF Addable, TypeOK
    <3> QED
      BY <2>1, <2>2, <3>1 DEF AllInv
  <2> QED
    BY <2>3, <2>4
<1>2. CASE Added \/ Take \/ Skip \/ NextSigner \/ Judge \/ Done \/ UNCHANGED vars
  BY <1>2
     DEF Added, Take, Skip, NextSigner, Judge, Done, vars, Trying, AllInv, Offered
<1> QED
  BY <1>1, <1>2 DEF Next

LEMMA LoopNext == TypeOK /\ AllInv /\ LoopInv /\ TypeOK' /\ [Next]_vars => LoopInv'
<1> SUFFICES ASSUME TypeOK, AllInv, LoopInv, TypeOK', [Next]_vars PROVE LoopInv'
  OBVIOUS
<1>1. CASE Add
  <2>1. Len(all) \in Nat /\ Len(all') \in Nat /\ Len(all') >= Len(all)
    BY <1>1 DEF Add, Addable, TypeOK
  <2> QED
    BY <1>1, <2>1 DEF Add, LoopInv, TypeOK
<1>2. CASE Added
  BY <1>2 DEF Added, LoopInv, Signed
<1>3. CASE Take
  <2>1. /\ s \in 1..Len(all) /\ i \in 1..Len(signatures)
        /\ Fits(signatures[i], all[s]) /\ Signed(all[s])
        /\ s' = s + 1 /\ i' = 1 /\ used' = used \cup {i}
        /\ matched' = matched \cup {all[s]}
        /\ UNCHANGED <<all, signatures, pc>> /\ pc = "match"
    BY <1>3 DEF Take, Trying, TypeOK, Signed
  <2>2. {y \in 1..(s' - 1) : Signed(all[y])}
          = {y \in 1..(s - 1) : Signed(all[y])} \cup {s}
    BY <2>1
  <2>3. matched' = {all[x] : x \in {y \in 1..(s' - 1) : Signed(all[y])}}
    BY <2>1, <2>2 DEF LoopInv
  <2>4. \A j \in used' : \E x \in 1..(s' - 1) : Fits(signatures[j], all[x])
    BY <2>1 DEF LoopInv
  <2>5. Len(all) \in Nat
    BY DEF TypeOK
  <2> QED
    BY <2>1, <2>3, <2>4, <2>5 DEF LoopInv, Signed
<1>4. CASE Skip
  <2>1. /\ s \in 1..Len(all) /\ i \in 1..Len(signatures) /\ i' = i + 1
        /\ UNCHANGED <<all, signatures, pc, s, used, matched>> /\ pc = "match"
    BY <1>4 DEF Skip, Trying, TypeOK
  <2>2. ~Fits(signatures[i], all[s])
    <3>1. CASE i \in used
      <4>1. PICK x \in 1..(s - 1) : Fits(signatures[i], all[x])
        BY <3>1 DEF LoopInv
      <4>2. all[x] # all[s]
        BY <2>1, <4>1 DEF AllInv, TypeOK
      <4> QED
        BY <4>1, <4>2 DEF Fits
    <3> QED
      BY <1>4, <3>1 DEF Skip
  <2>3. \A j \in 1..(i' - 1) : j \in 1..(i - 1) \/ j = i
    BY <2>1
  <2>4. \A j \in 1..(i' - 1) : j <= Len(signatures) => ~Fits(signatures[j], all[s])
    BY <2>1, <2>2, <2>3 DEF LoopInv
  <2> QED
    BY <2>1, <2>4 DEF LoopInv, Signed
<1>5. CASE NextSigner
  <2>1. /\ s \in 1..Len(all) /\ s' = s + 1 /\ i' = 1 /\ i > Len(signatures)
        /\ UNCHANGED <<all, signatures, pc, used, matched>> /\ pc = "match"
        /\ Len(all) \in Nat /\ Len(signatures) \in Nat /\ i \in Nat
    BY <1>5 DEF NextSigner, TypeOK
  <2>2. ~Signed(all[s])
    BY <2>1 DEF LoopInv, Signed
  <2>3. {y \in 1..(s' - 1) : Signed(all[y])} = {y \in 1..(s - 1) : Signed(all[y])}
    BY <2>1, <2>2
  <2>4. \A j \in used' : \E x \in 1..(s' - 1) : Fits(signatures[j], all[x])
    BY <2>1 DEF LoopInv
  <2>5. /\ matched' = {all[x] : x \in {y \in 1..(s' - 1) : Signed(all[y])}}
        /\ s' <= Len(all') + 1
        /\ 1..(i' - 1) = {}
    BY <2>1, <2>3 DEF LoopInv
  <2> QED
    BY <2>1, <2>4, <2>5 DEF LoopInv, Signed
<1>6. CASE Judge \/ Done \/ UNCHANGED vars
  BY <1>6 DEF Judge, Done, vars, LoopInv, Signed
<1> QED
  BY <1>1, <1>2, <1>3, <1>4, <1>5, <1>6 DEF Next

LEMMA AllOffered ==
    ASSUME TypeOK, next = Len(signers) + 2
    PROVE  Offered = ToSet(signers) \cup {cdKey}
<1>1. Len(signers) \in Nat /\ DOMAIN signers = 1..Len(signers)
  BY DEF TypeOK
<1>2. 1..(next - 1) \cap 1..Len(signers) = 1..Len(signers)
  BY <1>1
<1> QED
  BY <1>1, <1>2, ToSetIs DEF Offered

\* What the loops have found when the last signer is behind.
LEMMA LoopResult ==
    ASSUME TypeOK, AllInv, LoopInv, pc = "match", s > Len(all)
    PROVE  /\ ToSet(all) = candidates(ToSet(signers), cdKey) \cup {Server}
           /\ matched = {k \in ToSet(all) : Signed(k)}
<1>1. s = Len(all) + 1 /\ Len(all) \in Nat /\ next = Len(signers) + 2
        /\ Len(signers) \in Nat
  BY DEF LoopInv, AllInv, TypeOK
<1>2. Offered = ToSet(signers) \cup {cdKey}
  BY <1>1, AllOffered
<1>3. DOMAIN all = 1..(s - 1) /\ ToSet(all) = {all[x] : x \in 1..(s - 1)}
  BY <1>1, ToSetIs DEF TypeOK
<1>4. matched = {k \in ToSet(all) : Signed(k)}
  BY <1>3 DEF LoopInv
<1> QED
  BY <1>2, <1>4 DEF AllInv, candidates

LEMMA SignedIs ==
    ASSUME TypeOK, NEW k \in Keys
    PROVE  Signed(k) <=> k \in ToSet([x \in 1..Len(signatures) |-> SignedBy(signatures[x])])
<1>1. k # None
  BY NoneAssumption
<1>2. \A x \in 1..Len(signatures) : SignedBy(signatures[x]) = k <=> Fits(signatures[x], k)
  BY <1>1 DEF SignedBy, Fits
<1> QED
  BY <1>2, ToSetIs DEF Signed

LEMMA PolicyNext == SInv /\ TypeOK' /\ [Next]_vars => PolicyInv'
<1> SUFFICES ASSUME SInv, TypeOK', [Next]_vars PROVE PolicyInv'
  OBVIOUS
<1> DEFINE sigs == [x \in 1..Len(signatures) |-> SignedBy(signatures[x])]
<1>0. Len(sigs) = Len(signatures)
  BY DEF SInv, TypeOK
<1>1. CASE Added
  <2>1. CASE Len(all) = 1
    <3>1. Offered = ToSet(signers) \cup {cdKey}
      BY <1>1, AllOffered DEF Added, SInv
    <3>2. ToSet(all) = {Server}
      BY <2>1, ToSetIs DEF SInv, AllInv, TypeOK
    <3>3. candidates(ToSet(signers), cdKey) = {}
      BY <3>1, <3>2 DEF SInv, AllInv, candidates
    <3>4. verifySigners(cdKey, sigs, ToSet(signers)) = "SignatureUnrecognized"
      BY <3>3 DEF verifySigners
    <3> QED
      BY <1>1, <2>1, <3>4 DEF Added, PolicyInv, VerdictIsThePolicy
  <2>2. CASE Len(all) # 1
    BY <1>1, <2>2 DEF Added, PolicyInv, VerdictIsThePolicy
  <2> QED
    BY <2>1, <2>2
<1>2. CASE Judge
  <2> DEFINE clients == candidates(ToSet(signers), cdKey)
  <2>1. /\ ToSet(all) = clients \cup {Server}
        /\ matched = {k \in ToSet(all) : Signed(k)}
    BY <1>2, LoopResult DEF Judge, SInv
  <2>2. ToSet(all) \subseteq Keys
    BY ToSetIs DEF SInv, TypeOK
  <2>3. matched = matchSigners(sigs, clients \cup {Server})
    BY <2>1, <2>2, SignedIs DEF matchSigners, SInv
  <2>4. matched \ {Server} # {} => clients # {}
    BY <2>1
  <2> HIDE DEF sigs, clients
  <2>5. Judgement = verifySigners(cdKey, sigs, ToSet(signers))
    BY <1>0, <2>3, <2>4 DEF Judgement, verifySigners, clients
  <2> QED
    BY <1>2, <2>5 DEF Judge, PolicyInv, VerdictIsThePolicy, sigs
<1>3. CASE Add \/ Take \/ Skip \/ NextSigner \/ Done \/ UNCHANGED vars
  BY <1>3
     DEF Add, Take, Skip, NextSigner, Trying, Done, vars, SInv, PolicyInv,
         VerdictIsThePolicy
<1> QED
  BY <1>1, <1>2, <1>3 DEF Next

LEMMA SInvariant == Spec => []SInv
<1>1. Init => SInv
  BY SInvInit DEF SInv
<1>2. SInv /\ [Next]_vars => SInv'
  BY TypeNext, AllNext, LoopNext, PolicyNext DEF SInv
<1> QED
  BY <1>1, <1>2, PTL DEF Spec

\* The nested loops of matchSigners match every candidate that signed and no
\* other, in whatever order signers and signatures come and however hints
\* collide: consuming each signature once never starves a later signer.
THEOREM LoopsMatchTheSigned == Spec => []MatchesTheSigned
<1>1. SInv => MatchesTheSigned
  <2> SUFFICES ASSUME SInv, pc = "match", s > Len(all)
               PROVE  /\ ToSet(all) = candidates(ToSet(signers), cdKey) \cup {Server}
                      /\ matched = {k \in ToSet(all) :
                            \E sig \in ToSet(signatures) : Fits(sig, k)}
    BY DEF MatchesTheSigned
  <2>1. \A k : Signed(k) <=> \E sig \in ToSet(signatures) : Fits(sig, k)
    BY ToSetIs DEF Signed, SInv, TypeOK
  <2> QED
    BY <2>1, LoopResult DEF SInv
<1> QED
  BY <1>1, SInvariant, PTL

\* The one-line statement of verifySigners that the model of POST /auth uses is
\* what the code computes.
THEOREM LoopsDecideThePolicy == Spec => []VerdictIsThePolicy
<1>1. SInv => VerdictIsThePolicy
  BY DEF SInv, PolicyInv
<1> QED
  BY <1>1, SInvariant, PTL
=============================================================================
