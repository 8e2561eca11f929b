--------------------------- MODULE SignatureLoop ---------------------------
(***************************************************************************)
(* verifySigners of internal/auth/verify.go and matchSigners of            *)
(* signatures.go as they run: the list of candidates built signer by       *)
(* signer, then every candidate tried against every signature, with the    *)
(* four-byte hint as a filter.  SignerPolicy states the result of the two  *)
(* loops in one line; here it is shown to be their result, for signatures  *)
(* with colliding hints, a wrong hint, or no valid signer.                 *)
(***************************************************************************)
EXTENDS SignerPolicy

CONSTANTS
    Hints,            \* what kp.Hint() returns
    HintOf,           \* the hint of each key; two keys may share one
    SignerLists,      \* the sorted signer lists of accounts
    SignatureLists    \* the signatures of envelopes

\* by is the key under which the signature verifies, None if there is none.
Signature == [hint : Hints, by : Orelse(Keys)]

ASSUME LoopAssumption ==
    /\ HintOf \in [Keys -> Hints]
    /\ SignerLists \subseteq Seq(Keys \cup HashSigners)
    /\ SignatureLists \subseteq Seq(Signature)

VARIABLES
    signers,      \* accountSigners
    cdKey,        \* challenge.ClientDomainKey
    signatures,   \* challenge.Tx.Signatures()
    pc,           \* "add", "match" or "done"
    next,         \* the signer to add
    all,          \* the server, then clientSigners
    s, i,         \* the signer and the signature being compared
    used,         \* signatures already consumed
    matched,      \* found of matchSigners, which seen keeps free of duplicates
    verdict

input == <<signers, cdKey, signatures>>
vars == <<input, pc, next, all, s, i, used, matched, verdict>>

TypeOK ==
    /\ signers \in Seq(Keys \cup HashSigners)
    /\ cdKey \in Orelse(Keys)
    /\ signatures \in Seq(Signature)
    /\ pc \in {"add", "match", "done"}
    /\ next \in 1..Len(signers) + 2
    /\ all \in Seq(Keys)
    /\ s \in Nat \ {0} /\ i \in Nat \ {0}
    /\ used \subseteq 1..Len(signatures)
    /\ matched \subseteq Keys
    /\ verdict \in Verdicts \cup {"none"}

Init ==
    /\ signers \in SignerLists
    /\ cdKey \in Orelse(Keys)
    /\ signatures \in SignatureLists
    /\ pc = "add"
    /\ next = 1
    /\ all = <<Server>>
    /\ s = 1 /\ i = 1
    /\ used = {}
    /\ matched = {}
    /\ verdict = "none"

\* The closure add.
Addable(signer) ==
    /\ signer \in Keys
    /\ \A x \in 1..Len(all) : all[x] # signer

Add ==
    /\ pc = "add" /\ next <= Len(signers) + 1
    /\ LET signer == IF next <= Len(signers) THEN signers[next] ELSE cdKey
       IN  all' = IF Addable(signer) THEN Append(all, signer) ELSE all
    /\ next' = next + 1
    /\ UNCHANGED <<input, pc, s, i, used, matched, verdict>>

\* Without a candidate there is nothing to match.
Added ==
    /\ pc = "add" /\ next = Len(signers) + 2
    /\ IF Len(all) = 1
         THEN pc' = "done" /\ verdict' = "SignatureUnrecognized"
         ELSE pc' = "match" /\ UNCHANGED verdict
    /\ UNCHANGED <<input, next, all, s, i, used, matched>>

\* The signature has the signer's hint and verifies under its key.
Fits(sig, signer) == sig.hint = HintOf[signer] /\ sig.by = signer

Trying == pc = "match" /\ s <= Len(all) /\ i <= Len(signatures)

Take ==
    /\ Trying
    /\ i \notin used
    /\ Fits(signatures[i], all[s])
    /\ used' = used \cup {i}
    /\ matched' = matched \cup {all[s]}
    /\ s' = s + 1 /\ i' = 1
    /\ UNCHANGED <<input, pc, next, all, verdict>>

\* A faulty loop that lets the hint decide: on a collision it gives up the
\* signer at the first signature that does not verify.
Skip_by_hint ==
    /\ Trying
    /\ i \in used \/ ~Fits(signatures[i], all[s])
    /\ IF i \notin used /\ signatures[i].hint = HintOf[all[s]]
         THEN s' = s + 1 /\ i' = 1
         ELSE i' = i + 1 /\ UNCHANGED s
    /\ UNCHANGED <<input, pc, next, all, used, matched, verdict>>

Skip ==
    /\ Trying
    /\ i \in used \/ ~Fits(signatures[i], all[s])
    /\ i' = i + 1
    /\ UNCHANGED <<input, pc, next, all, s, used, matched, verdict>>

NextSigner ==
    /\ pc = "match" /\ s <= Len(all) /\ i > Len(signatures)
    /\ s' = s + 1 /\ i' = 1
    /\ UNCHANGED <<input, pc, next, all, used, matched, verdict>>

\* A faulty guard that lets the client domain's signature stand for a signer's.
Judgement_domain_alone ==
    IF \/ Server \notin matched
       \/ matched \subseteq {Server}
       \/ Cardinality(matched) # Len(signatures)
      THEN "SignatureUnrecognized"
    ELSE IF cdKey # None /\ cdKey \notin matched \ {Server}
      THEN "ClientDomainUnverified"
    ELSE "ok"

\* The rest of verifySigners, in the order of its returns.
Judgement ==
    IF \/ Server \notin matched
       \/ matched \subseteq {Server, cdKey}
       \/ Cardinality(matched) # Len(signatures)
      THEN "SignatureUnrecognized"
    ELSE IF cdKey # None /\ cdKey \notin matched \ {Server}
      THEN "ClientDomainUnverified"
    ELSE "ok"

Judge ==
    /\ pc = "match" /\ s > Len(all)
    /\ pc' = "done"
    /\ verdict' = Judgement
    /\ UNCHANGED <<input, next, all, s, i, used, matched>>

Done == pc = "done" /\ UNCHANGED vars

Next == Add \/ Added \/ Take \/ Skip \/ NextSigner \/ Judge \/ Done

Spec == Init /\ [][Next]_vars
-----------------------------------------------------------------------------
\* The key a signature counts for, if any.
SignedBy(sig) ==
    IF sig.by # None /\ Fits(sig, sig.by) THEN sig.by ELSE None

\* The order of the signers, of the signatures and of the trials never decides
\* who is matched: the loops find exactly the candidates with a signature of
\* their own, although every signature is consumed at most once and signers may
\* share a hint.
MatchesTheSigned ==
    pc = "match" /\ s > Len(all) =>
        /\ ToSet(all) = candidates(ToSet(signers), cdKey) \cup {Server}
        /\ matched = {k \in ToSet(all) :
                        \E sig \in ToSet(signatures) : Fits(sig, k)}

\* verifySigners accepts and refuses what SignerPolicy says it does.
VerdictIsThePolicy ==
    pc = "done" =>
        LET by == [x \in 1..Len(signatures) |-> SignedBy(signatures[x])]
        IN  verdict = verifySigners(cdKey, by, ToSet(signers))
=============================================================================
