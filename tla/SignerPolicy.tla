---------------------------- MODULE SignerPolicy ----------------------------
(***************************************************************************)
(* internal/auth/verify.go and signatures.go: which signatures on a posted *)
(* challenge authenticate its account.                                     *)
(*                                                                         *)
(* A signature is the key that made it: ed25519 verification succeeds for  *)
(* one key only, and a signature nobody on the account made is one by a    *)
(* key outside the candidates.  The signatures of an envelope are a        *)
(* sequence, because the code compares their NUMBER with the number of     *)
(* signers it matched.  An account on the network is a record of signer    *)
(* weights, keyed by strkey, and its medium threshold; None is an account  *)
(* Horizon answers 404 for.                                                *)
(***************************************************************************)
EXTENDS Sep10, FiniteSetsExt, SequencesExt

CONSTANT HashSigners    \* strkeys of signers that cannot sign: X..., T..., P...

ASSUME HashSignersAssumption == HashSigners \cap Keys = {}

Account == [signers : UNION {[S -> Nat] : S \in SUBSET (Keys \cup HashSigners)},
            med : Nat]

Verdicts == {"ok", "SignatureUnrecognized", "ClientDomainUnverified",
             "ThresholdNotMet"}

\* add, inside verifySigners: the server never speaks for a client, and a
\* strkey that is not an ed25519 key cannot have signed.
candidates(accountSigners, cdKey) ==
    ((accountSigners \cup {cdKey}) \cap Keys) \ {Server}

\* matchSigners: the signers with a signature of their own on the envelope.
matchSigners(sigs, signers) == signers \cap ToSet(sigs)

\* verifySigners, in the order of its early returns.
verifySigners(cdKey, sigs, accountSigners) ==
    LET clients == candidates(accountSigners, cdKey)
        matched == matchSigners(sigs, clients \cup {Server})
        found   == matched \ {Server}
    IN IF \/ clients = {}
          \/ Server \notin matched
          \/ found \subseteq {cdKey}
          \/ Cardinality(matched) # Len(sigs)
         THEN "SignatureUnrecognized"
       ELSE IF cdKey # None /\ cdKey \notin found
         THEN "ClientDomainUnverified"
       ELSE "ok"

\* The loop that adds up the weights of the signers in S.
TotalWeight(signers, S) == MapThenSumSet(LAMBDA s : signers[s], S)

\* A bug the exclusion is there to prevent: the wallet's own key counts.
accountSignerWeight_counts_domain(found, signers, cdKey) ==
    TotalWeight(signers, found \cap DOMAIN signers)

\* accountSignerWeight: the client domain's key never adds weight.
accountSignerWeight(found, signers, cdKey) ==
    TotalWeight(signers, (found \ {cdKey}) \cap DOMAIN signers)

\* VerifyClient, once Horizon has answered.
VerifyClient(c, sigs, account) ==
    IF account = None
      THEN verifySigners(c.key, sigs, {baseAccountID(c.account)})
      ELSE LET signers == account.signers
               verdict == verifySigners(c.key, sigs, DOMAIN signers)
               found   == matchSigners(sigs, candidates(DOMAIN signers, c.key))
           IN IF verdict # "ok" THEN verdict
              ELSE IF accountSignerWeight(found, signers, c.key) < account.med
                THEN "ThresholdNotMet"
                ELSE "ok"
=============================================================================
