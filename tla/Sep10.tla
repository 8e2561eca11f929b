------------------------------- MODULE Sep10 -------------------------------
(***************************************************************************)
(* The identities and data that travel through a SEP-10 exchange, shared   *)
(* by every module of the project.                                         *)
(*                                                                         *)
(* An ed25519 key stands for its G... address, a muxed address is an       *)
(* element of Muxed with the account below it given by BaseOf, and the     *)
(* absent value ("" or nil in the code) is None.  A challenge transaction  *)
(* is named by its nonce: the server signs one transaction per nonce, and  *)
(* the hash of that transaction, which leaves its signatures out, is as    *)
(* unique as the nonce, so the nonce also stands for the jti.              *)
(*                                                                         *)
(* Time is counted in half seconds.  The code compares some instants at    *)
(* full precision and some as Unix seconds; half a second is the coarsest  *)
(* unit in which the two differ.                                           *)
(***************************************************************************)
EXTENDS Integers, FiniteSets, Sequences

CONSTANTS
    Keys,           \* ed25519 public keys, as G... addresses
    Server,         \* the server's SIGNING_KEY
    Muxed,          \* M... addresses
    BaseOf,         \* the G... account below an M... address
    HomeDomains,    \* HOME_DOMAINS
    FirstDomain,    \* the first of them
    ClientDomains,  \* wallet domains a request may name
    Memos,          \* ID memos
    Nonces,         \* nonces the SDK may draw
    None            \* no value

Addresses == Keys \cup Muxed

Orelse(S) == S \cup {None}

ASSUME IdentityAssumption ==
    /\ Server \in Keys
    /\ BaseOf \in [Muxed -> Keys]
    /\ FirstDomain \in HomeDomains
    /\ Keys \cap Muxed = {}

\* baseAccountID: Horizon knows the G... account below a muxed address.
baseAccountID(address) ==
    IF address \in Keys THEN address ELSE BaseOf[address]

\* time.Time.Unix: whole seconds, rounded down.
Unix(t) == t \div 2

\* time.Unix(s, 0): the instant at which second s begins.
Instant(s) == 2 * s

\* What the server signs, and what ReadChallenge recovers from it: the first
\* operation's source and home domain, the memo, the client_domain operation's
\* value and source, and the time bounds in Unix seconds.
Challenge == [account : Addresses, home : HomeDomains, memo : Orelse(Memos),
              domain : Orelse(ClientDomains), key : Orelse(Keys),
              minTime : Nat, maxTime : Nat]

\* Whom a challenge, a session or a token is for.
Subjects == [account : Addresses, memo : Orelse(Memos),
             domain : Orelse(ClientDomains)]

\* The claims of a token, and the columns of its session row.
Claims == [account : Addresses, memo : Orelse(Memos),
           domain : Orelse(ClientDomains), jti : Nonces, iat : Nat, exp : Nat]

\* A row of the challenges table, keyed by nonce.
ChallengeRow == [account : Addresses, home : HomeDomains,
                 domain : Orelse(ClientDomains), issuedAt : Nat,
                 expiresAt : Nat, consumedAt : Orelse(Nat)]

\* A row of the sessions table, keyed by jti.
SessionRow == [account : Addresses, memo : Orelse(Memos), home : HomeDomains,
               domain : Orelse(ClientDomains), issuedAt : Nat, expiresAt : Nat]

\* The absent value is none of the values it may stand in for.
ASSUME NoneAssumption ==
    /\ None \notin Keys \cup Muxed \cup HomeDomains \cup ClientDomains
    /\ None \notin Memos \cup Nonces
    /\ None \notin Nat
    /\ None \notin Challenge
    /\ None \notin ChallengeRow
    /\ None \notin SessionRow
    /\ None \notin Claims
    /\ None \notin Subjects
=============================================================================
