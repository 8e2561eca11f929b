------------------------ MODULE ReadChallengeProofs ------------------------
(***************************************************************************)
(* ReadChallenge accepts what SEP-10 allows and nothing else, on envelopes *)
(* with any number of operations and signatures, and reads back what Issue *)
(* signed.  The argument follows the loop: the operations read so far pass *)
(* the checks that look at one operation, and the two flags say which of   *)
(* the reserved names were among them, each at most once.                  *)
(***************************************************************************)
EXTENDS ReadChallenge, FiniteSetTheorems, SequenceTheorems, TLAPS

\* What is asked of the transaction and its first operation.
HeaderOk(e, t) ==
    /\ e.parses /\ e.source = Server /\ e.sequence = 0 /\ e.maxTime # 0
    /\ InTimebounds(e, t)
    /\ e.ops # <<>>
    /\ e.ops[1].data /\ e.ops[1].source # None
    /\ e.ops[1].name \in HomeDomains /\ e.ops[1].value \in Nonces
    /\ e.memo # None => e.memo \in Memos /\ e.ops[1].source \in Keys

\* What is asked of a further operation by itself.
OpOk(op) ==
    /\ op.data /\ op.source # None
    /\ op.name # "client_domain" => op.source = Server
    /\ op.name = "web_auth_domain" => op.value = WebAuthDomain
    /\ op.name = "client_domain" =>
         op.source \in Keys \ {Server} /\ op.value # None

AtMostOne(S) == \A i, j \in S : i = j

\* Among the operations before k.
NamedBefore(e, k, name) == {i \in 2..(k - 1) : e.ops[i].name = name}

ReadType ==
    /\ env \in Envelope
    /\ at \in Nat \ {0}
    /\ sawWebAuthDomain \in BOOLEAN /\ sawClientDomain \in BOOLEAN

\* The loop's invariant.
ReadSoFar ==
    /\ at = 1 => ~sawWebAuthDomain /\ ~sawClientDomain
    /\ at > 1 =>
         /\ HeaderOk(env, time) /\ at <= Len(env.ops) + 1
         /\ \A i \in 2..(at - 1) : OpOk(env.ops[i])
         /\ sawWebAuthDomain <=> NamedBefore(env, at, "web_auth_domain") # {}
         /\ sawClientDomain <=> NamedBefore(env, at, "client_domain") # {}
         /\ AtMostOne(NamedBefore(env, at, "web_auth_domain"))
         /\ AtMostOne(NamedBefore(env, at, "client_domain"))

\* What a result says about the envelope.
ResultTells ==
    /\ result = "ok" =>
         at > 1 /\ at = Len(env.ops) + 1 /\ Server \in ToSet(env.sigs)
    /\ result \notin {"none", "ok"} => ~Acceptable(env, time)

ReadInv == ReadType /\ ReadSoFar /\ ResultTells
-----------------------------------------------------------------------------
LEMMA CountAtMostOne ==
    ASSUME NEW S, IsFiniteSet(S)
    PROVE  Cardinality(S) <= 1 <=> AtMostOne(S)
<1>1. CASE S = {}
  BY <1>1, FS_EmptySet DEF AtMostOne
<1>2. CASE S # {}
  <2>1. PICK x \in S : TRUE
    BY <1>2
  <2>2. Cardinality(S) \in Nat /\ (Cardinality(S) = 0 <=> S = {})
    BY FS_EmptySet, FS_CardinalityType
  <2>3. Cardinality(S) = 1 <=> \E y : S = {y}
    BY FS_Singleton
  <2>4. (\E y : S = {y}) <=> AtMostOne(S)
    BY <2>1 DEF AtMostOne
  <2>5. Cardinality(S) <= 1 <=> Cardinality(S) = 1
    BY <1>2, <2>2
  <2> QED BY <2>3, <2>4, <2>5
<1> QED BY <1>1, <1>2

LEMMA NamedIsFinite ==
    ASSUME NEW e \in Envelope, NEW name
    PROVE  IsFiniteSet(Named(e, name))
<1>1. Len(e.ops) \in Nat
  BY DEF Envelope
<1>2. IsFiniteSet(2..Len(e.ops))
  BY <1>1, FS_Interval
<1>3. Named(e, name) \subseteq 2..Len(e.ops)
  BY DEF Named
<1> QED BY <1>2, <1>3, FS_Subset

\* The checks before the loop, as one condition.
LEMMA HeaderErrorIs ==
    ASSUME NEW e \in Envelope, NEW t
    PROVE  HeaderError(e, t) = "ok" <=> HeaderOk(e, t)
<1>1. e.ops \in Seq(Operation) /\ e.memo \in Memos \cup {Other, None}
  BY DEF Envelope, Orelse
<1>2. CASE e.ops = <<>>
  BY <1>2 DEF HeaderError, HeaderOk
<1>3. CASE e.ops # <<>>
  <2>1. Head(e.ops) = e.ops[1] /\ e.ops[1] \in Operation
    BY <1>1, <1>3
  <2>2. e.ops[1].source \in Keys \cup Muxed \cup {None}
    BY <2>1 DEF Operation, Orelse, Addresses
  <2>3. e.ops[1].source # None =>
          (e.ops[1].source \in Keys <=> e.ops[1].source \notin Muxed)
    BY <2>2, IdentityAssumption
  <2> QED BY <1>1, <1>3, <2>1, <2>3 DEF HeaderError, HeaderOk, Orelse
<1> QED BY <1>2, <1>3

\* The early returns of the loop's body, as one condition.
LEMMA OpFaultIs ==
    ASSUME NEW op, NEW w \in BOOLEAN, NEW c \in BOOLEAN
    PROVE  OpFault(op, w, c) <=>
             \/ ~OpOk(op)
             \/ op.name = "web_auth_domain" /\ w
             \/ op.name = "client_domain" /\ c
BY DEF OpFault, OpOk

\* What SEP-10 asks, by the parts the reader looks at.
LEMMA AcceptableIs ==
    ASSUME NEW e \in Envelope, NEW t
    PROVE  Acceptable(e, t) <=>
             /\ HeaderOk(e, t) /\ Server \in ToSet(e.sigs)
             /\ \A i \in 2..Len(e.ops) : OpOk(e.ops[i])
             /\ AtMostOne(Named(e, "web_auth_domain"))
             /\ AtMostOne(Named(e, "client_domain"))
<1>1. \A name : Cardinality(Named(e, name)) <= 1 <=> AtMostOne(Named(e, name))
  BY CountAtMostOne, NamedIsFinite
<1>2. e.ops \in Seq(Operation) /\ Len(e.ops) \in Nat
  BY DEF Envelope
<1>3. e.ops # <<>> => Len(e.ops) >= 1
  BY <1>2
<1>4. (\A i \in 2..Len(e.ops) : OpOk(e.ops[i])) <=>
        /\ \A i \in 2..Len(e.ops) : e.ops[i].data /\ e.ops[i].source # None
        /\ \A i \in 2..Len(e.ops) :
             i \notin Named(e, "client_domain") => e.ops[i].source = Server
        /\ \A i \in Named(e, "web_auth_domain") : e.ops[i].value = WebAuthDomain
        /\ \A i \in Named(e, "client_domain") :
             e.ops[i].source \in Keys \ {Server} /\ e.ops[i].value # None
  BY DEF OpOk, Named
<1>5. e.ops # <<>> =>
        ((\A i \in 1..Len(e.ops) : e.ops[i].data /\ e.ops[i].source # None) <=>
           /\ e.ops[1].data /\ e.ops[1].source # None
           /\ \A i \in 2..Len(e.ops) : e.ops[i].data /\ e.ops[i].source # None)
  BY <1>2, <1>3
<1> QED BY <1>1, <1>4, <1>5 DEF Acceptable, HeaderOk
-----------------------------------------------------------------------------
\* The names of the operations before k + 1: those before k, and that of k.
LEMMA OneMoreNamed ==
    ASSUME NEW e, NEW k \in Nat \ {0, 1}, NEW name
    PROVE  NamedBefore(e, k + 1, name) =
             NamedBefore(e, k, name) \cup
               (IF e.ops[k].name = name THEN {k} ELSE {})
BY DEF NamedBefore

LEMMA HeaderKeeps ==
    ASSUME ReadInv, ReadHeader
    PROVE  ReadInv'
<1>1. /\ env' = env /\ time' = time /\ at = 1 /\ result = "none"
      /\ sawWebAuthDomain' = sawWebAuthDomain /\ sawClientDomain' = sawClientDomain
      /\ ~sawWebAuthDomain /\ ~sawClientDomain /\ env \in Envelope
  BY DEF ReadHeader, ReadInv, ReadSoFar, ReadType
<1>2. CASE HeaderOk(env, time)
  <2>1. at' = 2 /\ result' = "none"
    BY <1>1, <1>2, HeaderErrorIs DEF ReadHeader
  <2>2. Len(env.ops) \in Nat \ {0}
    BY <1>1, <1>2 DEF Envelope, HeaderOk
  <2>3. 2..(2 - 1) = {}
    OBVIOUS
  <2>4. \A name : NamedBefore(env, 2, name) = {}
    BY <2>3 DEF NamedBefore
  <2>5. ReadSoFar'
    BY <1>1, <1>2, <2>1, <2>2, <2>3, <2>4 DEF ReadSoFar, AtMostOne
  <2> QED BY <1>1, <2>1, <2>5 DEF ReadInv, ReadType, ResultTells
<1>3. CASE ~HeaderOk(env, time)
  <2>1. at' = 1 /\ result' # "ok"
    BY <1>1, <1>3, HeaderErrorIs DEF ReadHeader
  <2>2. ~Acceptable(env, time)
    BY <1>1, <1>3, AcceptableIs
  <2>3. ResultTells'
    BY <1>1, <2>1, <2>2 DEF ResultTells
  <2> QED BY <1>1, <2>1, <2>3 DEF ReadInv, ReadType, ReadSoFar
<1> QED BY <1>2, <1>3

LEMMA OpKeeps ==
    ASSUME ReadInv, ReadOp
    PROVE  ReadInv'
<1> DEFINE op == env.ops[at]
<1>1. /\ env' = env /\ time' = time /\ result = "none"
      /\ at \in 2..Len(env.ops) /\ Len(env.ops) \in Nat /\ at \in Nat \ {0, 1}
      /\ env \in Envelope /\ ReadSoFar /\ at > 1
  <2>1. env \in Envelope /\ at \in Nat /\ ReadSoFar
    BY DEF ReadInv, ReadType
  <2>2. Len(env.ops) \in Nat
    BY <2>1 DEF Envelope
  <2> QED BY <2>1, <2>2 DEF ReadOp
<1>2. OpFault(op, sawWebAuthDomain, sawClientDomain) <=>
        \/ ~OpOk(op)
        \/ op.name = "web_auth_domain" /\ sawWebAuthDomain
        \/ op.name = "client_domain" /\ sawClientDomain
  BY OpFaultIs DEF ReadInv, ReadType
<1>3. CASE OpFault(op, sawWebAuthDomain, sawClientDomain)
  <2>1. /\ result' = "ChallengeMalformed" /\ at' = at
        /\ sawWebAuthDomain' = sawWebAuthDomain
        /\ sawClientDomain' = sawClientDomain
    BY <1>3 DEF ReadOp
  <2>2. ASSUME NEW name, op.name = name, NamedBefore(env, at, name) # {}
        PROVE  ~AtMostOne(Named(env, name))
    <3>1. PICK i \in 2..(at - 1) : env.ops[i].name = name
      BY <2>2 DEF NamedBefore
    <3>2. i \in Named(env, name) /\ at \in Named(env, name) /\ i # at
      BY <1>1, <2>2, <3>1 DEF Named
    <3> QED BY <3>2 DEF AtMostOne
  <2>3. ~Acceptable(env, time)
    <3>1. CASE ~OpOk(op)
      BY <1>1, <3>1, AcceptableIs
    <3>2. CASE op.name = "web_auth_domain" /\ sawWebAuthDomain
      BY <1>1, <2>2, <3>2, AcceptableIs DEF ReadSoFar
    <3>3. CASE op.name = "client_domain" /\ sawClientDomain
      BY <1>1, <2>2, <3>3, AcceptableIs DEF ReadSoFar
    <3> QED BY <1>2, <1>3, <3>1, <3>2, <3>3
  <2>4. ReadSoFar'
    BY <1>1, <2>1 DEF ReadSoFar, NamedBefore
  <2>5. ResultTells'
    BY <1>1, <2>1, <2>3 DEF ResultTells
  <2> QED BY <1>1, <2>1, <2>4, <2>5 DEF ReadInv, ReadType
<1>4. CASE ~OpFault(op, sawWebAuthDomain, sawClientDomain)
  <2>1. /\ result' = "none" /\ at' = at + 1
        /\ sawWebAuthDomain' = (sawWebAuthDomain \/ op.name = "web_auth_domain")
        /\ sawClientDomain' = (sawClientDomain \/ op.name = "client_domain")
    BY <1>1, <1>4 DEF ReadOp
  <2>2. ReadType'
    BY <1>1, <2>1 DEF ReadInv, ReadType
  <2>3. \A i \in 2..(at' - 1) : OpOk(env.ops[i])
    <3>1. \A i \in 2..(at' - 1) : i \in 2..(at - 1) \/ i = at
      BY <1>1, <2>1
    <3>2. OpOk(env.ops[at])
      BY <1>2, <1>4
    <3> QED BY <1>1, <3>1, <3>2 DEF ReadSoFar
  <2>4. \A name : NamedBefore(env, at', name) =
          NamedBefore(env, at, name) \cup (IF op.name = name THEN {at} ELSE {})
    BY <1>1, <2>1, OneMoreNamed
  <2>5. /\ sawWebAuthDomain' <=> NamedBefore(env, at', "web_auth_domain") # {}
        /\ AtMostOne(NamedBefore(env, at', "web_auth_domain"))
    <3>1. CASE op.name = "web_auth_domain"
      <4>1. NamedBefore(env, at, "web_auth_domain") = {}
        BY <1>1, <1>2, <1>4, <3>1 DEF ReadSoFar
      <4> QED BY <2>1, <2>4, <3>1, <4>1 DEF AtMostOne
    <3>2. CASE op.name # "web_auth_domain"
      <4>1. NamedBefore(env, at', "web_auth_domain") =
              NamedBefore(env, at, "web_auth_domain")
        BY <2>4, <3>2
      <4> QED BY <1>1, <2>1, <3>2, <4>1 DEF ReadSoFar
    <3> QED BY <3>1, <3>2
  <2>6. /\ sawClientDomain' <=> NamedBefore(env, at', "client_domain") # {}
        /\ AtMostOne(NamedBefore(env, at', "client_domain"))
    <3>1. CASE op.name = "client_domain"
      <4>1. NamedBefore(env, at, "client_domain") = {}
        BY <1>1, <1>2, <1>4, <3>1 DEF ReadSoFar
      <4> QED BY <2>1, <2>4, <3>1, <4>1 DEF AtMostOne
    <3>2. CASE op.name # "client_domain"
      <4>1. NamedBefore(env, at', "client_domain") =
              NamedBefore(env, at, "client_domain")
        BY <2>4, <3>2
      <4> QED BY <1>1, <2>1, <3>2, <4>1 DEF ReadSoFar
    <3> QED BY <3>1, <3>2
  <2>7. at' > 1 /\ at' <= Len(env.ops) + 1 /\ at' # 1
    BY <1>1, <2>1
  <2>8. ReadSoFar'
    BY <1>1, <2>3, <2>5, <2>6, <2>7 DEF ReadSoFar
  <2>9. ResultTells'
    BY <2>1 DEF ResultTells
  <2> QED BY <2>2, <2>8, <2>9 DEF ReadInv
<1> QED BY <1>3, <1>4

LEMMA SignatureKeeps ==
    ASSUME ReadInv, CheckServerSignature
    PROVE  ReadInv'
<1>1. /\ env' = env /\ time' = time /\ at' = at /\ at > 1
      /\ at = Len(env.ops) + 1 /\ sawWebAuthDomain' = sawWebAuthDomain
      /\ sawClientDomain' = sawClientDomain /\ env \in Envelope
      /\ result' = IF Server \in ToSet(env.sigs) THEN "ok" ELSE "ChallengeMalformed"
  BY DEF CheckServerSignature, ReadInv, ReadType
<1>2. ReadType' /\ ReadSoFar'
  BY <1>1 DEF ReadInv, ReadType, ReadSoFar, NamedBefore
<1>3. ResultTells'
  BY <1>1, AcceptableIs DEF ResultTells
<1> QED BY <1>2, <1>3 DEF ReadInv

LEMMA ReadNext == ReadInv /\ [Next]_vars => ReadInv'
<1> SUFFICES ASSUME ReadInv, [Next]_vars PROVE ReadInv'
  OBVIOUS
<1>1. CASE UNCHANGED vars
  BY <1>1 DEF vars, ReadInv, ReadType, ReadSoFar, ResultTells, NamedBefore
<1> QED BY <1>1, HeaderKeeps, OpKeeps, SignatureKeeps DEF Next

LEMMA ReadIsEnough == ReadInv => AcceptsExactlyTheRules
<1> SUFFICES ASSUME ReadInv, result = "ok" PROVE Acceptable(env, time)
  BY DEF ReadInv, ResultTells, AcceptsExactlyTheRules
<1>1. /\ env \in Envelope /\ at = Len(env.ops) + 1 /\ at > 1 /\ ReadSoFar
      /\ Len(env.ops) \in Nat /\ Server \in ToSet(env.sigs)
  BY DEF ReadInv, ReadType, ResultTells, Envelope
<1>2. at - 1 = Len(env.ops)
  BY <1>1
<1>3. \A name : NamedBefore(env, at, name) = Named(env, name)
  BY <1>2 DEF NamedBefore, Named
<1> QED BY <1>1, <1>2, <1>3, AcceptableIs DEF ReadSoFar
-----------------------------------------------------------------------------
\* What Issue signs: a challenge whose client domain and key come together.
LEMMA IssuedIs ==
    ASSUME NEW c \in IssuedAt(IssueTime)
    PROVE  /\ c.account \in Addresses /\ c.home \in HomeDomains
           /\ c.memo \in Orelse(Memos) /\ (c.memo # None => c.account \in Keys)
           /\ c.minTime \in Nat /\ c.maxTime \in Nat \ {0}
           /\ \/ c.domain = None /\ c.key = None
              \/ c.domain \in ClientDomains /\ c.key \in Keys
<1>1. PICK p \in Issuable \X Orelse(Keys) :
        /\ IssueError(p[1], p[2]) = "ok"
        /\ p[1].domain # None => p[2] \in Published[p[1].domain]
        /\ c = BuildChallenge(p[1], p[2], IssueTime)
  BY DEF IssuedAt
<1> DEFINE q == p[1]
           k == p[2]
<1>2. q \in Query
  BY EnvelopesAssumption
<1>3. /\ q.account \in Addresses \cup {None, Garbage}
      /\ q.memo \in Memos \cup {None, Garbage}
      /\ q.home \in HomeDomains \cup {None, Garbage}
      /\ q.domain \in ClientDomains \cup {None}
  BY <1>2 DEF Query, Orelse
<1>4. /\ IssueError(q, k) = "ok" /\ (q.domain # None => k \in Published[q.domain])
      /\ c = BuildChallenge(q, k, IssueTime)
  BY <1>1
<1> HIDE DEF q, k
<1>5. /\ q.account \in Addresses /\ q.memo \in Memos \cup {None}
      /\ q.home \in HomeDomains \cup {None}
      /\ (q.memo # None => q.account \notin Muxed)
  BY <1>3, <1>4 DEF IssueError, Orelse
<1>6. /\ c.account = q.account /\ c.memo = q.memo /\ c.domain = q.domain
      /\ c.home = (IF q.home = None THEN FirstDomain ELSE q.home)
      /\ c.key = (IF q.domain = None THEN None ELSE k)
      /\ c.minTime = Unix(IssueTime) /\ c.maxTime = Unix(IssueTime + ChallengeTimeout)
  BY <1>4 DEF BuildChallenge
<1>7. Unix(IssueTime) \in Nat /\ Unix(IssueTime + ChallengeTimeout) \in Nat \ {0}
  BY EnvelopesAssumption, IssuerAssumption DEF Unix
<1>8. c.home \in HomeDomains
  BY <1>5, <1>6, IdentityAssumption
<1>9. q.domain \in ClientDomains => Published[q.domain] \subseteq Keys
  BY EnvelopesAssumption
<1>10. \/ c.domain = None /\ c.key = None
       \/ c.domain \in ClientDomains /\ c.key \in Keys
  BY <1>3, <1>4, <1>6, <1>9
<1> QED BY <1>5, <1>6, <1>7, <1>8, <1>10 DEF Orelse, Addresses

\* The operations of the envelope that carries it.
LEMMA OpsOfIssued ==
    ASSUME NEW c \in IssuedAt(IssueTime), NEW n \in Nonces, NEW s \in SigLists
    PROVE  LET ops == EnvelopeOf(c, n, s).ops
           IN /\ ops \in Seq(Operation)
              /\ Len(ops) = IF c.domain = None THEN 2 ELSE 3
              /\ ops[1] = ManageData(c.account, c.home, n)
              /\ ops[2] = ManageData(Server, "web_auth_domain", WebAuthDomain)
              /\ c.domain # None =>
                   ops[3] = ManageData(c.key, "client_domain", c.domain)
<1> DEFINE a == ManageData(c.account, c.home, n)
           b == ManageData(Server, "web_auth_domain", WebAuthDomain)
           d == ManageData(c.key, "client_domain", c.domain)
           front == <<a, b>>
           rest == ClientDomainOps(c)
           ops == front \o rest
<1>1. a \in Operation
  BY IssuedIs DEF ManageData, Operation, Orelse
<1>2. b \in Operation
  BY IdentityAssumption DEF ManageData, Operation, Orelse, Addresses
<1>3. c.domain # None => d \in Operation
  BY IssuedIs DEF ManageData, Operation, Orelse, Addresses
<1>4. rest = IF c.domain = None THEN <<>> ELSE <<d>>
  BY DEF ClientDomainOps
<1>5. EnvelopeOf(c, n, s).ops = ops
  BY DEF EnvelopeOf
<1> HIDE DEF a, b, d, rest
<1>6. front \in Seq(Operation) /\ Len(front) = 2 /\ front[1] = a /\ front[2] = b
  BY <1>1, <1>2
<1>7. /\ rest \in Seq(Operation) /\ Len(rest) = (IF c.domain = None THEN 0 ELSE 1)
      /\ c.domain # None => rest[1] = d
  <2>1. CASE c.domain = None
    BY <1>4, <2>1
  <2>2. CASE c.domain # None
    BY <1>3, <1>4, <2>2
  <2> QED BY <2>1, <2>2
<1> HIDE DEF front
<1>8. front \in Seq(Operation) /\ rest \in Seq(Operation)
  BY <1>6, <1>7
<1>9. /\ ops \in Seq(Operation) /\ Len(ops) = Len(front) + Len(rest)
      /\ \A i \in 1..(Len(front) + Len(rest)) :
           ops[i] = IF i <= Len(front) THEN front[i] ELSE rest[i - Len(front)]
  BY <1>8, ConcatProperties, Zenon
<1> HIDE DEF ops
<1>10. Len(ops) = (IF c.domain = None THEN 2 ELSE 3)
  BY <1>6, <1>7, <1>9
<1>11. ops[1] = a /\ ops[2] = b /\ (c.domain # None => ops[3] = d)
  BY <1>6, <1>7, <1>9
<1> QED BY <1>5, <1>9, <1>10, <1>11 DEF a, b, d

LEMMA IssuedIsEnvelope ==
    ASSUME NEW c \in IssuedAt(IssueTime), NEW n \in Nonces, NEW s \in SigLists
    PROVE  EnvelopeOf(c, n, s) \in Envelope
<1>1. EnvelopeOf(c, n, s).ops \in Seq(Operation)
  BY OpsOfIssued
<1>2. s \in Seq(Keys)
  BY EnvelopesAssumption
<1>3. c.memo \in Orelse(Memos \cup {Other}) /\ c.minTime \in Nat /\ c.maxTime \in Nat
  BY IssuedIs DEF Orelse
<1> QED
  BY <1>1, <1>2, <1>3, IdentityAssumption DEF EnvelopeOf, Envelope, Addresses
-----------------------------------------------------------------------------
\* Where an envelope came from, which nothing changes.
Signed ==
    origin # None =>
        /\ origin.challenge \in IssuedAt(IssueTime)
        /\ origin.nonce \in Nonces /\ origin.sigs \in SigLists
        /\ env = EnvelopeOf(origin.challenge, origin.nonce, origin.sigs)

LEMMA ReadInit == Init => ReadInv /\ Signed /\ result = "none"
<1> SUFFICES ASSUME Init PROVE ReadInv /\ Signed /\ result = "none"
  OBVIOUS
<1>1. env \in Envelope /\ Signed
  <2>1. CASE env \in Envelopes /\ origin = None
    BY <2>1, EnvelopesAssumption DEF Signed
  <2>2. ASSUME NEW c \in IssuedAt(IssueTime), NEW n \in Nonces, NEW s \in SigLists,
               origin = [challenge |-> c, nonce |-> n, sigs |-> s],
               env = EnvelopeOf(c, n, s)
        PROVE  env \in Envelope /\ Signed
    BY <2>2, IssuedIsEnvelope DEF Signed
  <2> QED BY <2>1, <2>2 DEF Init
<1>2. /\ at = 1 /\ sawWebAuthDomain = FALSE /\ sawClientDomain = FALSE
      /\ result = "none"
  BY DEF Init
<1>3. ReadSoFar /\ ResultTells
  BY <1>2 DEF ReadSoFar, ResultTells
<1>4. ReadType
  <2>1. FALSE \in BOOLEAN /\ 1 \in Nat \ {0}
    OBVIOUS
  <2> QED BY <1>1, <1>2, <2>1, Zenon DEF ReadType
<1> QED BY <1>1, <1>2, <1>3, <1>4 DEF ReadInv

\* On envelopes of any length and for every set of keys, domains, nonces and
\* memos: the early returns of ReadChallenge and its loop with two flags accept
\* exactly what SEP-10 allows.
THEOREM AcceptsExactlyTheRulesHolds == Spec => []AcceptsExactlyTheRules
BY ReadInit, ReadNext, ReadIsEnough, PTL DEF Spec
-----------------------------------------------------------------------------
\* Reading a challenge of this server's: the client domain, if there is one, is
\* in the third operation.
ReadBack(c, n, k) ==
    [account |-> c.account, home |-> c.home, memo |-> c.memo, nonce |-> n,
     domain |-> IF k > 3 THEN c.domain ELSE None,
     key |-> IF k > 3 THEN c.key ELSE None]

AsSigned ==
    origin # None =>
        /\ at > 1 => challenge = ReadBack(origin.challenge, origin.nonce, at)
        /\ result # "none" =>
             result = ReadError(origin.challenge, origin.sigs, time)

SignedInv == ReadInv /\ Signed /\ AsSigned

\* What the header's checks look at, of a challenge of this server's.
LEMMA HeaderOfIssued ==
    ASSUME NEW c \in IssuedAt(IssueTime), NEW n \in Nonces, NEW s \in SigLists,
           NEW t
    PROVE  LET e == EnvelopeOf(c, n, s)
           IN /\ InTimebounds(e, t) <=> InTimebounds(c, t)
              /\ HeaderError(e, t) = IF InTimebounds(c, t) THEN "ok"
                                     ELSE "ChallengeExpired"
              /\ Head(e.ops) = ManageData(c.account, c.home, n)
              /\ e.memo = c.memo /\ e.sigs = s
<1> DEFINE e == EnvelopeOf(c, n, s)
<1>1. /\ e.parses /\ e.source = Server /\ e.sequence = 0 /\ e.memo = c.memo
      /\ e.minTime = c.minTime /\ e.maxTime = c.maxTime /\ e.sigs = s
  BY DEF EnvelopeOf
<1>2. /\ e.ops \in Seq(Operation) /\ Len(e.ops) \in {2, 3}
      /\ e.ops[1] = ManageData(c.account, c.home, n)
  BY OpsOfIssued
<1> HIDE DEF e
<1>3. e.ops # <<>> /\ Head(e.ops) = ManageData(c.account, c.home, n)
  BY <1>2
<1>4. /\ Head(e.ops).data /\ Head(e.ops).source = c.account
      /\ Head(e.ops).name = c.home /\ Head(e.ops).value = n
  BY <1>3 DEF ManageData
<1>5. /\ c.account # None /\ c.home \in HomeDomains /\ c.memo \in Orelse(Memos)
      /\ (c.memo # None => c.account \notin Muxed) /\ c.maxTime # 0
  BY IssuedIs, IdentityAssumption, NoneAssumption DEF Addresses
<1>6. InTimebounds(e, t) <=> InTimebounds(c, t)
  BY <1>1 DEF InTimebounds
<1>7. HeaderError(e, t) = IF InTimebounds(c, t) THEN "ok" ELSE "ChallengeExpired"
  BY <1>1, <1>3, <1>4, <1>5, <1>6 DEF HeaderError
<1> QED BY <1>1, <1>3, <1>6, <1>7 DEF e

LEMMA SignedNext == SignedInv /\ [Next]_vars => SignedInv'
<1> SUFFICES ASSUME SignedInv, [Next]_vars PROVE SignedInv'
  OBVIOUS
<1>1. ReadInv' /\ env' = env /\ origin' = origin /\ time' = time
  BY ReadNext
     DEF SignedInv, Next, vars, ReadHeader, ReadOp, CheckServerSignature
<1>2. Signed'
  BY <1>1 DEF SignedInv, Signed
<1> SUFFICES ASSUME origin # None PROVE AsSigned'
  BY <1>1, <1>2 DEF SignedInv, AsSigned
<1> DEFINE c == origin.challenge
           n == origin.nonce
           s == origin.sigs
<1>3. /\ c \in IssuedAt(IssueTime) /\ n \in Nonces /\ s \in SigLists
      /\ env = EnvelopeOf(c, n, s)
  BY DEF SignedInv, Signed
<1>4. /\ at > 1 => challenge = ReadBack(c, n, at)
      /\ result # "none" => result = ReadError(c, s, time)
  BY DEF SignedInv, AsSigned
<1>5. ASSUME at' > 1 => challenge' = ReadBack(c, n, at'),
             result' # "none" => result' = ReadError(c, s, time)
      PROVE  AsSigned'
  BY <1>1, <1>5 DEF AsSigned
<1> HIDE DEF c, n, s
<1>6. /\ InTimebounds(env, time) <=> InTimebounds(c, time)
      /\ HeaderError(env, time) = IF InTimebounds(c, time) THEN "ok"
                                  ELSE "ChallengeExpired"
      /\ Head(env.ops) = ManageData(c.account, c.home, n)
      /\ env.memo = c.memo /\ env.sigs = s
  BY <1>3, HeaderOfIssued
<1>7. /\ Len(env.ops) = IF c.domain = None THEN 2 ELSE 3
      /\ env.ops[2] = ManageData(Server, "web_auth_domain", WebAuthDomain)
      /\ c.domain # None =>
           env.ops[3] = ManageData(c.key, "client_domain", c.domain)
  BY <1>3, OpsOfIssued
<1>8. /\ \/ c.domain = None /\ c.key = None
         \/ c.domain \in ClientDomains /\ c.key \in Keys
      /\ Server # None /\ None \notin ClientDomains
  BY <1>3, IssuedIs, IdentityAssumption, NoneAssumption
<1>9. /\ ReadType /\ ReadSoFar
      /\ at > 1 => InTimebounds(c, time)
  BY <1>6 DEF SignedInv, ReadInv, ReadSoFar, HeaderOk
<1>10. CASE ReadHeader
  <2>1. CASE InTimebounds(c, time)
    <3>1. /\ at' = 2 /\ result' = "none"
          /\ challenge' = [account |-> Head(env.ops).source,
                           home |-> Head(env.ops).name, memo |-> env.memo,
                           nonce |-> Head(env.ops).value,
                           domain |-> None, key |-> None]
      BY <1>6, <1>10, <2>1 DEF ReadHeader
    <3>2. challenge' = ReadBack(c, n, 2)
      BY <1>6, <3>1 DEF ReadBack, ManageData
    <3> QED BY <1>5, <3>1, <3>2
  <2>2. CASE ~InTimebounds(c, time)
    <3>1. at' = 1 /\ result' = "ChallengeExpired"
      BY <1>6, <1>10, <2>2 DEF ReadHeader
    <3> QED BY <1>5, <2>2, <3>1 DEF ReadError
  <2> QED BY <2>1, <2>2
<1>11. CASE ReadOp
  <2>1. at \in {2, 3} /\ (at = 3 => c.domain # None) /\ result = "none"
    BY <1>7, <1>11 DEF ReadOp
  <2>2. challenge = [account |-> c.account, home |-> c.home, memo |-> c.memo,
                     nonce |-> n, domain |-> None, key |-> None]
    BY <1>4, <2>1 DEF ReadBack
  <2>3. CASE at = 2
    <3>1. env.ops[at].name = "web_auth_domain" /\ OpOk(env.ops[at])
      BY <1>7, <1>8, <2>3, IdentityAssumption DEF ManageData, OpOk
    <3>2. ~sawWebAuthDomain
      BY <1>9, <2>3 DEF ReadSoFar, NamedBefore
    <3>3. ~OpFault(env.ops[at], sawWebAuthDomain, sawClientDomain)
      BY <1>9, <3>1, <3>2, OpFaultIs DEF ReadType
    <3>4. at' = 3 /\ challenge' = challenge /\ result' = "none"
      BY <1>11, <2>1, <2>3, <3>1, <3>3 DEF ReadOp
    <3> QED BY <1>5, <2>2, <3>4 DEF ReadBack
  <2>4. CASE at = 3
    <3>1. /\ env.ops[at].name = "client_domain" /\ env.ops[at].data
          /\ env.ops[at].source = c.key /\ env.ops[at].value = c.domain
          /\ c.key \in Keys /\ c.key # None /\ c.domain # None
      BY <1>7, <1>8, <2>1, <2>4, NoneAssumption DEF ManageData
    <3>2. ~sawClientDomain
      <4>1. \A i \in 2..(at - 1) : i = 2
        BY <2>4
      <4>2. env.ops[2].name # "client_domain"
        BY <1>7 DEF ManageData
      <4> QED BY <1>9, <2>4, <4>1, <4>2 DEF ReadSoFar, NamedBefore
    <3>3. OpFault(env.ops[at], sawWebAuthDomain, sawClientDomain) <=> c.key = Server
      BY <3>1, <3>2 DEF OpFault
    <3>4. CASE c.key = Server
      <4>1. at' = at /\ challenge' = challenge /\ result' = "ChallengeMalformed"
        BY <1>11, <3>3, <3>4 DEF ReadOp
      <4> QED BY <1>4, <1>5, <1>9, <2>4, <3>4, <4>1 DEF ReadError
    <3>5. CASE c.key # Server
      <4>1. /\ at' = 4 /\ result' = "none"
            /\ challenge' = [challenge EXCEPT !.domain = c.domain, !.key = c.key]
        BY <1>11, <2>1, <2>4, <3>1, <3>3, <3>5 DEF ReadOp
      <4>2. challenge' = [account |-> c.account, home |-> c.home,
                          memo |-> c.memo, nonce |-> n, domain |-> c.domain,
                          key |-> c.key]
        BY <2>2, <4>1
      <4>3. ReadBack(c, n, 4) = challenge'
        BY <4>2 DEF ReadBack
      <4> QED BY <1>5, <4>1, <4>3
    <3> QED BY <3>4, <3>5
  <2> QED BY <2>1, <2>3, <2>4
<1>12. CASE CheckServerSignature
  <2>1. /\ at' = at /\ challenge' = challenge /\ at > 1 /\ at = Len(env.ops) + 1
        /\ result' = IF Server \in ToSet(s) THEN "ok" ELSE "ChallengeMalformed"
    BY <1>6, <1>12 DEF CheckServerSignature
  <2>2. c.key # Server
    <3>1. CASE c.domain # None
      <4>1. at = 4 /\ OpOk(env.ops[3])
        BY <1>7, <1>9, <2>1, <3>1 DEF ReadSoFar
      <4> QED BY <1>7, <3>1, <4>1 DEF OpOk, ManageData
    <3> QED BY <1>8, <3>1
  <2> QED BY <1>4, <1>5, <1>9, <2>1, <2>2 DEF ReadError
<1>13. CASE UNCHANGED vars
  BY <1>4, <1>5, <1>13 DEF vars
<1>14. ReadHeader \/ ReadOp \/ CheckServerSignature \/ UNCHANGED vars
  BY DEF Next
<1> QED BY <1>10, <1>11, <1>12, <1>13, <1>14

LEMMA SignedIsEnough == SignedInv => ReadsWhatWasSigned
<1> SUFFICES ASSUME SignedInv, result # "none", origin # None
             PROVE  /\ result = ReadError(origin.challenge, origin.sigs, time)
                    /\ result = "ok" =>
                         challenge = [account |-> origin.challenge.account,
                                      home |-> origin.challenge.home,
                                      memo |-> origin.challenge.memo,
                                      nonce |-> origin.nonce,
                                      domain |-> origin.challenge.domain,
                                      key |-> origin.challenge.key]
  BY DEF ReadsWhatWasSigned
<1> DEFINE c == origin.challenge
<1>1. /\ result = ReadError(c, origin.sigs, time)
      /\ at > 1 => challenge = ReadBack(c, origin.nonce, at)
  BY DEF SignedInv, AsSigned
<1>2. /\ Len(env.ops) = IF c.domain = None THEN 2 ELSE 3
      /\ c.domain = None => c.key = None
  BY OpsOfIssued, IssuedIs, NoneAssumption DEF SignedInv, Signed
<1>3. result = "ok" => at > 1 /\ at = Len(env.ops) + 1
  BY DEF SignedInv, ReadInv, ResultTells
<1> HIDE DEF c
<1>4. result = "ok" =>
        challenge = [account |-> c.account, home |-> c.home, memo |-> c.memo,
                     nonce |-> origin.nonce, domain |-> c.domain, key |-> c.key]
  BY <1>1, <1>2, <1>3 DEF ReadBack
<1> QED BY <1>1, <1>4 DEF c

\* For every challenge Issue can build, whatever signatures a client puts on it
\* and whenever it comes back: ReadChallenge recovers exactly what was signed, or
\* refuses as ReadError says.
THEOREM ReadsWhatWasSignedHolds == Spec => []ReadsWhatWasSigned
<1>1. Init => SignedInv
  BY ReadInit DEF Init, SignedInv, AsSigned
<1> QED BY <1>1, SignedNext, SignedIsEnough, PTL DEF Spec
=============================================================================
