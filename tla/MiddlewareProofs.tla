-------------------------- MODULE MiddlewareProofs --------------------------
(***************************************************************************)
(* The chain of NewRouter, for any number of requests, clients and tokens. *)
(* A request's place in the chain says what was written for it; a client's *)
(* bucket is short by exactly the requests it got through to the handlers. *)
(***************************************************************************)
EXTENDS Middleware, FiniteSetTheorems, SequenceTheorems, TLAPS

\* With TrustProxyHeaders there is one middleware more, before recoverPanic.
Extra == IF trust THEN 1 ELSE 0

ChainType ==
    /\ trust \in BOOLEAN
    /\ mode \in [Requests -> {"in", "out", "panic", "sent", "aborted"}]
    /\ depth \in [Requests -> Nat]
    /\ addr \in [Requests -> Addresses]
    /\ left \in [Addresses -> Nat]
    /\ status \in [Requests -> Nat \cup {None}]
    /\ bodies \in [Requests -> Nat]
    /\ log \in [Requests -> SUBSET {"request", "panic"}]
    /\ panicked \in [Requests -> {"value", "ErrAbortHandler", None}]

\* On the way in nothing was written, and RealIP has been passed or not.
WayIn(r) ==
    mode[r] = "in" =>
        /\ depth[r] \in 1..(6 + Extra)
        /\ status[r] = None /\ bodies[r] = 0 /\ panicked[r] = None
        /\ addr[r] = IF depth[r] < 2 + Extra THEN Peer[r] ELSE Client(r)

\* On the way out, and once sent, one body was: recoverPanic's if there was a
\* panic, which is then over.
Answered(r) ==
    /\ status[r] # None /\ bodies[r] = 1
    /\ panicked[r] # None => status[r] = 500 /\ "panic" \in log[r]

WayOut(r) ==
    /\ mode[r] = "out" => Answered(r) /\ depth[r] \in 0..(5 + Extra)
    /\ mode[r] = "sent" => Answered(r) /\ depth[r] = 0

\* An unwinding request has no answer; past recoverPanic it is an abort.
Unwinding(r) ==
    /\ mode[r] = "panic" =>
         /\ depth[r] \in 0..(5 + Extra)
         /\ status[r] = None /\ bodies[r] = 0 /\ panicked[r] # None
         /\ depth[r] < 2 + Extra => panicked[r] = "ErrAbortHandler"
    /\ mode[r] = "aborted" =>
         depth[r] = 0 /\ status[r] = None /\ panicked[r] = "ErrAbortHandler"

PlaceTells == \A r \in Requests : WayIn(r) /\ WayOut(r) /\ Unwinding(r)

\* The bucket's account: what is gone from it are the requests let through.
Accounted ==
    /\ \A a \in Addresses :
         /\ IsFiniteSet(LetThrough(a))
         /\ Cardinality(LetThrough(a)) = Burst - left[a]
    /\ \A r \in Requests : status[r] = 429 => left[Client(r)] = 0

ChainInv == ChainType /\ PlaceTells /\ Accounted
-----------------------------------------------------------------------------
Names == {"RequestID", "RealIP", "recoverPanic", "requestLogger", "limitBody",
          "limiter"}

\* The chain in full, without RealIP and with it.
LEMMA ChainIs ==
    ASSUME trust \in BOOLEAN
    PROVE  /\ Len(Chain) = 5 + Extra
           /\ Chain[1] = "RequestID" /\ (trust => Chain[2] = "RealIP")
           /\ Chain[2 + Extra] = "recoverPanic"
           /\ Chain[3 + Extra] = "requestLogger"
           /\ Chain[4 + Extra] = "limitBody" /\ Chain[5 + Extra] = "limiter"
<1> DEFINE first == <<"RequestID">>
           real == IF trust THEN <<"RealIP">> ELSE <<>>
           front == first \o real
           rest == <<"recoverPanic", "requestLogger", "limitBody", "limiter">>
           chain == front \o rest
<1>1. first \in Seq(Names) /\ Len(first) = 1 /\ first[1] = "RequestID"
  BY DEF Names
<1>2. real \in Seq(Names) /\ Len(real) = Extra /\ (trust => real[1] = "RealIP")
  <2>1. <<"RealIP">> \in Seq(Names) /\ <<>> \in Seq(Names)
    BY DEF Names
  <2>2. CASE trust
    BY <2>1, <2>2 DEF Extra
  <2>3. CASE ~trust
    BY <2>1, <2>3 DEF Extra
  <2> QED BY <2>2, <2>3
<1>3. /\ rest \in Seq(Names) /\ Len(rest) = 4
      /\ rest[1] = "recoverPanic" /\ rest[2] = "requestLogger"
      /\ rest[3] = "limitBody" /\ rest[4] = "limiter"
  BY DEF Names
<1>4. Extra \in {0, 1} /\ (trust => Extra = 1)
  BY DEF Extra
<1>5. Chain = chain
  BY DEF Chain
<1> HIDE DEF first, real, rest
<1>6. /\ front \in Seq(Names) /\ Len(front) = Len(first) + Len(real)
      /\ \A i \in 1..(Len(first) + Len(real)) :
           front[i] = IF i <= Len(first) THEN first[i] ELSE real[i - Len(first)]
  BY <1>1, <1>2, ConcatProperties, Zenon
<1> HIDE DEF front
<1>a. front \in Seq(Names) /\ rest \in Seq(Names)
  BY <1>3, <1>6
<1>7. /\ Len(chain) = Len(front) + Len(rest)
      /\ \A i \in 1..(Len(front) + Len(rest)) :
           chain[i] = IF i <= Len(front) THEN front[i] ELSE rest[i - Len(front)]
  BY <1>a, ConcatProperties, Zenon
<1> HIDE DEF chain
<1>8. /\ Len(front) = 1 + Extra /\ front[1] = "RequestID"
      /\ trust => front[2] = "RealIP"
  BY <1>1, <1>2, <1>4, <1>6
<1>9. Len(chain) = 5 + Extra
  BY <1>3, <1>4, <1>7, <1>8
<1>10. chain[1] = "RequestID" /\ (trust => chain[2] = "RealIP")
  BY <1>3, <1>4, <1>7, <1>8
<1>11. /\ chain[2 + Extra] = "recoverPanic" /\ chain[3 + Extra] = "requestLogger"
       /\ chain[4 + Extra] = "limitBody" /\ chain[5 + Extra] = "limiter"
  BY <1>3, <1>4, <1>7, <1>8
<1> QED BY <1>5, <1>9, <1>10, <1>11

\* Where a request is, by its depth.
LEMMA Places ==
    ASSUME trust \in BOOLEAN, NEW r \in Requests, depth[r] \in Nat
    PROVE  /\ InHandler(r) <=> depth[r] = 6 + Extra
           /\ Within(r, "RealIP") <=> trust /\ depth[r] = 2
           /\ Within(r, "recoverPanic") <=> depth[r] = 2 + Extra
           /\ Within(r, "requestLogger") <=> depth[r] = 3 + Extra
           /\ Within(r, "limitBody") <=> depth[r] = 4 + Extra
           /\ Within(r, "limiter") <=> depth[r] = 5 + Extra
           /\ Within(r, "RequestID") <=> depth[r] = 1
<1>1. CASE trust
  <2>1. Extra = 1
    BY <1>1 DEF Extra
  <2>2. /\ Len(Chain) = 6 /\ Chain[1] = "RequestID" /\ Chain[2] = "RealIP"
        /\ Chain[3] = "recoverPanic" /\ Chain[4] = "requestLogger"
        /\ Chain[5] = "limitBody" /\ Chain[6] = "limiter"
    BY <1>1, <2>1, ChainIs
  <2>3. depth[r] \in 1..6 => depth[r] \in {1, 2, 3, 4, 5, 6}
    OBVIOUS
  <2> QED BY <1>1, <2>1, <2>2, <2>3 DEF InHandler, Within
<1>2. CASE ~trust
  <2>1. Extra = 0
    BY <1>2 DEF Extra
  <2>2. /\ Len(Chain) = 5 /\ Chain[1] = "RequestID"
        /\ Chain[2] = "recoverPanic" /\ Chain[3] = "requestLogger"
        /\ Chain[4] = "limitBody" /\ Chain[5] = "limiter"
    BY <2>1, ChainIs
  <2>3. depth[r] \in 1..5 => depth[r] \in {1, 2, 3, 4, 5}
    OBVIOUS
  <2> QED BY <1>2, <2>1, <2>2, <2>3 DEF InHandler, Within
<1> QED BY <1>1, <1>2

LEMMA ClientIsAddress ==
    ASSUME NEW r \in Requests
    PROVE  Client(r) \in Addresses /\ Peer[r] \in Addresses
BY ChainAssumption DEF Client
-----------------------------------------------------------------------------
RequestStep(r) ==
    \/ Enter(r) \/ RealIP(r) \/ LimiterAllows(r) \/ LimiterRefuses(r)
    \/ HandlerAnswers(r) \/ HandlerPanics(r)
    \/ Leave(r) \/ Unwind(r) \/ Recover(r) \/ Finish(r)

LEMMA TrustIsFixed ==
    ASSUME NEW r \in Requests, RequestStep(r)
    PROVE  /\ trust' = trust /\ Extra' = Extra
           /\ \A q \in Requests : Client(q)' = Client(q)
<1>1. trust' = trust
  BY DEF RequestStep, Enter, RealIP, LimiterAllows, LimiterRefuses,
         HandlerAnswers, HandlerPanics, Leave, Unwind, Recover, Finish
<1> QED BY <1>1 DEF Extra, Client

LEMMA AnswerCodes ==
    ASSUME NEW route \in DOMAIN Answers, NEW s \in Answers[route]
    PROVE  s \in Nat /\ s # 429
<1>1. route \in {"health", "auth", "toml", "other"}
  BY DEF Answers
<1> QED BY <1>1 DEF Answers, healthAnswers, tomlAnswers

\* Each step keeps the types, and the place a request is in goes on saying what
\* was written for it.
LEMMA StepKeepsPlace ==
    ASSUME ChainType, PlaceTells, NEW r \in Requests, RequestStep(r)
    PROVE  ChainType' /\ PlaceTells'
<1>0. /\ trust' = trust /\ Extra' = Extra /\ Extra \in {0, 1}
      /\ \A q \in Requests : Client(q)' = Client(q)
  BY TrustIsFixed DEF Extra
<1>1. WayIn(r) /\ WayOut(r) /\ Unwinding(r)
  BY DEF PlaceTells
<1>2. /\ InHandler(r) <=> depth[r] = 6 + Extra
      /\ Within(r, "RealIP") <=> trust /\ depth[r] = 2
      /\ Within(r, "recoverPanic") <=> depth[r] = 2 + Extra
      /\ Within(r, "requestLogger") <=> depth[r] = 3 + Extra
      /\ Within(r, "limitBody") <=> depth[r] = 4 + Extra
      /\ Within(r, "limiter") <=> depth[r] = 5 + Extra
      /\ Within(r, "RequestID") <=> depth[r] = 1
  BY Places DEF ChainType
<1>3. ASSUME ChainType', WayIn(r)' /\ WayOut(r)' /\ Unwinding(r)',
             \A q \in Requests \ {r} :
               /\ mode'[q] = mode[q] /\ depth'[q] = depth[q]
               /\ addr'[q] = addr[q] /\ status'[q] = status[q]
               /\ bodies'[q] = bodies[q] /\ log'[q] = log[q]
               /\ panicked'[q] = panicked[q]
      PROVE  ChainType' /\ PlaceTells'
  <2> SUFFICES ASSUME NEW q \in Requests \ {r}
               PROVE  (WayIn(q) /\ WayOut(q) /\ Unwinding(q))'
    BY <1>3 DEF PlaceTells
  <2>1. WayIn(q) /\ WayOut(q) /\ Unwinding(q)
    BY DEF PlaceTells
  <2> QED BY <1>0, <1>3, <2>1 DEF WayIn, WayOut, Unwinding, Answered
<1>4. Client(r) \in Addresses /\ Peer[r] \in Addresses
  BY ClientIsAddress
<1>5. CASE Enter(r)
  <2>1. ChainType'
    BY <1>0, <1>5 DEF ChainType, Enter, Deeper
  <2>2. depth[r] \notin {5 + Extra, 6 + Extra}
    BY <1>0, <1>2, <1>5 DEF Enter, ChainType
  <2> QED
    BY <1>0, <1>1, <1>2, <1>3, <1>5, <2>1, <2>2
       DEF ChainType, Enter, Deeper, WayIn, WayOut, Unwinding, Client, Extra
<1>6. CASE RealIP(r)
  <2>1. trust /\ depth[r] = 2 /\ Extra = 1 /\ addr[r] = Peer[r]
    BY <1>1, <1>2, <1>6 DEF RealIP, WayIn, Extra
  <2>2. addr' = [addr EXCEPT ![r] = Client(r)]
    BY <1>6, <2>1 DEF RealIP, Client, ChainType
  <2>3. ChainType'
    BY <1>4, <1>6, <2>2 DEF ChainType, RealIP, Deeper
  <2> HIDE DEF Client
  <2> QED
    BY <1>0, <1>1, <1>3, <1>6, <2>1, <2>2, <2>3
       DEF ChainType, RealIP, Deeper, WayIn, WayOut, Unwinding
<1>7. CASE LimiterAllows(r)
  <2>1. ChainType'
    BY <1>0, <1>7 DEF ChainType, LimiterAllows, Deeper
  <2> QED
    BY <1>0, <1>1, <1>2, <1>3, <1>7, <2>1
       DEF ChainType, LimiterAllows, Deeper, WayIn, WayOut, Unwinding
<1>8. CASE LimiterRefuses(r)
  BY <1>0, <1>1, <1>2, <1>3, <1>8, ChainAssumption
     DEF ChainType, LimiterRefuses, Outward, Write, WayIn, WayOut, Unwinding,
         Answered
<1>9. CASE HandlerAnswers(r)
  <2>1. PICK s \in Nat : Write(r, s)
    BY <1>9, AnswerCodes DEF HandlerAnswers
  <2> QED
    BY <1>0, <1>1, <1>2, <1>3, <1>9, <2>1, ChainAssumption
       DEF ChainType, HandlerAnswers, Outward, Write, WayIn, WayOut, Unwinding,
           Answered
<1>10. CASE HandlerPanics(r)
  BY <1>0, <1>1, <1>2, <1>3, <1>10, ChainAssumption
     DEF ChainType, HandlerPanics, Outward, WayIn, WayOut, Unwinding
<1>11. CASE Leave(r)
  <2>1. log' \in [Requests -> SUBSET {"request", "panic"}]
        /\ \A q \in Requests : log[q] \subseteq log'[q]
                               /\ (q # r => log'[q] = log[q])
    BY <1>11 DEF ChainType, Leave, Log
  <2>2. ChainType'
    <3>1. /\ trust' = trust /\ mode' = mode /\ addr' = addr /\ left' = left
          /\ status' = status /\ bodies' = bodies /\ panicked' = panicked
      BY <1>11 DEF Leave
    <3>2. depth' \in [Requests -> Nat]
      BY <1>11 DEF ChainType, Leave, Outward
    <3>3. log' \in [Requests -> SUBSET {"request", "panic"}]
      BY <2>1
    <3> QED BY <3>1, <3>2, <3>3 DEF ChainType
  <2>3. Answered(r)'
    BY <1>1, <1>11, <2>1 DEF Leave, WayOut, Answered
  <2> QED
    BY <1>0, <1>1, <1>3, <1>11, <2>1, <2>2, <2>3
       DEF ChainType, Leave, Outward, WayIn, WayOut, Unwinding
<1>12. CASE Unwind(r)
  BY <1>0, <1>1, <1>2, <1>3, <1>12
     DEF ChainType, Unwind, Outward, WayIn, WayOut, Unwinding
<1>13. CASE Recover(r)
  BY <1>0, <1>1, <1>2, <1>3, <1>13, ChainAssumption
     DEF ChainType, Recover, Outward, Write, Log, WayIn, WayOut, Unwinding,
         Answered
<1>14. CASE Finish(r)
  BY <1>0, <1>1, <1>2, <1>3, <1>14
     DEF ChainType, Finish, WayIn, WayOut, Unwinding, Answered
<1> QED
  BY <1>5, <1>6, <1>7, <1>8, <1>9, <1>10, <1>11, <1>12, <1>13, <1>14
     DEF RequestStep
-----------------------------------------------------------------------------
\* The limiter let a request through: what LetThrough collects for a client.
Passed(r) ==
    panicked[r] # None \/ InHandler(r) \/ status[r] \notin {None, 429}

\* A step that lets nobody through leaves every account as it was.
LEMMA AccountStays ==
    ASSUME Accounted, NEW r \in Requests, RequestStep(r), left' = left,
           \A q \in Requests : Passed(q)' <=> Passed(q),
           \A q \in Requests :
             status'[q] = 429 => status[q] = 429 \/ left[Client(q)] = 0
    PROVE  Accounted'
<1>1. \A q \in Requests : Client(q)' = Client(q)
  BY TrustIsFixed
<1>2. \A a \in Addresses : LetThrough(a)' = LetThrough(a)
  BY <1>1 DEF LetThrough, Passed
<1> QED BY <1>1, <1>2 DEF Accounted

\* Of the other requests a step changes nothing that the accounts look at.
LEMMA OthersStay ==
    ASSUME ChainType, NEW r \in Requests, RequestStep(r),
           NEW q \in Requests \ {r}
    PROVE  status'[q] = status[q] /\ (Passed(q)' <=> Passed(q))
<1>1. status'[q] = status[q] /\ panicked'[q] = panicked[q] /\ depth'[q] = depth[q]
  BY DEF ChainType, RequestStep, Enter, RealIP, LimiterAllows, LimiterRefuses,
         HandlerAnswers, HandlerPanics, Leave, Unwind, Recover, Finish,
         Deeper, Outward, Write
<1>2. Chain' = Chain
  BY TrustIsFixed DEF Chain
<1> QED BY <1>1, <1>2 DEF Passed, InHandler

LEMMA StepKeepsAccount ==
    ASSUME ChainInv, NEW r \in Requests, RequestStep(r)
    PROVE  Accounted'
<1>0. ChainType /\ PlaceTells /\ Accounted /\ ChainType'
  BY StepKeepsPlace DEF ChainInv
<1>1. /\ trust' = trust /\ Extra' = Extra /\ Extra \in {0, 1}
      /\ \A q \in Requests : Client(q)' = Client(q)
  BY TrustIsFixed DEF Extra
<1>2. WayIn(r) /\ WayOut(r) /\ Unwinding(r)
  BY <1>0 DEF PlaceTells
<1>3. /\ InHandler(r) <=> depth[r] = 6 + Extra
      /\ Within(r, "recoverPanic") <=> depth[r] = 2 + Extra
      /\ Within(r, "limiter") <=> depth[r] = 5 + Extra
      /\ InHandler(r)' <=> depth'[r] = 6 + Extra
  <2>1. Chain' = Chain /\ Len(Chain) = 5 + Extra
    BY <1>0, <1>1, ChainIs DEF Chain, ChainType
  <2> QED BY <1>0, <1>1, <2>1, Places DEF ChainType, InHandler
<1>4. \A q \in Requests \ {r} : status'[q] = status[q] /\ (Passed(q)' <=> Passed(q))
  BY <1>0, OthersStay
<1>5. ASSUME left' = left, Passed(r)' <=> Passed(r),
             status'[r] = 429 => status[r] = 429 \/ left[Client(r)] = 0
      PROVE  Accounted'
  BY <1>0, <1>4, <1>5, AccountStays
<1>6. CASE Enter(r) \/ RealIP(r)
  <2>1. depth'[r] = depth[r] + 1 /\ depth[r] # 5 + Extra /\ depth[r] # 6 + Extra
    BY <1>0, <1>1, <1>3, <1>6, Places DEF Enter, RealIP, Deeper, ChainType
  <2>2. /\ status' = status /\ panicked' = panicked /\ left' = left
        /\ depth[r] \in Nat
    BY <1>0, <1>6 DEF Enter, RealIP, ChainType
  <2> QED BY <1>1, <1>3, <1>5, <2>1, <2>2 DEF Passed
<1>7. CASE LimiterAllows(r)
  <2>1. addr[r] = Client(r) /\ Client(r) \in Addresses
    BY <1>1, <1>2, <1>3, <1>7, ClientIsAddress DEF LimiterAllows, WayIn
  <2>2. ~Passed(r) /\ Passed(r)'
    BY <1>0, <1>1, <1>2, <1>3, <1>7
       DEF LimiterAllows, Deeper, WayIn, Passed, ChainType
  <2>3. left' = [left EXCEPT ![Client(r)] = @ - 1] /\ left[Client(r)] > 0
    BY <1>7, <2>1 DEF LimiterAllows
  <2>4. status' = status
    BY <1>7 DEF LimiterAllows
  <2>5. ASSUME NEW a \in Addresses, a # Client(r)
        PROVE  IsFiniteSet(LetThrough(a)') /\
               Cardinality(LetThrough(a)') = Burst - left'[a]
    <3>1. LetThrough(a)' = LetThrough(a)
      BY <1>1, <1>4, <2>5 DEF LetThrough, Passed
    <3> QED BY <1>0, <2>3, <2>5, <3>1 DEF Accounted, ChainType
  <2>6. ASSUME NEW a \in Addresses, a = Client(r)
        PROVE  IsFiniteSet(LetThrough(a)') /\
               Cardinality(LetThrough(a)') = Burst - left'[a]
    <3>1. LetThrough(a)' = LetThrough(a) \cup {r} /\ r \notin LetThrough(a)
      BY <1>1, <1>4, <2>2, <2>6 DEF LetThrough, Passed
    <3>2. IsFiniteSet(LetThrough(a)) /\ Cardinality(LetThrough(a)) = Burst - left[a]
      BY <1>0 DEF Accounted
    <3>3. /\ IsFiniteSet(LetThrough(a) \cup {r})
          /\ Cardinality(LetThrough(a) \cup {r}) = Cardinality(LetThrough(a)) + 1
      BY <3>1, <3>2, FS_AddElement
    <3>4. left'[a] = left[a] - 1 /\ left[a] \in Nat
      BY <1>0, <2>3, <2>6 DEF ChainType
    <3> QED BY <3>1, <3>2, <3>3, <3>4, ChainAssumption
  <2>7. ASSUME NEW q \in Requests, status'[q] = 429
        PROVE  left'[Client(q)] = 0
    BY <1>0, <2>1, <2>3, <2>4, <2>7, ClientIsAddress DEF Accounted, ChainType
  <2> QED BY <1>1, <2>5, <2>6, <2>7 DEF Accounted
<1>8. CASE LimiterRefuses(r)
  <2>1. addr[r] = Client(r) /\ left[Client(r)] = 0
    BY <1>1, <1>2, <1>3, <1>8 DEF LimiterRefuses, WayIn
  <2>2. ~Passed(r) /\ ~Passed(r)'
    BY <1>0, <1>1, <1>2, <1>3, <1>8
       DEF LimiterRefuses, Write, Outward, WayIn, Passed, ChainType
  <2> QED BY <1>5, <1>8, <2>1, <2>2 DEF LimiterRefuses
<1>9. CASE HandlerAnswers(r)
  <2>1. PICK s \in Nat : s # 429 /\ Write(r, s)
    BY <1>9, AnswerCodes DEF HandlerAnswers
  <2>2. status'[r] = s /\ s \notin {None, 429}
    BY <1>0, <1>2, <1>9, <2>1, ChainAssumption
       DEF HandlerAnswers, Write, WayIn, ChainType
  <2> QED BY <1>5, <1>9, <2>2 DEF HandlerAnswers, Passed
<1>10. CASE HandlerPanics(r)
  <2>1. Passed(r) /\ Passed(r)' /\ status' = status /\ left' = left
    BY <1>0, <1>10, ChainAssumption DEF HandlerPanics, Passed, ChainType
  <2> QED BY <1>5, <2>1
<1>11. CASE Leave(r) \/ Unwind(r) \/ Finish(r)
  <2>1. /\ status' = status /\ panicked' = panicked /\ left' = left
        /\ depth[r] \in 0..(5 + Extra) /\ depth'[r] \in {depth[r], depth[r] - 1}
    BY <1>0, <1>2, <1>11
       DEF Leave, Unwind, Finish, Outward, WayOut, Unwinding, ChainType
  <2> QED BY <1>1, <1>3, <1>5, <2>1 DEF Passed
<1>12. CASE Recover(r)
  <2>1. Passed(r) /\ Passed(r)' /\ left' = left
    BY <1>0, <1>2, <1>12 DEF Recover, Unwinding, Passed
  <2>2. status'[r] # 429
    BY <1>0, <1>2, <1>12, ChainAssumption
       DEF Recover, Write, Unwinding, ChainType
  <2> QED BY <1>5, <2>1, <2>2
<1> QED
  BY <1>6, <1>7, <1>8, <1>9, <1>10, <1>11, <1>12 DEF RequestStep
-----------------------------------------------------------------------------
LEMMA ChainInit == Init => ChainInv
<1> SUFFICES ASSUME Init PROVE ChainInv
  OBVIOUS
<1>1. ChainType
  BY ChainAssumption DEF Init, ChainType
<1>2. ASSUME NEW r \in Requests
      PROVE  WayIn(r) /\ WayOut(r) /\ Unwinding(r)
  <2>1. /\ mode[r] = "in" /\ depth[r] = 1 /\ status[r] = None /\ bodies[r] = 0
        /\ panicked[r] = None /\ addr[r] = Peer[r] /\ Extra \in {0, 1}
    BY DEF Init, Extra
  <2> QED BY <2>1 DEF WayIn, WayOut, Unwinding
<1>3. ASSUME NEW a \in Addresses
      PROVE  LetThrough(a) = {}
  <2>1. ASSUME NEW r \in Requests PROVE ~InHandler(r)
    <3>1. depth[r] = 1 /\ Extra \in {0, 1}
      BY DEF Init, Extra
    <3> QED BY <1>1, <3>1, Places DEF ChainType
  <2> QED BY <2>1 DEF Init, LetThrough
<1>4. Accounted
  <2>1. IsFiniteSet({}) /\ Cardinality({}) = 0
    BY FS_EmptySet
  <2>2. ASSUME NEW a \in Addresses PROVE left[a] = Burst /\ Burst - Burst = 0
    BY ChainAssumption DEF Init
  <2>3. ASSUME NEW r \in Requests PROVE status[r] # 429
    BY ChainAssumption DEF Init
  <2> QED BY <1>3, <2>1, <2>2, <2>3 DEF Accounted
<1> QED BY <1>1, <1>2, <1>4 DEF ChainInv, PlaceTells

LEMMA ChainNext == ChainInv /\ [Next]_vars => ChainInv'
<1> SUFFICES ASSUME ChainInv, [Next]_vars PROVE ChainInv'
  OBVIOUS
<1>1. ASSUME NEW r \in Requests, RequestStep(r)
      PROVE  ChainInv'
  BY <1>1, StepKeepsPlace, StepKeepsAccount DEF ChainInv
<1>2. CASE UNCHANGED vars
  <2>1. /\ trust' = trust /\ mode' = mode /\ depth' = depth /\ addr' = addr
        /\ left' = left /\ status' = status /\ bodies' = bodies /\ log' = log
        /\ panicked' = panicked
    BY <1>2 DEF vars
  <2>2. ChainType'
    BY <2>1 DEF ChainInv, ChainType
  <2>3. PlaceTells'
    BY <2>1 DEF ChainInv, PlaceTells, WayIn, WayOut, Unwinding, Answered, Extra,
                Client
  <2>4. \A r \in Requests : Client(r)' = Client(r)
    BY <2>1 DEF Client
  <2>5. \A a \in Addresses : LetThrough(a)' = LetThrough(a)
    BY <2>1, <2>4 DEF LetThrough, InHandler, Chain
  <2>6. Accounted'
    BY <2>1, <2>4, <2>5 DEF ChainInv, Accounted
  <2> QED BY <2>2, <2>3, <2>6 DEF ChainInv
<1>3. UNCHANGED vars \/ \E r \in Requests : RequestStep(r)
  BY DEF Next, Idle, RequestStep
<1> QED BY <1>1, <1>2, <1>3

LEMMA ChainInvHolds == Spec => []ChainInv
BY ChainInit, ChainNext, PTL DEF Spec

LEMMA ChainInvIsEnough == ChainInv => TypeOK /\ LimitIsPerClient /\ OneAnswer
<1> SUFFICES ASSUME ChainInv PROVE TypeOK /\ LimitIsPerClient /\ OneAnswer
  OBVIOUS
<1>1. ASSUME NEW a \in Addresses
      PROVE  /\ Cardinality(LetThrough(a)) \in Nat
             /\ Cardinality(LetThrough(a)) = Burst - left[a]
             /\ left[a] \in 0..Burst
  <2>1. IsFiniteSet(LetThrough(a)) /\ Cardinality(LetThrough(a)) = Burst - left[a]
    BY DEF ChainInv, Accounted
  <2>2. Cardinality(LetThrough(a)) \in Nat /\ left[a] \in Nat
    BY <2>1, FS_CardinalityType DEF ChainInv, ChainType
  <2> QED BY <2>1, <2>2, ChainAssumption
<1>2. TypeOK
  <2>1. \A r \in Requests : depth[r] \in 0..7
    BY DEF ChainInv, ChainType, PlaceTells, WayIn, WayOut, Unwinding, Extra
  <2>2. depth \in [Requests -> 0..7] /\ left \in [Addresses -> 0..Burst]
    BY <1>1, <2>1 DEF ChainInv, ChainType
  <2> QED BY <2>2 DEF ChainInv, ChainType, TypeOK
<1>3. LimitIsPerClient
  <2>1. ASSUME NEW a \in Addresses
        PROVE  Cardinality(LetThrough(a)) <= Burst
    BY <1>1, ChainAssumption
  <2>2. ASSUME NEW r \in Requests, status[r] = 429
        PROVE  Cardinality(LetThrough(Client(r))) = Burst
    <3>1. Client(r) \in Addresses /\ left[Client(r)] = 0
      BY <2>2, ClientIsAddress DEF ChainInv, Accounted
    <3> QED BY <1>1, <3>1, ChainAssumption
  <2> QED BY <2>1, <2>2 DEF LimitIsPerClient
<1>4. OneAnswer
  BY DEF ChainInv, PlaceTells, WayOut, Unwinding, Answered, OneAnswer
<1> QED BY <1>2, <1>3, <1>4

\* The state of the chain keeps its type, for any number of requests: none walks
\* out of the chain on either side, and no bucket is overdrawn.
THEOREM TypeCorrect == Spec => []TypeOK
BY ChainInvHolds, ChainInvIsEnough, PTL

\* However many requests of however many clients are in the chain NewRouter
\* builds, and whatever their headers claim: a client reaches the handlers at
\* most Burst times, and is answered 429 only after it has done so itself.
THEOREM LimitIsPerClientHolds == Spec => []LimitIsPerClient
BY ChainInvHolds, ChainInvIsEnough, PTL

\* Every request is answered once, a panicking handler's by recoverPanic with a
\* 500 and a line in the log; only http.ErrAbortHandler drops a connection.
THEOREM OneAnswerHolds == Spec => []OneAnswer
BY ChainInvHolds, ChainInvIsEnough, PTL
=============================================================================
