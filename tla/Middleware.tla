----------------------------- MODULE Middleware -----------------------------
(***************************************************************************)
(* The chain NewRouter puts around the handlers: every request walks into  *)
(* it, is answered somewhere, and comes back out by returning or, when a   *)
(* handler panics, by unwinding.  The limiter's buckets are those of       *)
(* RateLimiter within one instant, so that nothing is refilled; a handler  *)
(* is the statuses it may answer with, which it writes as its last act.    *)
(***************************************************************************)
EXTENDS Integers, Sequences, FiniteSets

CONSTANTS
    Requests,
    Peer,       \* the TCP peer of each request
    Forwarded,  \* the address its X-Forwarded-For names, or None
    Addresses,
    Burst,      \* tokens in a full bucket
    None

ASSUME ChainAssumption ==
    /\ Peer \in [Requests -> Addresses]
    /\ Forwarded \in [Requests -> Addresses \cup {None}]
    /\ Burst \in Nat \ {0}
    /\ None \notin Addresses \cup Nat \cup {"value", "ErrAbortHandler"}

VARIABLES
    trust,      \* TrustProxyHeaders
    mode,       \* a request walks in, comes out, unwinds, or is over
    depth,      \* the middleware of the chain it is in
    addr,       \* its RemoteAddr
    left,       \* tokens left for each address
    status,     \* the status line written, or None
    bodies,     \* how many bodies were written after it
    log,        \* the lines logged about it
    panicked    \* history: what its handler panicked with, or None

vars == <<trust, mode, depth, addr, left, status, bodies, log, panicked>>

\* Chains that a careless edit of NewRouter would leave behind.
Chain_trusting ==
    <<"RequestID", "RealIP", "recoverPanic", "requestLogger", "limitBody",
      "limiter">>
Chain_recovers_late ==
    <<"RequestID">> \o (IF trust THEN <<"RealIP">> ELSE <<>>)
      \o <<"requestLogger", "limitBody", "limiter">>

\* The order of r.Use; the handler comes after the last.
Chain ==
    <<"RequestID">> \o (IF trust THEN <<"RealIP">> ELSE <<>>)
      \o <<"recoverPanic", "requestLogger", "limitBody", "limiter">>

Within(r, name) ==
    depth[r] \in 1..Len(Chain) /\ Chain[depth[r]] = name

InHandler(r) == depth[r] = Len(Chain) + 1

\* healthHandler answers by Ping, tomlHandler from memory.
healthAnswers == {200, 503}
tomlAnswers == {200}

\* The routes; chi answers for a path or a method it does not know.
Answers ==
    [health |-> healthAnswers, auth |-> {200, 400, 401, 500, 503},
     toml |-> tomlAnswers, other |-> {404, 405}]

TypeOK ==
    /\ trust \in BOOLEAN
    /\ mode \in [Requests -> {"in", "out", "panic", "sent", "aborted"}]
    /\ depth \in [Requests -> 0..7]
    /\ addr \in [Requests -> Addresses]
    /\ left \in [Addresses -> 0..Burst]
    /\ status \in [Requests -> Nat \cup {None}]
    /\ bodies \in [Requests -> Nat]
    /\ log \in [Requests -> SUBSET {"request", "panic"}]
    /\ panicked \in [Requests -> {"value", "ErrAbortHandler", None}]

Init ==
    /\ trust \in BOOLEAN
    /\ mode = [r \in Requests |-> "in"]
    /\ depth = [r \in Requests |-> 1]
    /\ addr = Peer
    /\ left = [a \in Addresses |-> Burst]
    /\ status = [r \in Requests |-> None]
    /\ bodies = [r \in Requests |-> 0]
    /\ log = [r \in Requests |-> {}]
    /\ panicked = [r \in Requests |-> None]

Deeper(r) == depth' = [depth EXCEPT ![r] = @ + 1]
Outward(r) == depth' = [depth EXCEPT ![r] = @ - 1]
Log(r, line) == log' = [log EXCEPT ![r] = @ \cup {line}]

\* writeJSON: net/http keeps the first status line and appends every body.
Write(r, s) ==
    /\ status' = [status EXCEPT ![r] = IF @ = None THEN s ELSE @]
    /\ bodies' = [bodies EXCEPT ![r] = @ + 1]
-----------------------------------------------------------------------------
\* RequestID, recoverPanic, requestLogger and limitBody only pass it on.
Enter(r) ==
    /\ mode[r] = "in"
    /\ \E name \in {"RequestID", "recoverPanic", "requestLogger", "limitBody"} :
         Within(r, name)
    /\ Deeper(r)
    /\ UNCHANGED <<trust, mode, addr, left, status, bodies, log, panicked>>

RealIP(r) ==
    /\ mode[r] = "in" /\ Within(r, "RealIP")
    /\ addr' = IF Forwarded[r] = None THEN addr
               ELSE [addr EXCEPT ![r] = Forwarded[r]]
    /\ Deeper(r)
    /\ UNCHANGED <<trust, mode, left, status, bodies, log, panicked>>

\* A limiter that spends without looking.
LimiterAllows_unchecked(r) ==
    /\ mode[r] = "in" /\ Within(r, "limiter")
    /\ left' = [left EXCEPT ![addr[r]] = @ - 1]
    /\ Deeper(r)
    /\ UNCHANGED <<trust, mode, addr, status, bodies, log, panicked>>

LimiterAllows(r) ==
    /\ mode[r] = "in" /\ Within(r, "limiter")
    /\ left[addr[r]] > 0
    /\ left' = [left EXCEPT ![addr[r]] = @ - 1]
    /\ Deeper(r)
    /\ UNCHANGED <<trust, mode, addr, status, bodies, log, panicked>>

LimiterRefuses(r) ==
    /\ mode[r] = "in" /\ Within(r, "limiter")
    /\ left[addr[r]] = 0
    /\ Write(r, 429)
    /\ mode' = [mode EXCEPT ![r] = "out"]
    /\ Outward(r)
    /\ UNCHANGED <<trust, addr, left, log, panicked>>

HandlerAnswers(r) ==
    /\ mode[r] = "in" /\ InHandler(r)
    /\ \E route \in DOMAIN Answers : \E s \in Answers[route] : Write(r, s)
    /\ mode' = [mode EXCEPT ![r] = "out"]
    /\ Outward(r)
    /\ UNCHANGED <<trust, addr, left, log, panicked>>

HandlerPanics(r) ==
    /\ mode[r] = "in" /\ InHandler(r)
    /\ \E with \in {"value", "ErrAbortHandler"} :
         panicked' = [panicked EXCEPT ![r] = with]
    /\ mode' = [mode EXCEPT ![r] = "panic"]
    /\ Outward(r)
    /\ UNCHANGED <<trust, addr, left, status, bodies, log>>

\* Each middleware's code after next.ServeHTTP: requestLogger has some.
Leave(r) ==
    /\ mode[r] = "out" /\ depth[r] > 0
    /\ IF Within(r, "requestLogger") THEN Log(r, "request") ELSE UNCHANGED log
    /\ Outward(r)
    /\ UNCHANGED <<trust, mode, addr, left, status, bodies, panicked>>

\* A panic runs deferred calls only: recoverPanic has the one there is, and it
\* lets http.ErrAbortHandler go on.
Unwind(r) ==
    /\ mode[r] = "panic" /\ depth[r] > 0
    /\ Within(r, "recoverPanic") => panicked[r] = "ErrAbortHandler"
    /\ Outward(r)
    /\ UNCHANGED <<trust, mode, addr, left, status, bodies, log, panicked>>

Recover(r) ==
    /\ mode[r] = "panic" /\ Within(r, "recoverPanic")
    /\ panicked[r] # "ErrAbortHandler"
    /\ Log(r, "panic")
    /\ Write(r, 500)
    /\ mode' = [mode EXCEPT ![r] = "out"]
    /\ Outward(r)
    /\ UNCHANGED <<trust, addr, left, panicked>>

\* Back in net/http: the response is complete, or the connection is dropped.
Finish(r) ==
    /\ depth[r] = 0 /\ mode[r] \in {"out", "panic"}
    /\ mode' = [mode EXCEPT ![r] = IF @ = "out" THEN "sent" ELSE "aborted"]
    /\ UNCHANGED <<trust, depth, addr, left, status, bodies, log, panicked>>

\* All requests are over.
Idle ==
    /\ \A r \in Requests : mode[r] \in {"sent", "aborted"}
    /\ UNCHANGED vars

Next ==
    \/ \E r \in Requests :
         \/ Enter(r) \/ RealIP(r) \/ LimiterAllows(r) \/ LimiterRefuses(r)
         \/ HandlerAnswers(r) \/ HandlerPanics(r)
         \/ Leave(r) \/ Unwind(r) \/ Recover(r) \/ Finish(r)
    \/ Idle

Spec == Init /\ [][Next]_vars
-----------------------------------------------------------------------------
\* The client on whose account a request counts: the peer of its connection,
\* unless the operator vouches for the header that names another.
Client(r) == IF trust /\ Forwarded[r] # None THEN Forwarded[r] ELSE Peer[r]

LetThrough(a) ==
    {r \in Requests : Client(r) = a /\ (panicked[r] # None \/ InHandler(r)
                        \/ status[r] \notin {None, 429})}

\* The rate limit is each client's own, whatever its requests claim in their
\* headers and however they end: no client reaches the handlers more often than
\* its burst, and one that is refused has itself used all of it.
LimitIsPerClient ==
    /\ \A a \in Addresses : Cardinality(LetThrough(a)) <= Burst
    /\ \A r \in Requests :
         status[r] = 429 => Cardinality(LetThrough(Client(r))) = Burst

\* A request that came to its end has one complete answer and no more, also when
\* its handler panicked: then it is a 500, the operator has a line about it, and
\* only http.ErrAbortHandler costs the client its connection.
OneAnswer ==
    \A r \in Requests :
        /\ mode[r] = "sent" => bodies[r] = 1
        /\ mode[r] = "sent" /\ panicked[r] # None =>
             status[r] = 500 /\ "panic" \in log[r]
        /\ mode[r] = "aborted" => panicked[r] = "ErrAbortHandler"
-----------------------------------------------------------------------------
\* docs/superpowers/plans/2026-08-10-sep10-auth-server.md: "recoverPanic is
\* registered before requestLogger so a panic is still logged as a completed
\* request with its 500 status, rather than escaping the logger."
PanicIsLoggedAsRequest ==
    \A r \in Requests :
        mode[r] = "sent" /\ panicked[r] # None => "request" \in log[r]
=============================================================================
