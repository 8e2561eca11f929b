----------------------------- MODULE Lifecycle -----------------------------
(***************************************************************************)
(* One authd process from serving to its exit: run() of cmd/authd/main.go  *)
(* with the HTTP server, the connection pool that the handlers share with  *)
(* the cleanup goroutine, the signal context and the drain with its        *)
(* deadline.  A handler is the calls it makes: statements, each of which   *)
(* takes a connection of the pool, and calls to the network, which do not. *)
(***************************************************************************)
EXTENDS Naturals, FiniteSets, Sequences

CONSTANTS
    Requests,   \* connections clients open, with one request each
    Cleaner,    \* the goroutine of CleanupExpiredChallenges
    Plans,      \* the calls a handler makes when nothing goes wrong
    PoolSize    \* connections of the pool

ASSUME LifecycleAssumption ==
    /\ Cleaner \notin Requests
    /\ Plans \subseteq Seq({"db", "net"})
    /\ PoolSize \in Nat \ {0}

VARIABLES
    main,       \* where run() is
    result,     \* what it returns
    signalled,  \* SIGINT or SIGTERM came: ctx is cancelled
    server,     \* the listener of http.Server
    at,         \* where each request and the cleaner are
    todo        \* the calls a request has left

vars == <<main, result, signalled, server, at, todo>>

Users == Requests \cup {Cleaner}
Working == {"work", "wait", "query", "net"}
Ended == {"answered", "dropped", "refused", "cut"}

TypeOK ==
    /\ main \in {"serving", "draining", "closing", "exited"}
    /\ result \in {"none", "nil", "deadline", "server"}
    /\ signalled \in BOOLEAN
    /\ server \in {"up", "failed", "closed"}
    /\ at \in [Users -> {"idle", "new", "sleep"} \cup Working \cup Ended]
    /\ todo \in [Requests -> Seq({"db", "net"})]

Init ==
    /\ main = "serving"
    /\ result = "none"
    /\ signalled = FALSE
    /\ server = "up"
    /\ at = [u \in Users |-> IF u = Cleaner THEN "sleep" ELSE "idle"]
    /\ todo = [r \in Requests |-> <<>>]

\* db.Close marks the pool closed at once and then waits.
PoolOpen == main \in {"serving", "draining"}
Alive == main # "exited"
InUse == {u \in Users : at[u] = "query"}

Move(u, from, to) == at[u] = from /\ at' = [at EXCEPT ![u] = to]
-----------------------------------------------------------------------------
(* Connections and handlers *)

Connect(r) ==
    /\ Alive /\ server = "up"
    /\ Move(r, "idle", "new")
    /\ \E plan \in Plans : todo' = [todo EXCEPT ![r] = plan]
    /\ UNCHANGED <<main, result, signalled, server>>

\* The header is read and the handler starts, also after the listener closed.
Begin(r) ==
    /\ Alive
    /\ Move(r, "new", "work")
    /\ UNCHANGED <<main, result, signalled, server, todo>>

\* No header in time, or Shutdown closes a connection that sent none.
DropNew(r) ==
    /\ Alive
    /\ Move(r, "new", "dropped")
    /\ UNCHANGED <<main, result, signalled, server, todo>>

\* The answer, complete or not: any call's failure, a refusal or a panic
\* caught by recoverPanic ends the handler here.
Respond(r) ==
    /\ Alive
    /\ Move(r, "work", "answered")
    /\ UNCHANGED <<main, result, signalled, server, todo>>

Call(r) ==
    /\ Alive /\ todo[r] # <<>>
    /\ IF Head(todo[r]) = "net" THEN Move(r, "work", "net")
       ELSE IF PoolOpen THEN Move(r, "work", "wait")
       ELSE Move(r, "work", "refused")
    /\ todo' = [todo EXCEPT ![r] = Tail(@)]
    /\ UNCHANGED <<main, result, signalled, server>>

Acquire(u) ==
    /\ PoolOpen
    /\ Cardinality(InUse) < PoolSize
    /\ Move(u, "wait", "query")
    /\ UNCHANGED <<main, result, signalled, server, todo>>

\* A waiter learns that the pool is closed when its turn comes.
Refuse(r) ==
    /\ main = "closing"
    /\ Cardinality(InUse) < PoolSize
    /\ Move(r, "wait", "refused")
    /\ UNCHANGED <<main, result, signalled, server, todo>>

\* A faulty statement whose connection is kept while the next one waits.
Return_keeps(r) ==
    /\ Alive
    /\ IF todo[r] # <<>> /\ Head(todo[r]) = "db"
         THEN Cardinality(InUse) < PoolSize /\ Move(r, "query", "work")
         ELSE Move(r, "query", "work")
    /\ UNCHANGED <<main, result, signalled, server, todo>>

\* The statement is over, well or badly, and gives its connection back.
Return(r) ==
    /\ Alive
    /\ Move(r, "query", "work")
    /\ UNCHANGED <<main, result, signalled, server, todo>>

NetReturn(r) ==
    /\ Alive
    /\ Move(r, "net", "work")
    /\ UNCHANGED <<main, result, signalled, server, todo>>
-----------------------------------------------------------------------------
(* The cleanup goroutine *)

\* The ticker fires.  Under a cancelled context, or a closed pool, Exec fails
\* before it waits; the first is CleanupReturns, the second changes nothing.
CleanupTick ==
    /\ PoolOpen /\ ~signalled
    /\ Move(Cleaner, "sleep", "wait")
    /\ UNCHANGED <<main, result, signalled, server, todo>>

\* The DELETE is done or has failed, or found the pool closed: the loop goes on.
CleanupLoops ==
    /\ Alive
    /\ \/ Move(Cleaner, "query", "sleep")
       \/ main = "closing" /\ Move(Cleaner, "wait", "sleep")
    /\ UNCHANGED <<main, result, signalled, server, todo>>

\* ctx.Done(), in the select or as the error of the DELETE it cut short.
CleanupReturns ==
    /\ Alive /\ signalled
    /\ at[Cleaner] \in {"sleep", "wait", "query"}
    /\ at' = [at EXCEPT ![Cleaner] = "dropped"]
    /\ UNCHANGED <<main, result, signalled, server, todo>>
-----------------------------------------------------------------------------
(* run() *)

Signal ==
    /\ Alive /\ ~signalled
    /\ signalled' = TRUE
    /\ UNCHANGED <<main, result, server, at, todo>>

\* ListenAndServe returns an error: the port is taken, or Accept fails.
ServerFails ==
    /\ Alive /\ server = "up"
    /\ server' = "failed"
    /\ UNCHANGED <<main, result, signalled, at, todo>>

\* <-serverErr: run returns without a drain; the defers begin with db.Close.
ReturnServerError ==
    /\ main = "serving" /\ server = "failed"
    /\ main' = "closing"
    /\ result' = "server"
    /\ UNCHANGED <<signalled, server, at, todo>>

\* <-ctx.Done(), which select may also take when both are ready.
Shutdown ==
    /\ main = "serving" /\ signalled
    /\ main' = "draining"
    /\ server' = IF server = "up" THEN "closed" ELSE server
    /\ UNCHANGED <<result, signalled, at, todo>>

\* A faulty drain that only waits for the connections of the pool.
Drained_by_pool ==
    /\ main = "draining"
    /\ InUse = {}
    /\ main' = "closing"
    /\ result' = "nil"
    /\ UNCHANGED <<signalled, server, at, todo>>

\* Every connection is idle or gone.
Drained ==
    /\ main = "draining"
    /\ \A r \in Requests : at[r] \notin {"new"} \cup Working
    /\ main' = "closing"
    /\ result' = "nil"
    /\ UNCHANGED <<signalled, server, at, todo>>

DrainExpires ==
    /\ main = "draining"
    /\ main' = "closing"
    /\ result' = "deadline"
    /\ UNCHANGED <<signalled, server, at, todo>>

\* db.Close has got every connection back and main returns or calls os.Exit.
Exit ==
    /\ main = "closing" /\ InUse = {}
    /\ main' = "exited"
    /\ at' = [u \in Users |->
         IF at[u] \in {"new", "sleep"} \cup Working THEN "cut" ELSE at[u]]
    /\ UNCHANGED <<result, signalled, server, todo>>

\* The process is gone.
Gone == main = "exited" /\ UNCHANGED vars

Handle(r) ==
    Respond(r) \/ Call(r) \/ Refuse(r) \/ Return(r) \/ NetReturn(r)

Next ==
    \/ \E r \in Requests : Connect(r) \/ Begin(r) \/ DropNew(r) \/ Handle(r)
    \/ \E u \in Users : Acquire(u)
    \/ CleanupTick \/ CleanupLoops \/ CleanupReturns
    \/ Signal \/ ServerFails
    \/ ReturnServerError \/ Shutdown \/ Drained \/ DrainExpires \/ Exit
    \/ Gone

Spec == Init /\ [][Next]_vars

\* Calls return, a connection sends its header or is timed out, the pool
\* serves its waiters in turn, and main and the loops are scheduled.
Fairness ==
    /\ \A r \in Requests : WF_vars(Begin(r) \/ DropNew(r)) /\ WF_vars(Handle(r))
    /\ \A u \in Users : SF_vars(Acquire(u))
    /\ WF_vars(CleanupLoops \/ CleanupReturns)
    /\ WF_vars(ReturnServerError \/ Shutdown \/ Drained \/ DrainExpires \/ Exit)

FairSpec == Spec /\ Fairness
-----------------------------------------------------------------------------
\* When authd reports a clean stop, its clients saw one: every request that
\* reached a handler, before or during the drain and whatever it waited for, was
\* answered, and none of them found the pool already closed.  A POST that had
\* spent its challenge was not robbed of its session by the shutdown.
CleanStop ==
    result = "nil" => \A r \in Requests : at[r] \notin {"refused", "cut"}

\* After a signal the process stops, whatever its handlers, its cleanup and its
\* pool are doing, and also when the server fails at the same moment: nobody
\* waits for a connection that is never given back.
SignalStops == signalled ~> main = "exited"

\* Handlers and the cleanup never block one another for good, even with a
\* single connection: none holds one while it waits for another or for the
\* network.
HandlersEnd == \A r \in Requests : at[r] \in Working ~> at[r] \in Ended
-----------------------------------------------------------------------------
\* cmd/authd/main.go: "shutdownTimeout bounds the wait for in-flight requests to
\* finish": once it is over, run does not wait for a request's statement.
TimeoutBoundsTheWait ==
    main = "closing" /\ result = "deadline" => InUse \cap Requests = {}
=============================================================================
