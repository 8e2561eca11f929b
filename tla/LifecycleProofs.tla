-------------------------- MODULE LifecycleProofs --------------------------
(***************************************************************************)
(* Proofs about Lifecycle for every number of requests, whatever calls     *)
(* their handlers make, and every size of the pool.                        *)
(***************************************************************************)
EXTENDS Lifecycle, TLAPS

\* What is left of the requests when the drain has found nothing to wait for.
Settled(r) == at[r] \in {"idle", "answered", "dropped"}

\* Only a pool that is closing refuses a request and only an exit cuts one; a
\* drain that succeeded leaves settled requests and a listener that is not up.
StopInv ==
    /\ main \in {"serving", "draining"} =>
         /\ result = "none"
         /\ \A r \in Requests : at[r] \notin {"refused", "cut", "sleep"}
    /\ main # "serving" /\ result # "server" => server # "up"
    /\ result = "nil" => /\ main \in {"closing", "exited"}
                         /\ \A r \in Requests : Settled(r)

LInv == TypeOK /\ StopInv

USE DEF Users, Working, Ended, PoolOpen, Alive, Move

LEMMA TypeStarts == Init => TypeOK
<1> SUFFICES ASSUME Init PROVE TypeOK
  OBVIOUS
<1>1. todo \in [Requests -> Seq({"db", "net"})]
  BY DEF Init
<1>2. at \in [Users -> {"idle", "new", "sleep"} \cup Working \cup Ended]
  BY DEF Init
<1> QED
  BY <1>1, <1>2 DEF Init, TypeOK

LEMMA TypeStays == TypeOK /\ [Next]_vars => TypeOK'
<1> SUFFICES ASSUME TypeOK, [Next]_vars PROVE TypeOK'
  OBVIOUS
<1> USE DEF TypeOK
<1>1. ASSUME NEW r \in Requests, Connect(r) PROVE TypeOK'
  BY <1>1, LifecycleAssumption DEF Connect
<1>2. ASSUME NEW r \in Requests, Begin(r) \/ DropNew(r) PROVE TypeOK'
  BY <1>2 DEF Begin, DropNew
<1>3. ASSUME NEW r \in Requests, Call(r) PROVE TypeOK'
  <2>1. Tail(todo[r]) \in Seq({"db", "net"})
    BY <1>3 DEF Call
  <2> QED
    BY <1>3, <2>1 DEF Call
<1>4. ASSUME NEW r \in Requests, Respond(r) \/ Refuse(r) PROVE TypeOK'
  BY <1>4 DEF Respond, Refuse
<1>5. ASSUME NEW r \in Requests, Return(r) \/ NetReturn(r) PROVE TypeOK'
  BY <1>5 DEF Return, NetReturn
<1>6. ASSUME NEW u \in Users, Acquire(u) PROVE TypeOK'
  BY <1>6 DEF Acquire
<1>7. CASE CleanupTick \/ CleanupLoops \/ CleanupReturns
  BY <1>7 DEF CleanupTick, CleanupLoops, CleanupReturns
<1>8. CASE Signal \/ ServerFails
  BY <1>8 DEF Signal, ServerFails
<1>9. CASE ReturnServerError \/ Shutdown \/ Drained \/ DrainExpires
  BY <1>9 DEF ReturnServerError, Shutdown, Drained, DrainExpires
<1>10. CASE Exit
  BY <1>10 DEF Exit
<1>11. CASE Gone \/ UNCHANGED vars
  BY <1>11 DEF Gone, vars
<1> QED
  BY <1>1, <1>2, <1>3, <1>4, <1>5, <1>6, <1>7, <1>8, <1>9, <1>10, <1>11
     DEF Next, Handle

LEMMA StopStarts == Init => StopInv
  BY LifecycleAssumption DEF Init, StopInv

LEMMA StopStays == LInv /\ TypeOK' /\ [Next]_vars => StopInv'
<1> SUFFICES ASSUME LInv, TypeOK', [Next]_vars PROVE StopInv'
  OBVIOUS
<1> USE DEF LInv, TypeOK, StopInv, Settled
<1>1. ASSUME NEW r \in Requests, Connect(r) PROVE StopInv'
  <2>1. result # "nil"
    BY <1>1 DEF Connect
  <2> QED
    BY <1>1, <2>1 DEF Connect
<1>2. ASSUME NEW r \in Requests, Begin(r) \/ DropNew(r) PROVE StopInv'
  BY <1>2 DEF Begin, DropNew
<1>3. ASSUME NEW r \in Requests, Call(r) PROVE StopInv'
  BY <1>3 DEF Call
<1>4. ASSUME NEW r \in Requests, Respond(r) \/ Refuse(r) PROVE StopInv'
  BY <1>4 DEF Respond, Refuse
<1>5. ASSUME NEW r \in Requests, Return(r) \/ NetReturn(r) PROVE StopInv'
  BY <1>5 DEF Return, NetReturn
<1>6. ASSUME NEW u \in Users, Acquire(u) PROVE StopInv'
  BY <1>6 DEF Acquire
<1>7. CASE CleanupTick \/ CleanupLoops \/ CleanupReturns
  <2>1. \A r \in Requests : at'[r] = at[r]
    BY <1>7, LifecycleAssumption DEF CleanupTick, CleanupLoops, CleanupReturns
  <2>2. UNCHANGED <<main, result, server>>
    BY <1>7 DEF CleanupTick, CleanupLoops, CleanupReturns
  <2> QED
    BY <2>1, <2>2
<1>8. CASE Signal \/ ServerFails
  BY <1>8 DEF Signal, ServerFails
<1>9. CASE ReturnServerError \/ Shutdown \/ DrainExpires
  BY <1>9 DEF ReturnServerError, Shutdown, DrainExpires
<1>10. CASE Drained
  <2>1. ASSUME NEW r \in Requests PROVE Settled(r)'
    <3>1. /\ at[r] \in {"idle", "new", "sleep"} \cup Working \cup Ended
          /\ at[r] \notin {"new", "sleep", "refused", "cut"} \cup Working
      BY <1>10 DEF Drained
    <3> QED
      BY <1>10, <3>1 DEF Drained
  <2> QED
    BY <1>10, <2>1 DEF Drained
<1>11. CASE Exit
  BY <1>11 DEF Exit
<1>12. CASE Gone \/ UNCHANGED vars
  BY <1>12 DEF Gone, vars
<1> QED
  BY <1>1, <1>2, <1>3, <1>4, <1>5, <1>6, <1>7, <1>8, <1>9, <1>10, <1>11, <1>12
     DEF Next, Handle

\* A clean stop answers everyone: when Shutdown returns nil before its deadline,
\* no handler was or will be cut off or find the pool closed.
THEOREM CleanStopHolds == Spec => []CleanStop
<1>1. Init => LInv
  BY TypeStarts, StopStarts DEF LInv
<1>2. LInv /\ [Next]_vars => LInv'
  BY TypeStays, StopStays DEF LInv
<1>3. LInv => CleanStop
  BY DEF LInv, StopInv, Settled, CleanStop
<1> QED
  BY <1>1, <1>2, <1>3, PTL DEF Spec
=============================================================================
