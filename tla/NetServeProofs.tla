--------------------------- MODULE NetServeProofs ---------------------------
(***************************************************************************)
(* net.closeListener joins the server's goroutines, for any number of      *)
(* connections and any configuration of the pool.                          *)
(*                                                                         *)
(* The WaitGroup counts the accept loop and the connections' goroutines.   *)
(* The loop adds a goroutine before it can take itself out of the count,   *)
(* so that the counter reaches zero only when nothing is left that could   *)
(* add to it.                                                              *)
(***************************************************************************)
EXTENDS NetServe, PoolProofs

\* The connections with a goroutine of their own.
Handlers == {c \in Reqs : conn[c] \in {"handler", "released"}}

\* Where a connection is with the server and where it is with the pool.
ConnAt ==
  \A c \in Reqs :
    /\ conn[c] \in {"none", "backlog"} => at[c] = "idle"
    /\ conn[c] = "accepted" <=> cur = c
    /\ conn[c] = "handler" => at[c] = "running"
    /\ conn[c] = "released" => at[c] \in {"uncount", "served"}
    /\ conn[c] = "ended" => at[c] \in {"idle", "overloaded", "served"}

\* The kernel's backlog holds connections nobody has seen, each once, and none once
\* the listener is closed.
Unseen ==
  /\ IsInjective(backlog)
  /\ ToSet(backlog) \subseteq {c \in Reqs : conn[c] = "backlog"}
  /\ ~listening => \A c \in Reqs : conn[c] # "backlog"

\* The WaitGroup counter is exact.
WaitCount == wg = (IF accepting THEN 1 ELSE 0) + Cardinality(Handlers)

\* The accept loop ends holding no connection; closeListener closes the listener before
\* it waits.
Shutdown ==
  /\ ~accepting => cur = NoConn
  /\ closer # "idle" => ~listening
  /\ closer = "returned" => wg = 0

NetInv ==
  /\ PoolInv
  /\ TypeOK
  /\ ConnAt
  /\ Unseen
  /\ WaitCount
  /\ Shutdown

-----------------------------------------------------------------------------
\* The goroutines of the connections are finitely many.
LEMMA HandlersCount == Handlers \in SUBSET Reqs /\ Cardinality(Handlers) \in Nat
<1>1. Handlers \in SUBSET Reqs
  BY DEF Handlers
<1>2. QED
  BY <1>1, CardType

\* The counter is a number whenever it is exact.
LEMMA WaitCountType == WaitCount => wg \in Nat
BY HandlersCount DEF WaitCount

\* When the counter is zero no goroutine of the server is left.
LEMMA NoneLeft ==
  ASSUME NetInv, wg = 0
  PROVE  ~accepting /\ Handlers = {}
<1>1. ~accepting /\ Cardinality(Handlers) = 0
  BY HandlersCount DEF NetInv, WaitCount
<1>2. Handlers = {}
  BY <1>1, HandlersCount, CardType, FS_EmptySet
<1>3. QED
  BY <1>1, <1>2

\* With the listener closed too, the server is at rest.
LEMMA AtRest ==
  ASSUME NetInv, wg = 0, ~listening
  PROVE  ~accepting /\ Handlers = {} /\ \A c \in Reqs : conn[c] \in {"none", "ended"}
<1>1. ~accepting /\ Handlers = {} /\ cur = NoConn
  BY NoneLeft DEF NetInv, Shutdown
<1>2. \A c \in Reqs : conn[c] \notin {"accepted", "backlog", "handler", "released"}
  BY <1>1, NetAssumption DEF NetInv, ConnAt, Unseen, Handlers
<1>3. QED
  BY <1>1, <1>2 DEF NetInv, TypeOK

-----------------------------------------------------------------------------
(* One lemma for each step of the server. *)

\* A client connects.
LEMMA DialInv ==
  ASSUME NetInv, NEW c \in Reqs, Dial(c)
  PROVE  NetInv'
<1> USE DEF NetInv
<1>0. conn[c] = "none" /\ listening /\ c \notin ToSet(backlog)
  BY DEF Dial, Unseen
<1>1. PoolInv'
  BY PoolStutter DEF Dial
<1>l. /\ backlog' \in Seq(Reqs) /\ IsInjective(backlog')
      /\ ToSet(backlog') = ToSet(backlog) \cup {c}
  BY <1>0, LineAppend DEF Dial, TypeOK, Unseen
<1>2. TypeOK'
  BY <1>1, <1>l DEF Dial, TypeOK, PoolInv
<1>3. ConnAt'
  BY <1>0, NetAssumption DEF Dial, TypeOK, ConnAt, poolVars
<1>4. Unseen'
  BY <1>0, <1>l DEF Dial, TypeOK, Unseen
<1>5. WaitCount' /\ Shutdown'
  <2>1. Handlers' = Handlers
    BY <1>0 DEF Dial, TypeOK, Handlers
  <2>2. QED
    BY <2>1 DEF Dial, WaitCount, Shutdown
<1>6. QED
  BY <1>1, <1>2, <1>3, <1>4, <1>5

\* The accept loop takes the first connection and calls Acquire.
LEMMA AcceptInv ==
  ASSUME NetInv, Accept
  PROVE  NetInv'
<1> USE DEF NetInv
<1> DEFINE h == Head(backlog)
<1>l. /\ h \in ToSet(backlog) /\ backlog' \in Seq(Reqs) /\ IsInjective(backlog')
      /\ ToSet(backlog') = ToSet(backlog) \ {h}
  BY LineTail DEF Accept, TypeOK, Unseen
<1>0. h \in Reqs /\ conn[h] = "backlog" /\ listening /\ accepting /\ cur = NoConn
  BY <1>l DEF Accept, Unseen
<1>a. /\ Arrive(h) /\ cur' = h
      /\ conn' = [conn EXCEPT ![h] = "accepted"]
      /\ UNCHANGED <<listening, accepting, wg, closer>>
  BY DEF Accept
<1> HIDE DEF h
<1>1. PoolInv'
  BY <1>0, <1>a, ClientInv
<1>2. TypeOK'
  BY <1>0, <1>1, <1>a, <1>l DEF TypeOK, PoolInv
<1>3. ConnAt'
  BY <1>0, <1>a, NetAssumption DEF Arrive, Goto, TypeOK, PoolTypeOK, ConnAt
<1>4. Unseen'
  BY <1>0, <1>a, <1>l DEF TypeOK, Unseen
<1>5. WaitCount' /\ Shutdown'
  <2>1. Handlers' = Handlers
    BY <1>0, <1>a DEF TypeOK, Handlers
  <2>2. QED
    BY <1>0, <1>a, <2>1 DEF WaitCount, Shutdown
<1>6. QED
  BY <1>1, <1>2, <1>3, <1>4, <1>5

\* The accept loop takes itself out of the count, on a closed listener or an open one.
LEMMA AcceptFailsInv ==
  ASSUME NetInv, AcceptFails
  PROVE  NetInv'
<1> USE DEF NetInv
<1>1. PoolInv'
  BY PoolStutter DEF AcceptFails
<1>5. WaitCount'
  <2>1. Handlers' = Handlers
    BY DEF AcceptFails, Handlers
  <2>2. QED
    BY <2>1, HandlersCount DEF AcceptFails, TypeOK, WaitCount
<1>w. wg' \in Nat /\ wg # 0
  BY <1>5, WaitCountType, HandlersCount DEF AcceptFails, WaitCount
<1>2. TypeOK'
  BY <1>1, <1>w DEF AcceptFails, TypeOK, PoolInv
<1>3. ConnAt' /\ Unseen'
  BY DEF AcceptFails, ConnAt, Unseen, poolVars
<1>4. Shutdown'
  BY <1>w DEF AcceptFails, Shutdown
<1>6. QED
  BY <1>1, <1>2, <1>3, <1>4, <1>5

\* A step of Acquire in the accept loop.
LEMMA AdmittingInv ==
  ASSUME NetInv, NEW c \in Reqs, Admitting(c)
  PROVE  NetInv'
<1> USE DEF NetInv
<1>0. cur = c /\ conn[c] = "accepted" /\ UNCHANGED netVars
  BY DEF Admitting, ConnAt
<1>1. PoolInv'
  BY PoolStepInv DEF Admitting
<1>2. TypeOK' /\ Unseen' /\ WaitCount' /\ Shutdown'
  BY <1>0, <1>1 DEF netVars, TypeOK, PoolInv, Unseen, WaitCount, Handlers, Shutdown
<1>3. \A q \in Reqs : q # c => at'[q] = at[q]
  BY DEF Admitting, PoolStep, AcquireFast, AcquireFull, CountQueued, AcquireSelect,
         WaitCancelled, CountActive, LeaveQueue, UncountQueued, UncountActive, Goto, PoolInv,
         PoolTypeOK
<1>4. ConnAt'
  BY <1>0, <1>3 DEF netVars, ConnAt
<1>5. QED
  BY <1>1, <1>2, <1>4

\* The loop closes a connection that was refused.
LEMMA RefuseInv ==
  ASSUME NetInv, NEW c \in Reqs, Refuse(c)
  PROVE  NetInv'
<1> USE DEF NetInv
<1>0. cur = c /\ conn[c] = "accepted" /\ at[c] = "overloaded"
  BY DEF Refuse, ConnAt
<1>1. PoolInv'
  BY PoolStutter DEF Refuse
<1>2. TypeOK'
  BY <1>1 DEF Refuse, TypeOK, PoolInv
<1>3. ConnAt'
  BY <1>0, NetAssumption DEF Refuse, TypeOK, ConnAt, poolVars
<1>4. Unseen' /\ Shutdown'
  BY <1>0 DEF Refuse, TypeOK, Unseen, Shutdown
<1>5. WaitCount'
  <2>1. Handlers' = Handlers
    BY <1>0 DEF Refuse, TypeOK, Handlers
  <2>2. QED
    BY <2>1 DEF Refuse, WaitCount
<1>6. QED
  BY <1>1, <1>2, <1>3, <1>4, <1>5

\* The loop counts a goroutine in and starts it.
LEMMA SpawnInv ==
  ASSUME NetInv, NEW c \in Reqs, Spawn(c)
  PROVE  NetInv'
<1> USE DEF NetInv
<1>0. cur = c /\ conn[c] = "accepted" /\ at[c] = "running" /\ accepting
  BY NetAssumption DEF Spawn, ConnAt, Shutdown
<1>1. PoolInv'
  BY PoolStutter DEF Spawn
<1>2. TypeOK'
  BY <1>1 DEF Spawn, TypeOK, PoolInv
<1>3. ConnAt'
  BY <1>0, NetAssumption DEF Spawn, TypeOK, ConnAt, poolVars
<1>5. WaitCount'
  <2>1. Handlers' = Handlers \cup {c} /\ c \notin Handlers
    BY <1>0 DEF Spawn, TypeOK, Handlers
  <2>2. QED
    BY <2>1, HandlersCount, CardAdd DEF Spawn, TypeOK, WaitCount
<1>4. Unseen' /\ Shutdown'
  <2>1. wg # 0
    BY <1>0, HandlersCount DEF WaitCount
  <2>2. QED
    BY <1>0, <2>1 DEF Spawn, TypeOK, Unseen, Shutdown
<1>6. QED
  BY <1>1, <1>2, <1>3, <1>4, <1>5

\* A handler returns and its goroutine calls Release, which may hand the slot to
\* the connection the accept loop is admitting.
LEMMA HandlerReturnsInv ==
  ASSUME NetInv, NEW c \in Reqs, HandlerReturns(c)
  PROVE  NetInv'
<1> USE DEF NetInv
<1>0. conn[c] = "handler" /\ at[c] = "running" /\ cur # c
  BY DEF HandlerReturns, ConnAt
<1>1. PoolInv'
  BY ReleaseInv DEF HandlerReturns
<1>2. TypeOK'
  BY <1>1 DEF HandlerReturns, TypeOK, PoolInv
<1>a. /\ at'[c] \in {"uncount", "served"}
      /\ \A q \in Reqs : q # c => at'[q] = at[q] \/ at[q] = "parked"
  <2>1. CASE waiters = <<>> \/ IsUnbounded
    BY <2>1 DEF HandlerReturns, Release, Goto, PoolInv, PoolTypeOK
  <2>2. CASE waiters # <<>> /\ ~IsUnbounded
    <3>1. Head(waiters) \in ToSet(waiters)
      BY <2>2, LineTail DEF PoolInv, PoolTypeOK, Line
    <3>2. Head(waiters) \in Reqs /\ at[Head(waiters)] = "parked"
      BY <3>1 DEF PoolInv, Line, Parked
    <3>3. QED
      BY <1>0, <2>2, <3>2 DEF HandlerReturns, Release, PoolInv, PoolTypeOK
  <2>3. QED
    BY <2>1, <2>2
<1>3. ConnAt'
  BY <1>0, <1>a DEF HandlerReturns, TypeOK, ConnAt
<1>4. Unseen' /\ Shutdown'
  BY <1>0 DEF HandlerReturns, TypeOK, Unseen, Shutdown
<1>5. WaitCount'
  <2>1. Handlers' = Handlers
    BY <1>0 DEF HandlerReturns, TypeOK, Handlers
  <2>2. QED
    BY <2>1 DEF HandlerReturns, WaitCount
<1>6. QED
  BY <1>1, <1>2, <1>3, <1>4, <1>5

\* The rest of that Release.
LEMMA ReleasingInv ==
  ASSUME NetInv, NEW c \in Reqs, Releasing(c)
  PROVE  NetInv'
<1> USE DEF NetInv
<1>0. conn[c] = "released" /\ UNCHANGED netVars
  BY DEF Releasing
<1>1. PoolInv'
  BY UncountActiveInv DEF Releasing
<1>2. TypeOK' /\ Unseen' /\ WaitCount' /\ Shutdown'
  BY <1>0, <1>1 DEF netVars, TypeOK, PoolInv, Unseen, WaitCount, Handlers, Shutdown
<1>3. ConnAt'
  BY <1>0 DEF Releasing, UncountActive, Goto, PoolInv, PoolTypeOK, netVars, ConnAt
<1>4. QED
  BY <1>1, <1>2, <1>3

\* A connection's goroutine ends.
LEMMA HandlerDoneInv ==
  ASSUME NetInv, NEW c \in Reqs, HandlerDone(c)
  PROVE  NetInv'
<1> USE DEF NetInv
<1>0. conn[c] = "released" /\ at[c] = "served" /\ c \in Handlers
  BY DEF HandlerDone, Handlers
<1>1. PoolInv'
  BY PoolStutter DEF HandlerDone
<1>5. WaitCount'
  <2>1. Handlers' = Handlers \ {c}
    BY <1>0 DEF HandlerDone, TypeOK, Handlers
  <2>2. Cardinality(Handlers') = Cardinality(Handlers) - 1
    BY <1>0, <2>1, HandlersCount, CardRemove
  <2>3. QED
    BY <2>2, HandlersCount DEF HandlerDone, TypeOK, WaitCount
<1>w. wg' \in Nat /\ wg # 0
  <2>1. wg # 0
    BY <1>0, NoneLeft
  <2>2. QED
    BY <2>1 DEF HandlerDone, TypeOK
<1>2. TypeOK'
  BY <1>1, <1>w DEF HandlerDone, TypeOK, PoolInv
<1>3. ConnAt'
  BY <1>0 DEF HandlerDone, TypeOK, ConnAt, poolVars
<1>4. Unseen' /\ Shutdown'
  BY <1>0, <1>w DEF HandlerDone, TypeOK, Unseen, Shutdown
<1>6. QED
  BY <1>1, <1>2, <1>3, <1>4, <1>5

\* closeListener closes the listener and, later, returns from wg.Wait.
LEMMA CloseInv ==
  ASSUME NetInv, CloseListener \/ CloseReturns
  PROVE  NetInv'
<1> USE DEF NetInv
<1>1. PoolInv' /\ UNCHANGED at
  BY PoolStutter DEF CloseListener, CloseReturns, poolVars
<1>2. TypeOK'
  <2>1. CASE CloseListener
    <3>1. conn' \in [Reqs -> {"none", "backlog", "accepted", "handler", "released", "ended"}]
      BY <2>1 DEF CloseListener, TypeOK
    <3>2. /\ backlog' = <<>> /\ listening' = FALSE /\ closer' = "waiting"
          /\ UNCHANGED <<cur, accepting, wg>>
      BY <2>1 DEF CloseListener
    <3>3. backlog' \in Seq(Reqs)
      BY <3>2, EmptySeq
    <3>4. PoolTypeOK'
      BY <1>1 DEF PoolInv
    <3>5. QED
      BY <3>1, <3>2, <3>3, <3>4 DEF TypeOK
  <2>2. CASE CloseReturns
    BY <1>1, <2>2 DEF CloseReturns, TypeOK, PoolInv
  <2>3. QED
    BY <2>1, <2>2
<1>3. ConnAt'
  BY <1>1 DEF CloseListener, CloseReturns, TypeOK, ConnAt
<1>4. Unseen' /\ Shutdown'
  <2>1. CASE CloseListener
    <3>1. IsInjective(<<>>) /\ ToSet(<<>>) = {}
      BY DEF IsInjective, ToSet
    <3>2. QED
      BY <2>1, <3>1 DEF CloseListener, TypeOK, Unseen, Shutdown
  <2>2. CASE CloseReturns
    BY <2>2 DEF CloseReturns, Unseen, Shutdown
  <2>3. QED
    BY <2>1, <2>2
<1>5. WaitCount'
  <2>1. Handlers' = Handlers
    BY DEF CloseListener, CloseReturns, TypeOK, Handlers
  <2>2. QED
    BY <2>1 DEF CloseListener, CloseReturns, WaitCount
<1>6. QED
  BY <1>1, <1>2, <1>3, <1>4, <1>5

-----------------------------------------------------------------------------
\* The WaitGroup, the backlog and the pool agree about every connection.
THEOREM NetInvariant == Spec => []NetInv
<1>1. Init => NetInv
  <2> SUFFICES ASSUME Init PROVE NetInv
    OBVIOUS
  <2>1. PoolInv
    BY PoolInitInv DEF Init
  <2>2. TypeOK
    BY <2>1 DEF Init, TypeOK, PoolInv
  <2>3. ConnAt /\ Shutdown
    BY NetAssumption DEF Init, PoolInit, ConnAt, Shutdown
  <2>4. Unseen
    BY DEF Init, Unseen, IsInjective, ToSet
  <2>5. WaitCount
    <3>1. Handlers = {}
      BY DEF Init, Handlers
    <3>2. QED
      BY <3>1, FS_EmptySet DEF Init, WaitCount
  <2>6. QED
    BY <2>1, <2>2, <2>3, <2>4, <2>5 DEF NetInv
<1>2. NetInv /\ [Next]_vars => NetInv'
  <2> SUFFICES ASSUME NetInv, [Next]_vars PROVE NetInv'
    OBVIOUS
  <2>1. CASE Server
    BY <2>1, AcceptInv, AcceptFailsInv, AdmittingInv, RefuseInv, SpawnInv, ReleasingInv,
       HandlerDoneInv, CloseInv DEF Server
  <2>2. CASE \E c \in Reqs : Dial(c) \/ HandlerReturns(c)
    BY <2>2, DialInv, HandlerReturnsInv
  <2>3. CASE CloseListener
    BY <2>3, CloseInv
  <2>4. CASE UNCHANGED vars
    <3>1. PoolInv' /\ UNCHANGED poolVars
      BY <2>4, PoolStutter DEF vars, NetInv
    <3>2. QED
      BY <2>4, <3>1 DEF vars, netVars, poolVars, NetInv, TypeOK, PoolInv, ConnAt, Unseen,
                        WaitCount, Handlers, Shutdown
  <2>5. CASE listening /\ AcceptFails
    BY <2>5, AcceptFailsInv
  <2>6. QED
    BY <2>1, <2>2, <2>3, <2>4, <2>5 DEF Next
<1>3. QED
  BY <1>1, <1>2, PTL DEF Spec

\* The server's state stays well typed; the WaitGroup counter, whose Done would
\* panic below zero, never is negative.
THEOREM NetTypes == Spec => []TypeOK
<1>1. NetInv => TypeOK
  BY DEF NetInv
<1>2. QED
  BY <1>1, NetInvariant, PTL

\* When net.closeListener has returned no handler runs, the accept loop has ended and
\* the pool has all its tokens back, however the close met the connections.
THEOREM CloseJoinsHolds == Spec => []CloseJoins
<1>1. NetInv => CloseJoins
  <2> SUFFICES ASSUME NetInv, closer = "returned"
               PROVE  /\ ~accepting /\ \A c \in Reqs : conn[c] \in {"none", "ended"}
                      /\ slots = {} /\ queue = {} /\ active = 0 /\ queued = 0
    BY DEF CloseJoins
  <2>1. ~accepting /\ \A c \in Reqs : conn[c] \in {"none", "ended"}
    BY AtRest DEF NetInv, Shutdown
  <2>2. Quiescent
    BY <2>1 DEF NetInv, ConnAt, Quiescent, Outcomes
  <2>3. Balanced
    BY QuietPool DEF NetInv
  <2>4. QED
    BY <2>1, <2>2, <2>3 DEF Balanced
<1>2. QED
  BY <1>1, NetInvariant, PTL

-----------------------------------------------------------------------------
\* net.serve is a client of the pool like any other: each of its steps is a step of
\* the pool or leaves the pool alone, so that what holds of the pool holds of it.
THEOREM ServerUsesPool == Spec => PoolSpec
<1>1. Init => PoolInit
  BY DEF Init
<1>2. NetInv /\ [Next]_vars => [PoolNext]_poolVars
  <2> SUFFICES ASSUME NetInv, [Next]_vars PROVE PoolNext \/ UNCHANGED poolVars
    OBVIOUS
  <2>1. CASE Accept
    <3>1. Head(backlog) \in ToSet(backlog)
      BY <2>1, LineTail DEF Accept, NetInv, TypeOK, Unseen
    <3>2. Head(backlog) \in Reqs /\ Arrive(Head(backlog))
      BY <2>1, <3>1 DEF Accept, NetInv, Unseen
    <3>3. QED
      BY <3>2 DEF PoolNext
  <2>2. CASE \E c \in Reqs : Admitting(c) \/ Releasing(c) \/ HandlerReturns(c)
    <3>1. \E c \in Reqs : Request(c)
      BY <2>2 DEF Admitting, Releasing, HandlerReturns, Request, PoolStep
    <3>2. QED
      BY <3>1 DEF PoolNext
  <2>3. CASE \/ AcceptFails \/ CloseReturns \/ CloseListener
             \/ \E c \in Reqs : Refuse(c) \/ Spawn(c) \/ HandlerDone(c) \/ Dial(c)
    BY <2>3 DEF AcceptFails, CloseReturns, CloseListener, Refuse, Spawn, HandlerDone, Dial
  <2>4. CASE UNCHANGED vars
    BY <2>4 DEF vars
  <2>5. QED
    BY <2>1, <2>2, <2>3, <2>4 DEF Next, Server
<1>3. QED
  BY <1>1, <1>2, NetInvariant, PTL DEF Spec, PoolSpec
=============================================================================
