------------------------------ MODULE NetServe ------------------------------
(***************************************************************************)
(* net.serve (internal/evaluator/eval_net.go): an accept loop that admits  *)
(* connections through a Pool, a goroutine for each admitted connection,   *)
(* and net.closeListener, which closes the listener and joins them all.    *)
(*                                                                         *)
(* The requests of the pool are the connections.  All their Acquire calls  *)
(* are made by the accept loop, one after the other and without a context; *)
(* the Release is made by the connection's own goroutine.                  *)
(***************************************************************************)
EXTENDS Pool

CONSTANTS NoConn     \* the accept loop holds no connection

ASSUME NetAssumption == NoConn \notin Reqs

VARIABLES
  backlog,    \* connections the kernel holds for Accept, in order of arrival
  listening,  \* the listener is open
  cur,        \* the connection the accept loop is admitting
  accepting,  \* the accept loop has not returned
  conn,       \* conn[c]: "none", "backlog", "accepted", "handler", "released", "ended"
              \* (refused, reset, or its goroutine has returned)
  wg,         \* the counter of netServerHandle.wg
  closer      \* net.closeListener: "idle", "waiting" in wg.Wait, "returned"

netVars == <<backlog, listening, cur, accepting, conn, wg, closer>>
vars == <<poolVars, netVars>>

Init ==
  /\ PoolInit
  /\ backlog = <<>>
  /\ listening = TRUE
  /\ cur = NoConn
  /\ accepting = TRUE
  /\ conn = [c \in Reqs |-> "none"]
  /\ wg = 1
  /\ closer = "idle"

\* A client connects.
Dial(c) ==
  /\ conn[c] = "none" /\ listening
  /\ conn' = [conn EXCEPT ![c] = "backlog"]
  /\ backlog' = Append(backlog, c)
  /\ UNCHANGED <<poolVars, listening, cur, accepting, wg, closer>>

\* listener.Accept, and the call of Acquire.
Accept ==
  /\ accepting /\ cur = NoConn /\ listening /\ backlog # <<>>
  /\ cur' = Head(backlog)
  /\ backlog' = Tail(backlog)
  /\ conn' = [conn EXCEPT ![Head(backlog)] = "accepted"]
  /\ Arrive(Head(backlog))
  /\ UNCHANGED <<listening, accepting, wg, closer>>

\* listener.Accept returns an error, and the accept loop with it: because the listener is
\* closed, or for any other reason (no file descriptor is left, say), when the listener
\* stays open and what arrives stays in its backlog.
AcceptFails ==
  /\ accepting /\ cur = NoConn
  /\ accepting' = FALSE
  /\ wg' = wg - 1
  /\ UNCHANGED <<poolVars, backlog, listening, cur, conn, closer>>

\* Acquire in the accept loop, with the background context.
Admitting(c) ==
  /\ cur = c
  /\ PoolStep(c)
  /\ UNCHANGED netVars

\* Acquire failed: the accepted connection is closed.
Refuse(c) ==
  /\ cur = c /\ at[c] = "overloaded"
  /\ cur' = NoConn
  /\ conn' = [conn EXCEPT ![c] = "ended"]
  /\ UNCHANGED <<poolVars, backlog, listening, accepting, wg, closer>>

\* Mutant: the new goroutine, not the accept loop, calls wg.Add.
SpawnUncounted(c) ==
  /\ cur = c /\ at[c] = "running"
  /\ cur' = NoConn
  /\ conn' = [conn EXCEPT ![c] = "handler"]
  /\ UNCHANGED <<poolVars, backlog, listening, accepting, wg, closer>>

Spawn(c) ==
  /\ cur = c /\ at[c] = "running"
  /\ cur' = NoConn
  /\ conn' = [conn EXCEPT ![c] = "handler"]
  /\ wg' = wg + 1
  /\ UNCHANGED <<poolVars, backlog, listening, accepting, closer>>

\* Mutant: the goroutine of a connection ends without its deferred Release.
HandlerReturnsKeepingSlot(c) ==
  /\ conn[c] = "handler"
  /\ conn' = [conn EXCEPT ![c] = "released"]
  /\ at' = [at EXCEPT ![c] = "served"]
  /\ UNCHANGED <<conf, slots, queue, waiters, active, queued, rejected, ctxDone>>
  /\ UNCHANGED <<backlog, listening, cur, accepting, wg, closer>>

\* The handler returns; the deferred calls are Release, then wg.Done.
HandlerReturns(c) ==
  /\ conn[c] = "handler"
  /\ Release(c)
  /\ conn' = [conn EXCEPT ![c] = "released"]
  /\ UNCHANGED <<backlog, listening, cur, accepting, wg, closer>>

Releasing(c) ==
  /\ conn[c] = "released"
  /\ UncountActive(c)
  /\ UNCHANGED netVars

HandlerDone(c) ==
  /\ conn[c] = "released" /\ at[c] = "served"
  /\ conn' = [conn EXCEPT ![c] = "ended"]
  /\ wg' = wg - 1
  /\ UNCHANGED <<poolVars, backlog, listening, cur, accepting, closer>>

\* stopNetServerHandle closes the listener, which resets what it had not accepted.
CloseListener ==
  /\ closer = "idle"
  /\ closer' = "waiting"
  /\ listening' = FALSE
  /\ backlog' = <<>>
  /\ conn' = [c \in Reqs |-> IF conn[c] = "backlog" THEN "ended" ELSE conn[c]]
  /\ UNCHANGED <<poolVars, cur, accepting, wg>>

\* wg.Wait returns.
CloseReturns ==
  /\ closer = "waiting"
  /\ wg = 0
  /\ closer' = "returned"
  /\ UNCHANGED <<poolVars, backlog, listening, cur, accepting, conn, wg>>

\* The steps of the server's own goroutines, the script's handlers left out.
Server ==
  \/ Accept
  \/ ~listening /\ AcceptFails
  \/ \E c \in Reqs : Admitting(c) \/ Refuse(c) \/ Spawn(c) \/ Releasing(c) \/ HandlerDone(c)
  \/ CloseReturns

Next ==
  \/ Server
  \/ listening /\ AcceptFails
  \/ \E c \in Reqs : Dial(c) \/ HandlerReturns(c)
  \/ CloseListener

Spec == Init /\ [][Next]_vars

\* The server's goroutines run and handlers return; Accept on an open listener need not
\* fail.  A behaviour has finitely many steps, so fairness of the whole is fairness of each
\* goroutine.
FairSpec == Spec /\ WF_vars(Server) /\ \A c \in Reqs : WF_vars(HandlerReturns(c))

-----------------------------------------------------------------------------
\* Types of the server's state; the WaitGroup counter is never negative.
TypeOK ==
  /\ PoolTypeOK
  /\ backlog \in Seq(Reqs)
  /\ listening \in BOOLEAN /\ accepting \in BOOLEAN
  /\ cur \in Reqs \cup {NoConn}
  /\ conn \in [Reqs -> {"none", "backlog", "accepted", "handler", "released", "ended"}]
  /\ wg \in Nat
  /\ closer \in {"idle", "waiting", "returned"}

\* net.closeListener joins: when it has returned no handler runs any more, the
\* accept loop has ended and the pool has all its tokens back.
CloseJoins ==
  closer = "returned" =>
    /\ ~accepting
    /\ \A c \in Reqs : conn[c] \in {"none", "ended"}
    /\ slots = {} /\ queue = {} /\ active = 0 /\ queued = 0

\* net.closeListener returns once the handlers do, also when the accept loop is
\* blocked in Acquire at the time the listener is closed.
CloseEnds == (closer = "waiting") ~> (closer = "returned")

\* No connection is left behind: a client in the backlog is accepted or disconnected,
\* unless the accept loop has given up an open listener, which is all that can keep it
\* waiting; and one that was accepted is handled or refused to its end, whatever becomes
\* of the accept loop.  In time, that is: a client may have to wait for a handler to return
\* before it is as much as accepted (eval_net.go netServe).
GivenUp == listening /\ ~accepting
ConnsEnd ==
  \A c \in Reqs :
    /\ (conn[c] = "backlog") ~> (conn[c] # "backlog" \/ GivenUp)
    /\ (conn[c] \in {"accepted", "handler", "released"}) ~> (conn[c] = "ended")
=============================================================================
