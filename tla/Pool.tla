-------------------------------- MODULE Pool --------------------------------
(***************************************************************************)
(* concurrent.Pool (internal/concurrent/pool.go): the gate in front of the *)
(* handlers of http.serve, http.listen and net.serve, and the HTTP handler *)
(* that goes through it (internal/evaluator/eval_http_server.go).          *)
(*                                                                         *)
(* The pool keeps two channels of tokens, slots and queue, and counters    *)
(* that are updated by steps of their own.  The tokens are anonymous in    *)
(* the code; here a token is named after the request that put it there,    *)
(* which every Release and every deferred dequeue respects.                *)
(*                                                                         *)
(* at[r] is where request r is:                                            *)
(*    "idle"        not arrived                                            *)
(*    "new"         in front of Acquire's first, non-blocking select       *)
(*    "full"        that select found no slot                              *)
(*    "enter"       holds a queue token, not yet counted as queued         *)
(*    "wait"        in front of the select on a slot and the context       *)
(*    "parked"      blocked in that select                                 *)
(*    "count"       holds a slot, not yet counted as active                *)
(*    "leave"       the deferred function is about to give the queue token *)
(*                  back                                                   *)
(*    "unqueue"     queue token given back, still counted as queued        *)
(*    "running"     Acquire has returned nil                               *)
(*    "uncount"     slot given back, still counted as active               *)
(*    "served", "overloaded", "cancelled": the outcomes                    *)
(***************************************************************************)
EXTENDS Integers, Sequences, FiniteSets, SequencesExt

CONSTANTS Reqs,     \* requests
          Configs   \* pool configurations: [max, queue, policy]

ASSUME PoolAssumption ==
  /\ IsFiniteSet(Reqs)
  /\ \A k \in Configs : /\ k.max \in Nat /\ k.queue \in Nat
                        /\ k.policy \in {"reject", "wait", "drop"}

VARIABLES
  conf,      \* the pool's configuration
  slots,     \* the tokens in the slots channel
  queue,     \* the tokens in the queue channel
  waiters,   \* requests blocked in a send on slots, in order of arrival
  active, queued, rejected,   \* the counters of Stats
  at,        \* at[r]: where request r is
  ctxDone    \* ctxDone[r]: the request's context is cancelled

poolVars == <<conf, slots, queue, waiters, active, queued, rejected, at, ctxDone>>

PoolInit ==
  /\ conf \in Configs
  /\ slots = {}
  /\ queue = {}
  /\ waiters = <<>>
  /\ active = 0 /\ queued = 0 /\ rejected = 0
  /\ at = [r \in Reqs |-> "idle"]
  /\ ctxDone = [r \in Reqs |-> FALSE]

IsUnbounded == conf.max = 0

\* Mutant: the slots channel is made one too large.
SlotFreeOneMore == Cardinality(slots) <= conf.max

SlotFree == Cardinality(slots) < conf.max

QueueFree == Cardinality(queue) < conf.queue

Goto(r, l) == at' = [at EXCEPT ![r] = l]

-----------------------------------------------------------------------------
(* Acquire.                                                                 *)

\* The first select; the callers skip Acquire for an unbounded pool.
AcquireFast(r) ==
  /\ at[r] = "new"
  /\ \/ IsUnbounded /\ Goto(r, "running") /\ UNCHANGED slots
     \/ ~IsUnbounded /\ SlotFree /\ slots' = slots \cup {r} /\ Goto(r, "count")
     \/ ~IsUnbounded /\ ~SlotFree /\ Goto(r, "full") /\ UNCHANGED slots
  /\ UNCHANGED <<conf, queue, waiters, active, queued, rejected, ctxDone>>

\* No slot: wait for one, or try the queue (a queue of size 0 has no channel).
AcquireFull(r) ==
  /\ at[r] = "full"
  /\ \/ /\ conf.policy = "wait"
        /\ Goto(r, "wait")
        /\ UNCHANGED <<queue, rejected>>
     \/ /\ conf.policy # "wait"
        /\ ~QueueFree
        /\ rejected' = rejected + 1
        /\ Goto(r, "overloaded")
        /\ UNCHANGED queue
     \/ /\ conf.policy # "wait"
        /\ QueueFree
        /\ queue' = queue \cup {r}
        /\ Goto(r, "enter")
        /\ UNCHANGED rejected
  /\ UNCHANGED <<conf, slots, waiters, active, queued, ctxDone>>

CountQueued(r) ==
  /\ at[r] = "enter"
  /\ queued' = queued + 1
  /\ Goto(r, "wait")
  /\ UNCHANGED <<conf, slots, queue, waiters, active, rejected, ctxDone>>

\* Mutant: a request that gives up on its context forgets its place in the queue.
GiveUpQueued(r) == "cancelled"

\* Where a request goes when its context ends the wait: the deferred function runs
\* for a queued request, with policy Wait there is none.
GiveUp(r) == IF r \in queue THEN "leave" ELSE "cancelled"

\* The blocking select: a slot, the context, or parking; both ready: either.
AcquireSelect(r) ==
  /\ at[r] = "wait"
  /\ \/ SlotFree /\ slots' = slots \cup {r} /\ Goto(r, "count") /\ UNCHANGED waiters
     \/ ctxDone[r] /\ Goto(r, GiveUp(r)) /\ UNCHANGED <<slots, waiters>>
     \/ /\ ~SlotFree /\ ~ctxDone[r]
        /\ waiters' = Append(waiters, r)
        /\ Goto(r, "parked")
        /\ UNCHANGED slots
  /\ UNCHANGED <<conf, queue, active, queued, rejected, ctxDone>>

WaitCancelled(r) ==
  /\ at[r] = "parked"
  /\ ctxDone[r]
  /\ \E i \in DOMAIN waiters : waiters[i] = r /\ waiters' = RemoveAt(waiters, i)
  /\ Goto(r, GiveUp(r))
  /\ UNCHANGED <<conf, slots, queue, active, queued, rejected, ctxDone>>

\* Mutant: a path of Acquire that takes a slot and does not count it.
CountActiveSkipped(r) ==
  /\ at[r] = "count"
  /\ Goto(r, IF r \in queue THEN "leave" ELSE "running")
  /\ UNCHANGED <<conf, slots, queue, waiters, active, queued, rejected, ctxDone>>

CountActive(r) ==
  /\ at[r] = "count"
  /\ active' = active + 1
  /\ Goto(r, IF r \in queue THEN "leave" ELSE "running")
  /\ UNCHANGED <<conf, slots, queue, waiters, queued, rejected, ctxDone>>

\* The deferred function of a queued Acquire, on success and on cancellation.
LeaveQueue(r) ==
  /\ at[r] = "leave"
  /\ queue' = queue \ {r}
  /\ Goto(r, "unqueue")
  /\ UNCHANGED <<conf, slots, waiters, active, queued, rejected, ctxDone>>

UncountQueued(r) ==
  /\ at[r] = "unqueue"
  /\ queued' = queued - 1
  /\ Goto(r, IF r \in slots THEN "running" ELSE "cancelled")
  /\ UNCHANGED <<conf, slots, queue, waiters, active, rejected, ctxDone>>

-----------------------------------------------------------------------------
(* Release.                                                                 *)

\* Mutant: the slot is given back and the blocked waiters are not served.
ReleaseForgetsWaiter(r) ==
  /\ at[r] = "running"
  /\ ~IsUnbounded
  /\ slots' = slots \ {r}
  /\ Goto(r, "uncount")
  /\ UNCHANGED <<conf, queue, waiters, active, queued, rejected, ctxDone>>

\* The receive from slots lets the first blocked sender put its token in.
Release(r) ==
  /\ at[r] = "running"
  /\ \/ /\ IsUnbounded
        /\ Goto(r, "served")
        /\ UNCHANGED <<slots, waiters>>
     \/ /\ ~IsUnbounded /\ waiters = <<>>
        /\ slots' = slots \ {r}
        /\ Goto(r, "uncount")
        /\ UNCHANGED waiters
     \/ /\ ~IsUnbounded /\ waiters # <<>>
        /\ slots' = (slots \ {r}) \cup {Head(waiters)}
        /\ waiters' = Tail(waiters)
        /\ at' = [at EXCEPT ![r] = "uncount", ![Head(waiters)] = "count"]
  /\ UNCHANGED <<conf, queue, active, queued, rejected, ctxDone>>

UncountActive(r) ==
  /\ at[r] = "uncount"
  /\ active' = active - 1
  /\ Goto(r, "served")
  /\ UNCHANGED <<conf, slots, queue, waiters, queued, rejected, ctxDone>>

-----------------------------------------------------------------------------
(* The HTTP server: one goroutine for each request, with its own context.   *)

Arrive(r) ==
  /\ at[r] = "idle"
  /\ Goto(r, "new")
  /\ UNCHANGED <<conf, slots, queue, waiters, active, queued, rejected, ctxDone>>

\* The client goes away or the server is closed: the context is cancelled.
Disconnect(r) ==
  /\ at[r] # "idle" /\ ~ctxDone[r]
  /\ ctxDone' = [ctxDone EXCEPT ![r] = TRUE]
  /\ UNCHANGED <<conf, slots, queue, waiters, active, queued, rejected, at>>

\* A step of Acquire, or the end of Release, in the goroutine of request r.
PoolStep(r) ==
  \/ AcquireFast(r)
  \/ AcquireFull(r)
  \/ CountQueued(r)
  \/ AcquireSelect(r)
  \/ WaitCancelled(r)
  \/ CountActive(r)
  \/ LeaveQueue(r)
  \/ UncountQueued(r)
  \/ UncountActive(r)

\* A request's goroutine; a running handler ends in the deferred Release.
Request(r) == PoolStep(r) \/ Release(r)

PoolNext == \E r \in Reqs : Request(r) \/ Arrive(r) \/ Disconnect(r)

PoolSpec == PoolInit /\ [][PoolNext]_poolVars

\* Every runnable goroutine runs, and handlers return.
FairPoolSpec == PoolSpec /\ \A r \in Reqs : WF_poolVars(Request(r))

-----------------------------------------------------------------------------
Outcomes == {"served", "overloaded", "cancelled"}

Ats == {"idle", "new", "full", "enter", "wait", "parked", "count", "leave",
        "unqueue", "running", "uncount"} \cup Outcomes

\* Types of the pool's state; no counter goes below zero.
PoolTypeOK ==
  /\ conf \in Configs
  /\ slots \subseteq Reqs /\ queue \subseteq Reqs
  /\ waiters \in Seq(Reqs)
  /\ active \in Nat /\ queued \in Nat /\ rejected \in Nat
  /\ at \in [Reqs -> Ats]
  /\ ctxDone \in [Reqs -> BOOLEAN]

\* The requests whose handler may run: Acquire has returned nil, Release has not
\* been called.
Running == {r \in Reqs : at[r] = "running"}

\* At most maxConcurrent handlers run at once, and at most queueSize requests wait
\* in line under reject and drop.
Capped ==
  ~IsUnbounded =>
    /\ Cardinality(Running) <= conf.max
    /\ conf.policy # "wait" => Cardinality({r \in Reqs : at[r] = "parked"}) <= conf.queue

\* No lost wake-up: nobody is blocked on a slot while one is free.
NoIdleSlot == waiters # <<>> => ~SlotFree

\* The tokens and counters are exactly what the requests in flight account for, so
\* that a server with no request in flight is back in its initial state whatever
\* rejections, cancellations and hand-overs there were.
Quiescent == \A r \in Reqs : at[r] \in {"idle"} \cup Outcomes

Balanced ==
  Quiescent =>
    /\ slots = {} /\ queue = {} /\ waiters = <<>>
    /\ active = 0 /\ queued = 0
    /\ rejected = Cardinality({r \in Reqs : at[r] = "overloaded"})

\* Every request is served or refused in the end: FIFO hand-over starves nobody.
RequestsEnd == \A r \in Reqs : (at[r] = "new") ~> (at[r] \in Outcomes)
=============================================================================
