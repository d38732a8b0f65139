----------------------------- MODULE FieldLock ------------------------------
(***************************************************************************)
(* Access to the fields of shared class instances                          *)
(* (internal/runtime/instance_concurrency.go).  An instance keeps its      *)
(* fields in a Go map, which must not be written while another goroutine   *)
(* uses it.  The accessors take the instance's mutex only while asyncDepth *)
(* says that some async task is live; a sequential script pays no lock.    *)
(* Other code goes to the map itself and never takes the mutex.            *)
(*                                                                         *)
(* st[p] is where goroutine p is:                                          *)
(*    "unborn"   not started                                               *)
(*    "ended"    its function has returned                                 *)
(*    "idle"     running script code outside an accessor                   *)
(*    "spawn"    between AsyncEnter and the go statement                   *)
(*    "next"     blocked in the Next of a generator                        *)
(*    "yield"    producer: blocked in a yield                              *)
(*    "lock"     accessor: has seen asyncDepth > 0, waits for the mutex    *)
(*    "locked"   accessor: uses the map with the mutex held                *)
(*    "bare"     accessor: has seen asyncDepth = 0                         *)
(*    "inMap"    accessor: uses the map without the mutex                  *)
(*    "direct"   uses the map past the accessors                           *)
(***************************************************************************)
EXTENDS Integers, FiniteSets

CONSTANTS Main,     \* the goroutine of the script
          Tasks,    \* goroutines of async tasks
          Gens,     \* producer goroutines of generators
          Insts     \* shared instances

Procs == {Main} \cup Tasks \cup Gens

ASSUME FieldLockAssumption ==
  /\ Main \notin Tasks \cup Gens
  /\ Tasks \cap Gens = {}
  /\ IsFiniteSet(Tasks)

VARIABLES
  depth,    \* asyncDepth
  st,       \* st[p]: where goroutine p is
  peer,    \* peer[p]: the task p is starting, or the generator it calls next() on
  inst,     \* inst[p]: the instance p is accessing
  writes    \* writes[p]: the access changes the map

vars == <<depth, st, peer, inst, writes>>

Init ==
  /\ depth = 0
  /\ st = [p \in Procs |-> IF p = Main THEN "idle" ELSE "unborn"]
  /\ peer = [p \in Procs |-> Main]
  /\ \E i \in Insts : inst = [p \in Procs |-> i]
  /\ writes = [p \in Procs |-> FALSE]

asyncActive == depth > 0

-----------------------------------------------------------------------------
\* A goroutine name no task uses yet.
Fresh(t) ==
  /\ st[t] = "unborn"
  /\ \A q \in Procs : st[q] = "spawn" => peer[q] # t

\* Mutant: the task counts itself in, when it gets to run, and not its parent.
AsyncEnterLate(p, t) ==
  /\ st[p] = "idle" /\ Fresh(t)
  /\ st' = [st EXCEPT ![p] = "spawn"]
  /\ peer' = [peer EXCEPT ![p] = t]
  /\ UNCHANGED <<depth, inst, writes>>

\* startAsyncFunction, startAsyncCallable: p counts the new task t in ...
AsyncEnter(p, t) ==
  /\ st[p] = "idle" /\ Fresh(t)
  /\ depth' = depth + 1
  /\ st' = [st EXCEPT ![p] = "spawn"]
  /\ peer' = [peer EXCEPT ![p] = t]
  /\ UNCHANGED <<inst, writes>>

\* ... and only then starts its goroutine.
Go(p) ==
  /\ st[p] = "spawn"
  /\ st' = [st EXCEPT ![p] = "idle", ![peer[p]] = "idle"]
  /\ UNCHANGED <<depth, peer, inst, writes>>

\* The deferred AsyncLeave, after the task's function has returned.
AsyncLeave(t) ==
  /\ st[t] = "idle"
  /\ depth' = depth - 1
  /\ st' = [st EXCEPT ![t] = "ended"]
  /\ UNCHANGED <<peer, inst, writes>>

\* Next on a generator: the first one starts the producer, which is not counted.
CallNext(p, g) ==
  /\ p # g /\ st[p] = "idle"
  /\ st' = [st EXCEPT ![p] = "next", ![g] = IF @ = "unborn" THEN "idle" ELSE @]
  /\ peer' = [peer EXCEPT ![p] = g]
  /\ UNCHANGED <<depth, inst, writes>>

Yield(g) ==
  /\ st[g] = "idle"
  /\ st' = [st EXCEPT ![g] = "yield"]
  /\ UNCHANGED <<depth, peer, inst, writes>>

\* The value changes hands, and the producer runs on next to its consumer.
HandOver(p) ==
  /\ st[p] = "next" /\ st[peer[p]] = "yield"
  /\ st' = [st EXCEPT ![p] = "idle", ![peer[p]] = "idle"]
  /\ UNCHANGED <<depth, peer, inst, writes>>

ProducerEnds(g) ==
  /\ st[g] = "idle"
  /\ st' = [st EXCEPT ![g] = "ended"]
  /\ UNCHANGED <<depth, peer, inst, writes>>

NextEnds(p) ==
  /\ st[p] = "next" /\ st[peer[p]] = "ended"
  /\ st' = [st EXCEPT ![p] = "idle"]
  /\ UNCHANGED <<depth, peer, inst, writes>>

-----------------------------------------------------------------------------
\* GetField, HasField, FieldCount and SnapshotFields (w false), SetField and
\* DeleteField (w true): the load of asyncDepth.
Access(p, i, w) ==
  /\ st[p] = "idle"
  /\ st' = [st EXCEPT ![p] = IF asyncActive THEN "lock" ELSE "bare"]
  /\ inst' = [inst EXCEPT ![p] = i]
  /\ writes' = [writes EXCEPT ![p] = w]
  /\ UNCHANGED <<depth, peer>>

Lock(p) ==
  /\ st[p] = "lock"
  /\ \A q \in Procs : st[q] = "locked" => inst[q] # inst[p]
  /\ st' = [st EXCEPT ![p] = "locked"]
  /\ UNCHANGED <<depth, peer, inst, writes>>

Touch(p) ==
  /\ st[p] = "bare"
  /\ st' = [st EXCEPT ![p] = "inMap"]
  /\ UNCHANGED <<depth, peer, inst, writes>>

\* The code that uses Instance.Fields itself, whatever asyncDepth is: a structural ==,
\* a deep clone and reflect.getField (w false), reflect.setField and the native methods
\* of built-in classes (w true).
Direct(p, i, w) ==
  /\ st[p] = "idle"
  /\ st' = [st EXCEPT ![p] = "direct"]
  /\ inst' = [inst EXCEPT ![p] = i]
  /\ writes' = [writes EXCEPT ![p] = w]
  /\ UNCHANGED <<depth, peer>>

Finish(p) ==
  /\ st[p] \in {"locked", "inMap", "direct"}
  /\ st' = [st EXCEPT ![p] = "idle"]
  /\ UNCHANGED <<depth, peer, inst, writes>>

Next ==
  \/ \E p \in Procs :
       \/ \E t \in Tasks : AsyncEnter(p, t)
       \/ Go(p)
       \/ \E g \in Gens : CallNext(p, g)
       \/ HandOver(p)
       \/ NextEnds(p)
       \/ \E i \in Insts, w \in BOOLEAN : Access(p, i, w) \/ Direct(p, i, w)
       \/ Lock(p)
       \/ Touch(p)
       \/ Finish(p)
  \/ \E t \in Tasks : AsyncLeave(t)
  \/ \E g \in Gens : Yield(g) \/ ProducerEnds(g)

Spec == Init /\ [][Next]_vars

-----------------------------------------------------------------------------
Sts == {"unborn", "idle", "spawn", "next", "yield", "lock", "locked", "bare", "inMap",
        "direct", "ended"}

\* Types of the goroutines' state; asyncDepth is never negative.
TypeOK ==
  /\ depth \in Nat
  /\ st \in [Procs -> Sts]
  /\ peer \in [Procs -> Procs]
  /\ inst \in [Procs -> Insts]
  /\ writes \in [Procs -> BOOLEAN]

\* Two goroutines are in the map of one instance and one of them changes it: the
\* Go runtime ends the process.
Collide(p, q) == p # q /\ inst[p] = inst[q] /\ (writes[p] \/ writes[q])

InAccessor(p) == st[p] \in {"locked", "inMap"}
AccessorRace == \E p, q \in Procs : InAccessor(p) /\ InAccessor(q) /\ Collide(p, q)

NoGenerator == \A g \in Gens : st[g] = "unborn"

\* What the accessors guarantee: two of them, in the script and its async tasks, never race
\* on a field map, though they choose their locking by a counter that changes under them.
\* This is as long as no generator was started.  A use of the map past the accessors may
\* meet any other: every race of the script and its tasks has one of those in it
\* (instance_concurrency.go GetField to SnapshotFields).
AccessorsNeverRace == NoGenerator => ~AccessorRace

\* The tasks asyncDepth stands for: started and not ended, or about to be started.
Counted ==
  {t \in Tasks : \/ st[t] \notin {"unborn", "ended"}
                 \/ \E p \in Procs : st[p] = "spawn" /\ peer[p] = t}

\* The inductive invariant: the counter is exact, so that an accessor that goes
\* without the lock belongs to the script and nothing else is alive.
LockInv ==
  /\ TypeOK
  /\ depth = Cardinality(Counted)
  /\ \A p \in Procs : st[p] = "spawn" => peer[p] \in Tasks /\ st[peer[p]] = "unborn"
  /\ \A p, q \in Procs : st[p] = "spawn" /\ st[q] = "spawn" /\ peer[p] = peer[q] => p = q
  /\ \A p \in Procs : st[p] = "next" => peer[p] \in Gens /\ st[peer[p]] # "unborn"
  /\ \A p, q \in Procs : st[p] = "locked" /\ st[q] = "locked" /\ inst[p] = inst[q] => p = q
  /\ NoGenerator => \A p \in Procs : st[p] \in {"bare", "inMap"} => p = Main /\ depth = 0

\* What instance_concurrency.go says of its locking: parallel goroutines cannot
\* trip Go's concurrent-map fatal.  The producer goroutine of a generator runs on
\* after each hand-over, in parallel with its consumer, and is not counted, so that
\* two accessors meet.
NeverRaces == ~AccessorRace
=============================================================================
