-------------------------------- MODULE Task --------------------------------
(***************************************************************************)
(* runtime.Task (internal/runtime/value.go): the handle every async        *)
(* operation of the language returns.  Goroutines call Complete and Cancel *)
(* on shared tasks; the two sync.Once values make the first Complete and   *)
(* the first Cancel win, and a later caller of either blocks until the     *)
(* winner's closure has finished.                                          *)
(*                                                                         *)
(* A call is a sequence of steps other goroutines interleave with.         *)
(* call[p].at is the next step of the call goroutine p is in:              *)
(*    "cancelOnce"   Cancel, in front of cancelOnce.Do                     *)
(*    "closeCancel"  Cancel, cancelled set, the cancel channel still open  *)
(*    "once"         Complete, in front of once.Do                         *)
(*    "store"        Complete, running the closure, result not yet stored  *)
(*    "close"        Complete, result stored, the done channel still open  *)
(* A critical section of Task.mu is one step.  Leaving the closure of a    *)
(* sync.Once and the channel close at its end are one step: nothing of the *)
(* closure is left after the close.                                        *)
(***************************************************************************)
CONSTANTS Tasks,      \* task objects
          Procs,      \* goroutines
          Results,    \* TaskResult values, abstracted
          Cancelled,  \* TaskResult{Null, ErrTaskCancelled}
          NoResult,   \* the zero TaskResult of an unfinished task
          NoTask,     \* no task: the goroutine is in no call
          NoProc      \* no goroutine has entered once.Do

ASSUME TaskAssumption ==
  /\ Cancelled \in Results
  /\ NoResult \notin Results
  /\ NoTask \notin Tasks
  /\ NoProc \notin Procs

VARIABLES
  runner,     \* runner[t]: the goroutine running, or having run, once.Do's closure
  result,     \* result[t]: Task.result
  doneCh,     \* doneCh[t]: the done channel is closed
  cancelled,  \* cancelled[t]: Task.cancelled
  cancelCh,   \* cancelCh[t]: the cancel channel is closed
  call        \* call[p]: the call goroutine p is in

taskVars == <<runner, result, doneCh, cancelled, cancelCh, call>>

InCall(at, t, r) == [at |-> at, task |-> t, res |-> r]

Idle == InCall("idle", NoTask, NoResult)

Ats == {"idle", "cancelOnce", "closeCancel", "once", "store", "close"}

TaskTypeOK ==
  /\ runner \in [Tasks -> Procs \cup {NoProc}]
  /\ result \in [Tasks -> Results \cup {NoResult}]
  /\ doneCh \in [Tasks -> BOOLEAN]
  /\ cancelled \in [Tasks -> BOOLEAN]
  /\ cancelCh \in [Tasks -> BOOLEAN]
  /\ call \in [Procs -> [at : Ats, task : Tasks \cup {NoTask},
                         res : Results \cup {NoResult}]]

TaskInit ==
  /\ runner = [t \in Tasks |-> NoProc]
  /\ result = [t \in Tasks |-> NoResult]
  /\ doneCh = [t \in Tasks |-> FALSE]
  /\ cancelled = [t \in Tasks |-> FALSE]
  /\ cancelCh = [t \in Tasks |-> FALSE]
  /\ call = [p \in Procs |-> Idle]

-----------------------------------------------------------------------------
\* Goroutine p calls t.Complete(r).
Complete(p, t, r) ==
  /\ call[p] = Idle
  /\ call' = [call EXCEPT ![p] = InCall("once", t, r)]
  /\ UNCHANGED <<runner, result, doneCh, cancelled, cancelCh>>

\* Goroutine p calls t.Cancel(), which ends in t.Complete(Null, ErrTaskCancelled).
Cancel(p, t) ==
  /\ call[p] = Idle
  /\ call' = [call EXCEPT ![p] = InCall("cancelOnce", t, Cancelled)]
  /\ UNCHANGED <<runner, result, doneCh, cancelled, cancelCh>>

\* cancelOnce.Do, first caller: the flag is set under mu.
EnterCancelOnce(p) ==
  LET t == call[p].task IN
  /\ call[p].at = "cancelOnce"
  /\ ~cancelled[t]
  /\ cancelled' = [cancelled EXCEPT ![t] = TRUE]
  /\ call' = [call EXCEPT ![p].at = "closeCancel"]
  /\ UNCHANGED <<runner, result, doneCh, cancelCh>>

\* Mutant: Cancel signals the cancel channel and leaves the rest to the producer.
CloseCancelOnly(p) ==
  LET t == call[p].task IN
  /\ call[p].at = "closeCancel"
  /\ cancelCh' = [cancelCh EXCEPT ![t] = TRUE]
  /\ call' = [call EXCEPT ![p] = Idle]
  /\ UNCHANGED <<runner, result, doneCh, cancelled>>

CloseCancel(p) ==
  LET t == call[p].task IN
  /\ call[p].at = "closeCancel"
  /\ cancelCh' = [cancelCh EXCEPT ![t] = TRUE]
  /\ call' = [call EXCEPT ![p].at = "once"]
  /\ UNCHANGED <<runner, result, doneCh, cancelled>>

\* cancelOnce.Do, later caller: returns once the first one has finished.
SkipCancelOnce(p) ==
  LET t == call[p].task IN
  /\ call[p].at = "cancelOnce"
  /\ cancelCh[t]
  /\ call' = [call EXCEPT ![p].at = "once"]
  /\ UNCHANGED <<runner, result, doneCh, cancelled, cancelCh>>

\* Mutant: Complete tests the done channel instead of using sync.Once.
EnterOnceUnguarded(p) ==
  LET t == call[p].task IN
  /\ call[p].at = "once"
  /\ ~doneCh[t]
  /\ runner' = [runner EXCEPT ![t] = p]
  /\ call' = [call EXCEPT ![p].at = "store"]
  /\ UNCHANGED <<result, doneCh, cancelled, cancelCh>>

\* once.Do, first caller.
EnterOnce(p) ==
  LET t == call[p].task IN
  /\ call[p].at = "once"
  /\ runner[t] = NoProc
  /\ runner' = [runner EXCEPT ![t] = p]
  /\ call' = [call EXCEPT ![p].at = "store"]
  /\ UNCHANGED <<result, doneCh, cancelled, cancelCh>>

\* Mutant: a later Complete returns while the first one is still in its closure.
SkipOnceEarly(p) ==
  LET t == call[p].task IN
  /\ call[p].at = "once"
  /\ runner[t] # NoProc
  /\ call' = [call EXCEPT ![p] = Idle]
  /\ UNCHANGED <<runner, result, doneCh, cancelled, cancelCh>>

\* once.Do, later caller: returns once the closure of the first has finished.
SkipOnce(p) ==
  LET t == call[p].task IN
  /\ call[p].at = "once"
  /\ doneCh[t]
  /\ call' = [call EXCEPT ![p] = Idle]
  /\ UNCHANGED <<runner, result, doneCh, cancelled, cancelCh>>

StoreResult(p) ==
  LET t == call[p].task IN
  /\ call[p].at = "store"
  /\ result' = [result EXCEPT ![t] = call[p].res]
  /\ call' = [call EXCEPT ![p].at = "close"]
  /\ UNCHANGED <<runner, doneCh, cancelled, cancelCh>>

CloseDone(p) ==
  LET t == call[p].task IN
  /\ call[p].at = "close"
  /\ doneCh' = [doneCh EXCEPT ![t] = TRUE]
  /\ call' = [call EXCEPT ![p] = Idle]
  /\ UNCHANGED <<runner, result, cancelled, cancelCh>>

\* A goroutine inside a call takes the call's next step.
CallStep(p) ==
  \/ EnterCancelOnce(p)
  \/ CloseCancel(p)
  \/ SkipCancelOnce(p)
  \/ EnterOnce(p)
  \/ SkipOnce(p)
  \/ StoreResult(p)
  \/ CloseDone(p)

\* Await and Done read the result only once the done channel is closed.
Done(t) == doneCh[t]

TaskNext ==
  \E p \in Procs :
    \/ CallStep(p)
    \/ \E t \in Tasks : Cancel(p, t) \/ \E r \in Results : Complete(p, t, r)

\* Any goroutines, calling Complete and Cancel on any tasks in any order.
TaskSpec == TaskInit /\ [][TaskNext]_taskVars

-----------------------------------------------------------------------------
(***************************************************************************)
(* The refinement mapping to Future.  The step that settles a task is the  *)
(* close of its done channel, not the assignment to Task.result: until     *)
(* then no awaiter can see the result.                                     *)
(***************************************************************************)
FutureOf ==
  INSTANCE Future WITH
    Pending <- NoResult,
    value <- [t \in Tasks |-> IF doneCh[t] THEN result[t] ELSE NoResult],
    asked <- cancelled

\* A task behaves as a write-once cell: one step settles it and nothing changes
\* it afterwards, whatever Complete and Cancel calls race on it.
FutureSafety == FutureOf!Safety

\* The invariant that makes the refinement inductive.  Only the goroutine that
\* entered once.Do is in its closure; the result is stored when that goroutine
\* is about to close the done channel, and stays when it has closed it.
OnceInv ==
  /\ \A p \in Procs : call[p].at # "idle" =>
       call[p].task \in Tasks /\ call[p].res \in Results
  /\ \A p \in Procs : call[p].at \in {"store", "close"} =>
       /\ runner[call[p].task] = p
       /\ ~doneCh[call[p].task]
  /\ \A p \in Procs : call[p].at = "close" =>
       result[call[p].task] = call[p].res
  /\ \A t \in Tasks : doneCh[t] => runner[t] # NoProc /\ result[t] \in Results
=============================================================================
