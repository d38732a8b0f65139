---------------------------- MODULE AsyncProofs -----------------------------
(***************************************************************************)
(* The combinators and scopes leave no input unsettled and report what     *)
(* they have seen, and every task stays a write-once cell, for any number  *)
(* of tasks in any shape that a program can build, nested as deep as it    *)
(* likes, and any cancellations.                                           *)
(***************************************************************************)
EXTENDS Async, SequenceTheorems, WellFoundedInduction, TLAPS

-----------------------------------------------------------------------------
(* One task: Complete and Cancel on any set of tasks, in any order.          *)

\* The inductive invariant: types, and who may be inside once.Do's closure.
TaskInv == TaskTypeOK /\ OnceInv

\* The record of a goroutine that is in no call is well typed.
LEMMA IdleFacts ==
  /\ Idle \in [at : Ats, task : Tasks \cup {NoTask}, res : Results \cup {NoResult}]
  /\ Idle.at = "idle"
  BY DEF Idle, InCall, Ats

\* Starting a call touches nothing but the caller's own call record.
LEMMA StartInv ==
  ASSUME TaskInv, NEW p \in Procs, NEW t \in Tasks, NEW r \in Results,
         Complete(p, t, r) \/ Cancel(p, t)
  PROVE  TaskInv'
<1>1. PICK a \in {"once", "cancelOnce"}, s \in Results :
        /\ call' = [call EXCEPT ![p] = InCall(a, t, s)]
        /\ UNCHANGED <<runner, result, doneCh, cancelled, cancelCh>>
  BY TaskAssumption DEF Complete, Cancel
<1>2. TaskTypeOK'
  BY <1>1 DEF TaskInv, TaskTypeOK, InCall, Ats
<1>3. OnceInv'
  BY <1>1 DEF TaskInv, TaskTypeOK, OnceInv, InCall
<1> QED BY <1>2, <1>3 DEF TaskInv

\* One step of a call keeps the invariant.
LEMMA CallStepInv ==
  ASSUME TaskInv, NEW p \in Procs, CallStep(p)
  PROVE  TaskInv'
<1> DEFINE t == call[p].task
<1>0. call[p].at # "idle" => t \in Tasks /\ call[p].res \in Results
  BY DEF TaskInv, OnceInv
<1> HIDE DEF t
<1> USE DEF TaskInv, TaskTypeOK, OnceInv, Ats
<1>1. CASE EnterCancelOnce(p)
  BY <1>0, <1>1 DEF EnterCancelOnce, t
<1>2. CASE CloseCancel(p)
  BY <1>0, <1>2 DEF CloseCancel, t
<1>3. CASE SkipCancelOnce(p)
  BY <1>0, <1>3 DEF SkipCancelOnce, t
<1>4. CASE EnterOnce(p)
  BY <1>0, <1>4, TaskAssumption DEF EnterOnce, t
<1>5. CASE SkipOnce(p)
  BY <1>0, <1>5, IdleFacts DEF SkipOnce, t
<1>6. CASE StoreResult(p)
  BY <1>0, <1>6 DEF StoreResult, t
<1>7. CASE CloseDone(p)
  BY <1>0, <1>7, IdleFacts, TaskAssumption DEF CloseDone, t
<1> QED
  BY <1>1, <1>2, <1>3, <1>4, <1>5, <1>6, <1>7 DEF CallStep

\* Every reachable state satisfies the invariant, for any tasks and goroutines.
THEOREM TaskInvariant == TaskSpec => []TaskInv
<1>1. TaskInit => TaskInv
  BY IdleFacts, TaskAssumption DEF TaskInit, TaskInv, TaskTypeOK, OnceInv
<1>2. TaskInv /\ [TaskNext]_taskVars => TaskInv'
  <2> SUFFICES ASSUME TaskInv, [TaskNext]_taskVars PROVE TaskInv'
    OBVIOUS
  <2>1. CASE UNCHANGED taskVars
    BY <2>1 DEF taskVars, TaskInv, TaskTypeOK, OnceInv
  <2>2. CASE TaskNext
    BY <2>2, StartInv, CallStepInv, TaskAssumption DEF TaskNext
  <2> QED BY <2>1, <2>2
<1> QED BY <1>1, <1>2, PTL DEF TaskSpec

\* A step of the task code is, through the refinement mapping, a settling of one
\* pending cell, a request to cancel, or nothing that an awaiter can see.
LEMMA StepRefines ==
  ASSUME TaskInv, [TaskNext]_taskVars
  PROVE  [FutureOf!Next]_(FutureOf!vars)
<1> DEFINE v == [t \in Tasks |-> IF doneCh[t] THEN result[t] ELSE NoResult]
<1> USE DEF FutureOf!vars
<1>1. ASSUME UNCHANGED <<result, doneCh, cancelled>>
      PROVE  UNCHANGED FutureOf!vars
  BY <1>1
<1>2. ASSUME NEW p \in Procs, EnterCancelOnce(p)
      PROVE  FutureOf!Next
  <2>1. call[p].task \in Tasks
    BY <1>2 DEF EnterCancelOnce, TaskInv, OnceInv
  <2>2. FutureOf!AskCancel(call[p].task)
    BY <1>2, <2>1 DEF EnterCancelOnce, FutureOf!AskCancel
  <2> QED BY <2>1, <2>2 DEF FutureOf!Next
<1>3. ASSUME NEW p \in Procs, StoreResult(p)
      PROVE  UNCHANGED FutureOf!vars
  <2>1. /\ call[p].task \in Tasks
        /\ ~doneCh[call[p].task]
    BY <1>3 DEF StoreResult, TaskInv, OnceInv
  <2>2. v' = v
    BY <1>3, <2>1 DEF StoreResult, TaskInv, TaskTypeOK
  <2> QED BY <1>3, <2>2 DEF StoreResult
<1>4. ASSUME NEW p \in Procs, CloseDone(p)
      PROVE  FutureOf!Next
  <2>1. PICK t \in Tasks : t = call[p].task /\ ~doneCh[t] /\ result[t] \in Results
    BY <1>4 DEF CloseDone, TaskInv, OnceInv
  <2>2. v[t] = NoResult /\ v'[t] \in Results /\ v' = [v EXCEPT ![t] = v'[t]]
    BY <1>4, <2>1 DEF CloseDone, TaskInv, TaskTypeOK
  <2>3. FutureOf!Settle(t)
    BY <1>4, <2>2 DEF CloseDone, FutureOf!Settle
  <2> QED BY <2>1, <2>3 DEF FutureOf!Next
<1>5. CASE UNCHANGED taskVars
  BY <1>1, <1>5 DEF taskVars
<1>6. CASE TaskNext
  <2>1. PICK p \in Procs :
          \/ CallStep(p)
          \/ \E t \in Tasks : Cancel(p, t) \/ \E r \in Results : Complete(p, t, r)
    BY <1>6 DEF TaskNext
  <2>2. CASE CallStep(p)
    <3>1. CASE EnterCancelOnce(p) BY <3>1, <1>2
    <3>2. CASE StoreResult(p) BY <3>2, <1>3
    <3>3. CASE CloseDone(p) BY <3>3, <1>4
    <3>4. CASE CloseCancel(p) \/ SkipCancelOnce(p) \/ EnterOnce(p) \/ SkipOnce(p)
      <4>1. UNCHANGED <<result, doneCh, cancelled>>
        BY <3>4 DEF CloseCancel, SkipCancelOnce, EnterOnce, SkipOnce
      <4> QED BY <4>1, <1>1
    <3> QED BY <2>2, <3>1, <3>2, <3>3, <3>4 DEF CallStep
  <2>3. CASE \E t \in Tasks : Cancel(p, t) \/ \E r \in Results : Complete(p, t, r)
    <3>1. UNCHANGED <<result, doneCh, cancelled>>
      BY <2>3 DEF Cancel, Complete
    <3> QED BY <3>1, <1>1
  <2> QED BY <2>1, <2>2, <2>3
<1> QED BY <1>5, <1>6

\* Task.Complete and Task.Cancel implement a write-once cell: whatever calls race
\* on a task, exactly one step settles it and no later step changes its result.
THEOREM TaskIsFuture == TaskSpec => FutureSafety
<1>1. TaskInit => FutureOf!Init
  BY DEF TaskInit, FutureOf!Init
<1>2. TaskInv /\ [TaskNext]_taskVars => [FutureOf!Next]_(FutureOf!vars)
  BY StepRefines
<1> QED
  BY <1>1, <1>2, TaskInvariant, PTL DEF TaskSpec, FutureSafety, FutureOf!Safety

-----------------------------------------------------------------------------
(* The combinators and scopes. *)

\* Goroutine p is in a call of Complete or Cancel on x.
Busy(p, x) == call[p].at # "idle" /\ call[p].task = x

\* Types of the program state.
Helping == {"none", "wait", "send", "exit"}
ShapeTypes ==
  /\ kind \in [Tasks -> Kinds]
  /\ inputs \in [Tasks -> Seq(Tasks)]
  /\ \A t \in Tasks : \A i \in Indices(t) : Input(t, i) # t
  /\ \A t \in Tasks : kind[t] = "timeout" => Len(inputs[t]) = 1
  /\ cancels \subseteq Tasks
ProgTypes ==
  /\ pc \in [Tasks -> Pcs]
  /\ got \in [Tasks -> Seq(Results)]
  /\ pick \in [Tasks -> Nat]
  /\ cur \in [Tasks -> Nat]
  /\ hpc = [t \in Tasks |-> hpc[t]]
  /\ winner \in [Tasks -> Seq(Nat)]

\* What each kind of task's producer can be doing.
Places(k) ==
  CASE k \in {"run", "child", "sleep"} -> {"work", "done"}
    [] k = "token" -> {"done"}
    [] k = "all" -> {"await", "cancel", "done"}
    [] k = "race" -> {"spawn", "await", "cancel", "done"}
    [] k = "timeout" -> {"await", "report", "done"}
    [] k = "scope" -> {"body", "cancel", "await", "done"}

\* The producer's own variables.  It settles its own task as the last thing it does.
Local(c) ==
  /\ pc[c] \in Places(kind[c])
  /\ Len(got[c]) <= Len(inputs[c]) + (IF kind[c] = "scope" THEN 1 ELSE 0)
  /\ pick[c] \in Indices(c) \cup {0}
  /\ cur[c] \in Indices(c) \cup {0}
  /\ hpc[c] \in [Indices(c) -> Helping]
  /\ \A i \in Indices(c) : hpc[c][i] \in {"send", "exit"} => Done(Input(c, i))
  /\ \A k \in DOMAIN winner[c] : winner[c][k] \in Indices(c) /\ Done(Input(c, winner[c][k]))
  /\ \A x \in Tasks : Busy(c, x) => ((x = c) <=> (pc[c] = "done"))

\* The cancellation loop: an input it has come past is settled, or the producer is
\* still in the call that settles it.
Swept(c) ==
  /\ kind[c] \in {"all", "race"} /\ pc[c] = "cancel" =>
       \A j \in Indices(c) : j <= cur[c] /\ j # pick[c] => Done(Input(c, j)) \/ Busy(c, Input(c, j))
  /\ kind[c] = "timeout" /\ pc[c] = "report" => Done(Input(c, 1)) \/ Busy(c, Input(c, 1))
  /\ c \in Combinators /\ pc[c] = "done" => \A j \in Indices(c) : Done(Input(c, j))

\* async.all has the outcomes of the inputs up to the first error, which it picks.
Collected(c) ==
  kind[c] = "all" =>
    /\ \A i \in DOMAIN got[c] :
         /\ i \in Indices(c) /\ Done(Input(c, i)) /\ got[c][i] = result[Input(c, i)]
         /\ IsErr(got[c][i]) => i = pick[c]
    /\ pc[c] = "cancel" => pick[c] = Len(got[c]) /\ IsErr(got[c][pick[c]])

\* async.all and async.race touch no input before they have picked one, whose outcome
\* is not their doing.
Picked(c) ==
  kind[c] \in {"all", "race"} =>
    /\ pick[c] # 0 => Done(Input(c, pick[c])) /\ runner[Input(c, pick[c])] # c
    /\ pc[c] \in {"spawn", "await"} => pick[c] = 0 /\ cur[c] = 0
    /\ pc[c] = "cancel" => pick[c] # 0
    /\ \A x \in Tasks : x # c /\ (runner[x] = c \/ Busy(c, x)) => pick[c] # 0

\* The outcome r of a combinator is one of its inputs.
Settles(c, i, r) == Done(Input(c, i)) /\ r = result[Input(c, i)]
Reported(c, r) ==
  CASE kind[c] = "all" ->
         \/ /\ r = Gathered([i \in Indices(c) |-> result[Input(c, i)]])
            /\ \A i \in Indices(c) : Done(Input(c, i)) /\ ~IsErr(result[Input(c, i)])
         \/ \E i \in Indices(c) :
              /\ Settles(c, i, r) /\ IsErr(r)
              /\ \A j \in 1..(i - 1) : Done(Input(c, j)) /\ ~IsErr(result[Input(c, j)])
    [] kind[c] = "race" -> \E i \in Indices(c) : Settles(c, i, r)
    [] kind[c] = "timeout" -> r = TimedOut(c) \/ Settles(c, 1, r)

\* A child of the scope was cancelled by somebody else.
CancelledByOther(c) ==
  \E i \in Indices(c) : Settles(c, i, Cancelled) /\ runner[Input(c, i)] # c

\* A scope has the outcome of its body and of the children it has awaited; it touches
\* no child before one of them is an error.
Joined(c) ==
  kind[c] = "scope" =>
    /\ pick[c] = 0
    /\ pc[c] = "body" => got[c] = <<>> /\ cur[c] = 0
    /\ pc[c] \in {"cancel", "await"} => got[c] # <<>>
    /\ \A k \in DOMAIN got[c] : k > 1 => k - 1 \in Indices(c) /\ Settles(c, k - 1, got[c][k])
    /\ pc[c] = "cancel" => Errors(c) # {}
    /\ \A x \in Tasks : x # c /\ pc[c] # "done" /\ (runner[x] = c \/ Busy(c, x)) => Errors(c) # {}
    /\ \A k \in Errors(c) : (\A m \in Errors(c) : k <= m) /\ got[c][k] = Cancelled => CancelledByOther(c)

\* The outcome r of a scope that has ended.
ScopeReported(c, r) ==
  /\ ~IsErr(r) \/ IsRuntimeError(r) => \A i \in Indices(c) : Done(Input(c, i))
  /\ (\E x \in Tasks : x # c /\ runner[x] = c) => IsErr(r)
  /\ r = Cancelled => CancelledByOther(c)

Ending(c, r) ==
  /\ c \in Combinators => Reported(c, r)
  /\ c \in Scopes => ScopeReported(c, r)

\* What a producer settles its task with.
Told(c) ==
  /\ Busy(c, c) => Ending(c, call[c].res)
  /\ runner[c] = c /\ Done(c) => Ending(c, result[c])
  /\ runner[c] = c => pc[c] = "done"

TaskOk(c) == Local(c) /\ Swept(c) /\ Collected(c) /\ Picked(c) /\ Joined(c) /\ Told(c)

AsyncInv == TaskInv /\ ShapeTypes /\ ProgTypes /\ \A c \in Tasks : TaskOk(c)

-----------------------------------------------------------------------------
(***************************************************************************)
(* Steps that leave a producer alone.                                      *)
(***************************************************************************)
\* The producer of d does not move, and neither do the helpers of a race.
Parked(d) == pc'[d] = pc[d] /\ got'[d] = got[d] /\ pick'[d] = pick[d] /\ cur'[d] = cur[d]
Still(d) == Parked(d) /\ hpc'[d] = hpc[d] /\ winner'[d] = winner[d]

\* A settled task stays as it is.
Settled ==
  \A x \in Tasks : Done(x) => Done(x)' /\ result'[x] = result[x] /\ runner'[x] = runner[x]

\* Goroutine d starts no call; it may end one, and then the call's task is settled.
Quiet(d) ==
  /\ Settled
  /\ \A x \in Tasks :
       /\ Busy(d, x)' => Busy(d, x) /\ call'[d].res = call[d].res
       /\ Busy(d, x) => Busy(d, x)' \/ Done(x)'
       /\ runner'[x] = d => runner[x] = d \/ Busy(d, x)
       /\ runner'[x] = d /\ Done(x)' => Done(x) \/ (Busy(d, x) /\ result'[x] = call[d].res)

\* The inputs of a task are tasks.
LEMMA InputTask ==
  ASSUME ShapeTypes, NEW c \in Tasks, NEW i \in Indices(c)
  PROVE  Input(c, i) \in Tasks /\ Input(c, i) # c /\ i \in Nat /\ i >= 1 /\ i <= Len(inputs[c])
<1>1. inputs[c] \in Seq(Tasks)
  BY DEF ShapeTypes
<1>2. QED
  BY <1>1 DEF ShapeTypes, Indices, Input

\* The one input of async.timeout.
LEMMA TimeoutInput ==
  ASSUME ShapeTypes, NEW c \in Tasks, kind[c] = "timeout"
  PROVE  Indices(c) = {1}
<1>1. inputs[c] \in Seq(Tasks) /\ Len(inputs[c]) = 1
  BY DEF ShapeTypes
<1>2. QED
  BY <1>1 DEF Indices

\* A step of a call.
LEMMA CallQuiet ==
  ASSUME TaskInv, NEW p \in Procs, CallStep(p), NEW d \in Procs
  PROVE  Quiet(d)
<1> DEFINE t == call[p].task
<1>0. call[p].at # "idle" /\ t \in Tasks /\ call[p].res \in Results
  BY DEF TaskInv, OnceInv, CallStep, EnterCancelOnce, CloseCancel, SkipCancelOnce, EnterOnce, SkipOnce,
         StoreResult, CloseDone
<1> HIDE DEF t
<1> USE DEF TaskInv, TaskTypeOK, OnceInv, Ats, Quiet, Settled, Busy, Done
<1>1. CASE EnterCancelOnce(p)
  BY <1>0, <1>1 DEF EnterCancelOnce, t
<1>2. CASE CloseCancel(p)
  BY <1>0, <1>2 DEF CloseCancel, t
<1>3. CASE SkipCancelOnce(p)
  BY <1>0, <1>3 DEF SkipCancelOnce, t
<1>4. CASE EnterOnce(p)
  BY <1>0, <1>4, TaskAssumption DEF EnterOnce, t
<1>5. CASE SkipOnce(p)
  BY <1>0, <1>5, IdleFacts DEF SkipOnce, t
<1>6. CASE StoreResult(p)
  BY <1>0, <1>6 DEF StoreResult, t
<1>7. CASE CloseDone(p)
  BY <1>0, <1>7, IdleFacts DEF CloseDone, t
<1>8. QED
  BY <1>1, <1>2, <1>3, <1>4, <1>5, <1>6, <1>7 DEF CallStep

\* A step that is none of d's.
LEMMA OtherQuiet ==
  ASSUME NEW d \in Procs, UNCHANGED <<runner, result, doneCh>>, call'[d] = call[d]
  PROVE  Quiet(d)
BY DEF Quiet, Settled, Busy, Done

\* Settled tasks stay so, and with them what was reported of them.
LEMMA EndingStays ==
  ASSUME ShapeTypes, NEW c \in Tasks, UNCHANGED <<kind, inputs>>, Settled, NEW r, Ending(c, r),
         \A x \in Tasks : x # c /\ runner'[x] = c => runner[x] = c
  PROVE  Ending(c, r)'
<1>1. /\ Indices(c)' = Indices(c) /\ kind'[c] = kind[c]
      /\ \A i \in Indices(c) : Input(c, i)' = Input(c, i) /\ Input(c, i) \in Tasks
  BY InputTask DEF Indices, Input
<1>2. \A i \in Indices(c) : Done(Input(c, i)) =>
        /\ Done(Input(c, i))' /\ result'[Input(c, i)] = result[Input(c, i)]
        /\ runner'[Input(c, i)] = runner[Input(c, i)]
  BY <1>1 DEF Settled
<1>3. c \in Combinators' <=> c \in Combinators
  BY DEF Combinators
<1>4. c \in Scopes' <=> c \in Scopes
  BY DEF Scopes
<1>5. ASSUME c \in Combinators PROVE Reported(c, r)'
  <2>0. Reported(c, r)
    BY <1>5 DEF Ending
  <2>1. CASE kind[c] = "all"
    <3>1. CASE /\ r = Gathered([i \in Indices(c) |-> result[Input(c, i)]])
               /\ \A i \in Indices(c) : Done(Input(c, i)) /\ ~IsErr(result[Input(c, i)])
      <4>1. [i \in Indices(c) |-> result[Input(c, i)]]' = [i \in Indices(c) |-> result[Input(c, i)]]
        BY <1>1, <1>2, <3>1 DEF Input
      <4>2. \A i \in Indices(c)' : Done(Input(c, i))' /\ ~IsErr(result[Input(c, i)])'
        BY <1>1, <1>2, <3>1 DEF IsErr
      <4>3. QED
        BY <1>1, <2>1, <3>1, <4>1, <4>2 DEF Reported, Gathered
    <3>2. CASE \E i \in Indices(c) :
                 /\ Settles(c, i, r) /\ IsErr(r)
                 /\ \A j \in 1..(i - 1) : Done(Input(c, j)) /\ ~IsErr(result[Input(c, j)])
      <4>1. PICK i \in Indices(c) :
                 /\ Settles(c, i, r) /\ IsErr(r)
                 /\ \A j \in 1..(i - 1) : Done(Input(c, j)) /\ ~IsErr(result[Input(c, j)])
        BY <3>2
      <4>2. \A j \in 1..(i - 1) : j \in Indices(c)
        <5>1. inputs[c] \in Seq(Tasks)
          BY DEF ShapeTypes
        <5>2. QED
          BY <5>1 DEF Indices
      <4>3. Settles(c, i, r)' /\ \A j \in 1..(i - 1) : Done(Input(c, j))' /\ ~IsErr(result[Input(c, j)])'
        BY <1>1, <1>2, <4>1, <4>2 DEF Settles, IsErr
      <4>4. QED
        BY <1>1, <2>1, <4>1, <4>3 DEF Reported
    <3>3. QED
      BY <2>0, <2>1, <3>1, <3>2 DEF Reported
  <2>2. CASE kind[c] = "race"
    BY <1>1, <1>2, <2>0, <2>2 DEF Reported, Settles
  <2>3. CASE kind[c] = "timeout"
    BY <1>1, <1>2, <2>0, <2>3, TimeoutInput DEF Reported, Settles
  <2>4. QED
    BY <1>5, <2>1, <2>2, <2>3 DEF Combinators
<1>6. ASSUME c \in Scopes PROVE ScopeReported(c, r)'
  <2>1. ScopeReported(c, r)
    BY <1>6 DEF Ending
  <2>2. CancelledByOther(c) => CancelledByOther(c)'
    BY <1>1, <1>2 DEF CancelledByOther, Settles
  <2>3. QED
    BY <1>1, <1>2, <2>1, <2>2 DEF ScopeReported
<1>7. QED
  BY <1>3, <1>4, <1>5, <1>6 DEF Ending

\* A task whose producer does not move keeps all that is not about the helpers.
LEMMA ParkedOk ==
  ASSUME ShapeTypes, UNCHANGED <<kind, inputs>>, NEW d \in Tasks, TaskOk(d), Parked(d), Quiet(d)
  PROVE  Swept(d)' /\ Collected(d)' /\ Picked(d)' /\ Joined(d)' /\ Told(d)'
<1>1. /\ Indices(d)' = Indices(d) /\ kind'[d] = kind[d]
      /\ \A i : Input(d, i)' = Input(d, i)
      /\ \A i \in Indices(d) : Input(d, i) \in Tasks /\ Input(d, i) # d
  BY InputTask DEF Indices, Input
<1>2. \A i \in Indices(d) : Done(Input(d, i)) =>
        /\ Done(Input(d, i))' /\ result'[Input(d, i)] = result[Input(d, i)]
        /\ runner'[Input(d, i)] = runner[Input(d, i)]
  BY <1>1 DEF Quiet, Settled
<1>3. \A i \in Indices(d) : Busy(d, Input(d, i)) => Busy(d, Input(d, i))' \/ Done(Input(d, i))'
  BY <1>1 DEF Quiet
<1>4. Swept(d)'
  <2>1. d \in Combinators' <=> d \in Combinators
    BY DEF Combinators
  <2>2. kind[d] = "timeout" => 1 \in Indices(d)
    BY TimeoutInput
  <2>3. QED
    BY <1>1, <1>2, <1>3, <2>1, <2>2 DEF TaskOk, Swept, Parked
<1>5. Collected(d)'
  BY <1>1, <1>2 DEF TaskOk, Collected, Parked, IsErr
<1>6. Picked(d)'
  <2>1. ASSUME kind[d] \in {"all", "race"}, pick[d] # 0
        PROVE  Done(Input(d, pick[d]))' /\ runner'[Input(d, pick[d])] # d
    BY <1>1, <1>2, <2>1 DEF TaskOk, Picked, Local, Parked
  <2>2. \A x \in Tasks : runner'[x] = d \/ Busy(d, x)' => runner[x] = d \/ Busy(d, x)
    BY DEF Quiet
  <2>3. QED
    BY <1>1, <2>1, <2>2 DEF TaskOk, Picked, Parked
<1>7. Joined(d)'
  <2>1. CancelledByOther(d) => CancelledByOther(d)'
    BY <1>1, <1>2 DEF CancelledByOther, Settles
  <2>2. Errors(d)' = Errors(d)
    BY DEF Parked, Errors, IsErr
  <2>3. \A x \in Tasks : runner'[x] = d \/ Busy(d, x)' => runner[x] = d \/ Busy(d, x)
    BY DEF Quiet
  <2>4. \A i \in Indices(d) : \A r : Settles(d, i, r) => Settles(d, i, r)'
    BY <1>1, <1>2 DEF Settles
  <2>5. ASSUME kind[d] = "scope"
        PROVE \A k \in DOMAIN got'[d] : k > 1 => k - 1 \in Indices(d)' /\ Settles(d, k - 1, got[d][k])'
    BY <1>1, <2>4, <2>5 DEF TaskOk, Joined, Parked, Settles
  <2>6. ASSUME kind[d] = "scope"
        PROVE \A k \in Errors(d)' : (\A m \in Errors(d)' : k <= m) /\ got'[d][k] = Cancelled => CancelledByOther(d)'
    BY <2>1, <2>2, <2>6 DEF TaskOk, Joined, Parked
  <2>7. ASSUME kind[d] = "scope"
        PROVE \A x \in Tasks : x # d /\ pc'[d] # "done" /\ (runner'[x] = d \/ Busy(d, x)') => Errors(d)' # {}
    BY <2>2, <2>3, <2>7 DEF TaskOk, Joined, Parked
  <2>8. ASSUME kind[d] = "scope"
        PROVE /\ pick'[d] = 0
              /\ pc'[d] = "body" => got'[d] = <<>> /\ cur'[d] = 0
              /\ pc'[d] \in {"cancel", "await"} => got'[d] # <<>>
              /\ pc'[d] = "cancel" => Errors(d)' # {}
    BY <2>2, <2>8 DEF TaskOk, Joined, Parked
  <2>9. QED
    BY <1>1, <2>5, <2>6, <2>7, <2>8 DEF Joined
<1>8. Told(d)'
  <2>1. ASSUME NEW r, pc[d] = "done", Ending(d, r) PROVE Ending(d, r)'
    <3>1. \A x \in Tasks : x # d /\ runner'[x] = d => runner[x] = d
      BY <2>1 DEF Quiet, TaskOk, Local
    <3>2. Settled
      BY DEF Quiet
    <3>3. QED
      BY <2>1, <3>1, <3>2, EndingStays
  <2>2. Busy(d, d)' => Ending(d, call[d].res)'
    <3>1. SUFFICES ASSUME Busy(d, d)' PROVE Ending(d, call[d].res)'
      OBVIOUS
    <3>2. Busy(d, d) /\ call'[d].res = call[d].res /\ pc[d] = "done" /\ Ending(d, call[d].res)
      BY <3>1 DEF Quiet, TaskOk, Local, Told
    <3>3. PICK r : r = call[d].res
      OBVIOUS
    <3>4. Ending(d, r)'
      BY <2>1, <3>2, <3>3
    <3>5. call'[d].res = r
      BY <3>2, <3>3
    <3>6. QED
      BY <3>4, <3>5
  <2>3. runner'[d] = d => pc'[d] = "done"
    BY DEF Quiet, TaskOk, Local, Told, Parked
  <2>4. runner'[d] = d /\ Done(d)' => Ending(d, result[d])'
    <3>1. SUFFICES ASSUME runner'[d] = d, Done(d)' PROVE Ending(d, result[d])'
      OBVIOUS
    <3>2. pc[d] = "done"
      BY <2>3, <3>1 DEF Parked
    <3>3. CASE Done(d)
      <4>1. result'[d] = result[d] /\ runner'[d] = runner[d]
        BY <3>3 DEF Quiet, Settled
      <4>2. Ending(d, result[d])
        BY <3>1, <3>3, <4>1 DEF TaskOk, Told
      <4>3. PICK r : r = result[d]
        OBVIOUS
      <4>4. Ending(d, r)'
        BY <2>1, <3>2, <4>2, <4>3
      <4>5. result'[d] = r
        BY <4>1, <4>3
      <4>6. QED
        BY <4>4, <4>5
    <3>4. CASE Busy(d, d) /\ result'[d] = call[d].res
      <4>1. Ending(d, call[d].res)
        BY <3>4 DEF TaskOk, Told
      <4>2. PICK r : r = call[d].res
        OBVIOUS
      <4>3. Ending(d, r)'
        BY <2>1, <3>2, <4>1, <4>2
      <4>4. result'[d] = r
        BY <3>4, <4>2
      <4>5. QED
        BY <4>3, <4>4
    <3>5. QED
      BY <3>1, <3>3, <3>4 DEF Quiet
  <2>5. QED
    BY <2>2, <2>3, <2>4 DEF Told
<1>9. QED
  BY <1>4, <1>5, <1>6, <1>7, <1>8

\* A task that does not move at all keeps its part of the invariant.
LEMMA QuietOk ==
  ASSUME ShapeTypes, UNCHANGED <<kind, inputs>>, NEW d \in Tasks, TaskOk(d), Still(d), Quiet(d)
  PROVE  TaskOk(d)'
<1>1. /\ Indices(d)' = Indices(d) /\ kind'[d] = kind[d]
      /\ \A i : Input(d, i)' = Input(d, i)
      /\ \A i \in Indices(d) : Input(d, i) \in Tasks /\ Input(d, i) # d
  BY InputTask DEF Indices, Input
<1>2. \A i \in Indices(d) : Done(Input(d, i)) => Done(Input(d, i))'
  BY <1>1 DEF Quiet, Settled
<1>3. Local(d)'
  <2>1. /\ pc'[d] \in Places(kind'[d])
        /\ Len(got'[d]) <= Len(inputs'[d]) + (IF kind'[d] = "scope" THEN 1 ELSE 0)
        /\ pick'[d] \in Indices(d)' \cup {0}
        /\ cur'[d] \in Indices(d)' \cup {0}
        /\ hpc'[d] \in [Indices(d)' -> Helping]
    BY <1>1 DEF TaskOk, Local, Still, Parked
  <2>2. \A i \in Indices(d)' : hpc'[d][i] \in {"send", "exit"} => Done(Input(d, i))'
    BY <1>1, <1>2 DEF TaskOk, Local, Still, Parked
  <2>3. \A k \in DOMAIN winner'[d] : winner'[d][k] \in Indices(d)' /\ Done(Input(d, winner[d][k]))'
    BY <1>1, <1>2 DEF TaskOk, Local, Still, Parked
  <2>4. \A x \in Tasks : Busy(d, x)' => ((x = d) <=> (pc'[d] = "done"))
    BY DEF TaskOk, Local, Still, Parked, Quiet
  <2>5. QED
    BY <1>1, <2>1, <2>2, <2>3, <2>4 DEF Local
<1>4. Swept(d)' /\ Collected(d)' /\ Picked(d)' /\ Joined(d)' /\ Told(d)'
  BY ParkedOk DEF Still
<1>5. QED
  BY <1>3, <1>4 DEF TaskOk

-----------------------------------------------------------------------------
(***************************************************************************)
(* Steps of one producer: the others stay as they are.                     *)
(***************************************************************************)
\* Only c moves, which may also start a call.
Moves(c) ==
  /\ UNCHANGED <<kind, inputs, cancels, runner, result, doneCh>>
  /\ \A d \in Tasks \ {c} : Still(d) /\ call'[d] = call[d]

\* It is enough to look at the task that moves.
LEMMA OneMoves ==
  ASSUME AsyncInv, NEW c \in Tasks, Moves(c), TaskInv', ProgTypes', TaskOk(c)'
  PROVE  AsyncInv'
<1>1. ASSUME NEW d \in Tasks \ {c} PROVE TaskOk(d)'
  <2>1. Quiet(d)
    BY <1>1, OtherQuiet, AsyncAssumption DEF Moves
  <2>2. QED
    BY <1>1, <2>1, QuietOk DEF Moves, AsyncInv
<1>2. ShapeTypes'
  BY DEF AsyncInv, Moves, ShapeTypes, Indices, Input
<1>3. QED
  BY <1>1, <1>2 DEF AsyncInv

\* A goroutine that is in no call.
LEMMA IdleFree ==
  ASSUME NEW c \in Tasks, call[c] = Idle
  PROVE  \A x : ~Busy(c, x)
BY IdleFacts DEF Busy

\* A producer starts a call.
LEMMA Starts ==
  ASSUME TaskInv, NEW c \in Tasks, NEW t \in Tasks, NEW r \in Results,
         Complete(c, t, r) \/ (Cancel(c, t) /\ r = Cancelled)
  PROVE  /\ TaskInv'
         /\ UNCHANGED <<runner, result, doneCh>>
         /\ \A x : ~Busy(c, x)
         /\ \A x : Busy(c, x)' <=> x = t
         /\ call'[c].res = r
         /\ \A d \in Tasks \ {c} : call'[d] = call[d]
<1>1. TaskInv'
  BY StartInv, AsyncAssumption
<1>2. c \in Procs /\ Tasks \subseteq Procs
  BY AsyncAssumption
<1>3. call[c] = Idle
  BY DEF Complete, Cancel
<1>4. PICK a \in {"once", "cancelOnce"} :
        /\ call' = [call EXCEPT ![c] = InCall(a, t, r)]
        /\ UNCHANGED <<runner, result, doneCh>>
  BY DEF Complete, Cancel
<1>5. call'[c] = InCall(a, t, r) /\ \A d \in Tasks \ {c} : call'[d] = call[d]
  BY <1>2, <1>4 DEF TaskInv, TaskTypeOK
<1>6. QED
  BY <1>1, <1>3, <1>4, <1>5, IdleFree DEF Busy, InCall

\* What does not move of the task types.
LEMMA TaskSame ==
  ASSUME TaskInv, UNCHANGED taskVars
  PROVE  TaskInv'
BY DEF taskVars, TaskInv, TaskTypeOK, OnceInv

\* A producer that has not ended has not settled its task.
LEMMA NotYet ==
  ASSUME NEW c \in Tasks, TaskOk(c), runner' = runner, pc[c] # "done", pc'[c] # "done", Local(c)'
  PROVE  Told(c)'
BY DEF TaskOk, Told, Local

\* The last thing a producer does: it settles its task with r.
LEMMA CompleteOk ==
  ASSUME AsyncInv, NEW c \in Tasks, NEW r \in Results, Complete(c, c, r), pc[c] # "done", Goto(c, "done"),
         UNCHANGED <<kind, inputs, cancels, got, pick, cur, hpc, winner>>,
         Ending(c, r), c \in Combinators => \A j \in Indices(c) : Done(Input(c, j))
  PROVE  AsyncInv'
<1>1. TaskInv /\ ShapeTypes /\ ProgTypes /\ TaskOk(c)
  BY DEF AsyncInv
<1>2. /\ TaskInv' /\ UNCHANGED <<runner, result, doneCh>>
      /\ \A x : ~Busy(c, x)
      /\ \A x : Busy(c, x)' <=> x = c
      /\ call'[c].res = r
      /\ \A d \in Tasks \ {c} : call'[d] = call[d]
  BY <1>1, Starts
<1>3. ProgTypes' /\ pc'[c] = "done" /\ \A d \in Tasks \ {c} : Still(d)
  BY <1>1 DEF ProgTypes, Pcs, Goto, Still, Parked
<1>4. /\ Indices(c)' = Indices(c) /\ kind'[c] = kind[c]
      /\ \A i : Input(c, i)' = Input(c, i) /\ Done(Input(c, i))' = Done(Input(c, i))
  BY <1>2 DEF Indices, Input, Done
<1>5. Local(c)'
  <2>1. kind[c] \in Kinds
    BY <1>1 DEF ShapeTypes
  <2>2. pc'[c] \in Places(kind'[c])
    BY <1>3, <2>1 DEF Kinds, Places
  <2>3. QED
    BY <1>1, <1>2, <1>3, <1>4, <2>2 DEF TaskOk, Local
<1>6. Swept(c)'
  <2>1. c \in Combinators' <=> c \in Combinators
    BY DEF Combinators
  <2>2. QED
    BY <1>3, <1>4, <2>1 DEF Swept
<1>7. Collected(c)'
  BY <1>1, <1>2, <1>3, <1>4 DEF TaskOk, Collected
<1>8. Picked(c)'
  BY <1>1, <1>2, <1>3, <1>4 DEF TaskOk, Picked
<1>9. Joined(c)'
  <2>1. Errors(c)' = Errors(c) /\ (CancelledByOther(c) => CancelledByOther(c)')
    BY <1>2, <1>4 DEF Errors, CancelledByOther, Settles
  <2>2. QED
    BY <1>1, <1>2, <1>3, <1>4, <2>1 DEF TaskOk, Joined, Settles
<1>10. Told(c)'
  <2>1. Ending(c, r)'
    BY <1>1, <1>2, EndingStays DEF Settled, Done
  <2>2. runner'[c] # c
    BY <1>1, <1>2 DEF TaskOk, Told
  <2>3. QED
    BY <1>2, <2>1, <2>2 DEF Told
<1>11. QED
  BY <1>2, <1>3, <1>5, <1>6, <1>7, <1>8, <1>9, <1>10, OneMoves DEF TaskOk, Moves

\* A set of numbers that is not empty has a least one, and Min is it.
LEMMA MinFacts ==
  ASSUME NEW T, T \subseteq Nat, T # {}
  PROVE  Min(T) \in T /\ \A y \in T : Min(T) <= y
<1> DEFINE R == {ss \in Nat \X Nat : ss[1] < ss[2]}
<1>1. IsWellFoundedOn(R, Nat)
  BY NatLessThanWellFounded, Zenon DEF OpToRel
<1>2. \E x \in T : \A y \in T : ~ (<<y, x>> \in R)
  <2> HIDE DEF R
  <2> QED
    BY <1>1, WFMin, Zenon
<1>3. PICK x \in T : \A y \in T : ~ (<<y, x>> \in R)
  BY <1>2
<1>4. \A y \in T : ~ (y < x)
  BY <1>3
<1>5. \A y \in T : x <= y
  BY <1>4
<1>6. QED
  BY <1>5 DEF Min

\* What every action starts from.
LEMMA Known ==
  ASSUME AsyncInv, NEW c \in Tasks
  PROVE  /\ TaskInv /\ ShapeTypes /\ ProgTypes /\ TaskOk(c)
         /\ kind[c] \in Kinds
         /\ inputs[c] \in Seq(Tasks) /\ Indices(c) = 1..Len(inputs[c]) /\ Len(inputs[c]) \in Nat
         /\ got[c] \in Seq(Results) /\ winner[c] \in Seq(Nat) /\ pick[c] \in Nat /\ cur[c] \in Nat
         /\ \A i \in Indices(c) : Input(c, i) \in Tasks /\ Input(c, i) # c
         /\ \A t \in Tasks : Done(t) => result[t] \in Results
<1>1. TaskInv /\ ShapeTypes /\ ProgTypes /\ TaskOk(c)
  BY DEF AsyncInv
<1>2. inputs[c] \in Seq(Tasks) /\ kind[c] \in Kinds
  BY <1>1 DEF ShapeTypes
<1>3. got[c] \in Seq(Results) /\ winner[c] \in Seq(Nat) /\ pick[c] \in Nat /\ cur[c] \in Nat
  BY <1>1 DEF ProgTypes
<1>4. Indices(c) = 1..Len(inputs[c]) /\ Len(inputs[c]) \in Nat
  BY <1>2 DEF Indices
<1>5. \A t \in Tasks : Done(t) => result[t] \in Results
  BY <1>1 DEF TaskInv, OnceInv, Done
<1>6. QED
  BY <1>1, <1>2, <1>3, <1>4, <1>5, InputTask

\* Only the producer's program state changes.
LEMMA Frame ==
  ASSUME NEW c \in Tasks, UNCHANGED <<taskVars, kind, inputs>>
  PROVE  /\ Indices(c)' = Indices(c) /\ kind'[c] = kind[c]
         /\ \A i : Input(c, i)' = Input(c, i)
         /\ \A x : Done(x)' = Done(x) /\ Busy(c, x)' = Busy(c, x)
         /\ UNCHANGED <<runner, result, doneCh, call>>
BY DEF taskVars, Indices, Input, Done, Busy

-----------------------------------------------------------------------------
(***************************************************************************)
(* async.run, async.sleep, and the script.                                 *)
(***************************************************************************)
\* The function of async.run or of a spawned child returns, or the timer of async.sleep fires.
LEMMA RunOk ==
  ASSUME AsyncInv, NEW t \in Tasks, RunReturns(t) \/ SleepElapses(t)
  PROVE  AsyncInv'
<1>1. PICK r \in {Ok(t), Fail(t), Other(t)} : Complete(t, t, r)
  BY DEF RunReturns, SleepElapses
<1>2. r \in Results
  BY AsyncAssumption
<1>3. pc[t] # "done" /\ kind[t] \in {"run", "child", "sleep"} /\ Goto(t, "done")
  BY DEF RunReturns, SleepElapses, At
<1>4. Ending(t, r) /\ t \notin Combinators
  BY <1>3 DEF Ending, Combinators, Scopes
<1>5. UNCHANGED <<kind, inputs, cancels, got, pick, cur, hpc, winner>>
  BY DEF RunReturns, SleepElapses
<1>6. QED
  BY <1>1, <1>2, <1>3, <1>4, <1>5, CompleteOk

\* async.sleep ends because it was cancelled; Cancel has settled its task or is about to.
LEMMA SleepCancelledOk ==
  ASSUME AsyncInv, NEW t \in Tasks, SleepCancelled(t)
  PROVE  AsyncInv'
<1> USE DEF SleepCancelled, At
<1>1. TaskInv /\ ShapeTypes /\ ProgTypes /\ TaskOk(t)
  BY Known
<1>2. /\ Indices(t)' = Indices(t) /\ kind'[t] = kind[t]
      /\ \A i : Input(t, i)' = Input(t, i)
      /\ \A x : Done(x)' = Done(x) /\ Busy(t, x)' = Busy(t, x)
      /\ UNCHANGED <<runner, result, doneCh, call>>
  BY Frame
<1>3. TaskInv'
  BY <1>1, TaskSame
<1>4. ProgTypes' /\ pc'[t] = "done" /\ \A d \in Tasks \ {t} : Still(d)
  BY <1>1 DEF ProgTypes, Pcs, Goto, Still, Parked
<1>5. \A x : ~Busy(t, x)
  BY IdleFree
<1>6. Local(t)'
  BY <1>1, <1>2, <1>4, <1>5 DEF TaskOk, Local, Places
<1>7. Swept(t)' /\ Collected(t)' /\ Picked(t)' /\ Joined(t)'
  BY <1>2 DEF Swept, Collected, Picked, Joined, Combinators
<1>8. Told(t)'
  <2>1. runner[t] # t
    BY <1>1 DEF TaskOk, Told
  <2>2. QED
    BY <1>2, <1>4, <1>5, <2>1 DEF Told
<1>9. QED
  BY <1>2, <1>3, <1>4, <1>6, <1>7, <1>8, OneMoves DEF TaskOk, Moves

\* The script cancels a task.
LEMMA UserCancelOk ==
  ASSUME AsyncInv, NEW t \in Tasks, UserCancel(t)
  PROVE  AsyncInv'
<1> USE DEF UserCancel
<1>1. TaskInv /\ ShapeTypes /\ ProgTypes
  BY DEF AsyncInv
<1>2. User \in Procs /\ User \notin Tasks /\ Tasks \subseteq Procs /\ Cancelled \in Results
  BY AsyncAssumption, TaskAssumption
<1>3. TaskInv'
  BY <1>1, <1>2, StartInv
<1>4. UNCHANGED <<runner, result, doneCh>> /\ \A d \in Tasks : call'[d] = call[d]
  BY <1>1, <1>2 DEF Cancel, TaskInv, TaskTypeOK
<1>5. ASSUME NEW d \in Tasks PROVE TaskOk(d)'
  <2>1. Quiet(d)
    BY <1>2, <1>4, OtherQuiet
  <2>2. Still(d) /\ TaskOk(d)
    BY DEF Still, Parked, AsyncInv
  <2>3. QED
    BY <1>1, <2>1, <2>2, QuietOk
<1>6. ShapeTypes' /\ ProgTypes'
  BY <1>1 DEF ShapeTypes, ProgTypes, Indices, Input
<1>7. QED
  BY <1>3, <1>5, <1>6 DEF AsyncInv

\* A goroutine goes on in its call.
LEMMA GoroutineOk ==
  ASSUME AsyncInv, NEW p \in Procs, Goroutine(p)
  PROVE  AsyncInv'
<1> USE DEF Goroutine, progVars
<1>1. TaskInv /\ ShapeTypes /\ ProgTypes
  BY DEF AsyncInv
<1>2. TaskInv'
  BY <1>1, CallStepInv
<1>3. ASSUME NEW d \in Tasks PROVE TaskOk(d)'
  <2>1. Quiet(d)
    BY <1>1, CallQuiet, AsyncAssumption
  <2>2. Still(d) /\ TaskOk(d)
    BY DEF Still, Parked, AsyncInv
  <2>3. QED
    BY <1>1, <2>1, <2>2, QuietOk
<1>4. ShapeTypes' /\ ProgTypes'
  BY <1>1 DEF ShapeTypes, ProgTypes, Indices, Input
<1>5. QED
  BY <1>2, <1>3, <1>4 DEF AsyncInv

-----------------------------------------------------------------------------
(***************************************************************************)
(* async.all and async.race.                                               *)
(***************************************************************************)
\* The combinator that only moves its own state, to a place before its end.
LEMMA StepOk ==
  ASSUME AsyncInv, NEW c \in Tasks, UNCHANGED <<taskVars, kind, inputs, cancels>>,
         ProgTypes', \A d \in Tasks \ {c} : Still(d), pc[c] # "done", pc'[c] # "done",
         Local(c)', Swept(c)', Collected(c)', Picked(c)', Joined(c)'
  PROVE  AsyncInv'
<1>1. TaskInv /\ TaskOk(c)
  BY Known
<1>2. TaskInv' /\ UNCHANGED <<runner, result, doneCh, call>>
  BY <1>1, TaskSame, Frame
<1>3. Told(c)'
  BY <1>1, <1>2, NotYet
<1>4. QED
  BY <1>2, <1>3, OneMoves DEF TaskOk, Moves

\* async.all has the outcome of its next input; an error is its pick.
LEMMA AllCollectOk ==
  ASSUME AsyncInv, NEW c \in Tasks, AllCollect(c)
  PROVE  AsyncInv'
<1> DEFINE i == Len(got[c]) + 1
           r == result[Input(c, i)]
<1>1. /\ kind[c] = "all" /\ pc[c] = "await" /\ call[c] = Idle
      /\ i \in Indices(c) /\ Done(Input(c, i))
      /\ got' = [got EXCEPT ![c] = Append(@, r)]
      /\ \/ ~IsErr(r) /\ UNCHANGED <<pc, pick>>
         \/ IsErr(r) /\ Goto(c, "cancel") /\ pick' = [pick EXCEPT ![c] = i]
      /\ UNCHANGED <<taskVars, kind, inputs, cancels, cur, hpc, winner>>
  BY DEF AllCollect, At
<1>2. /\ TaskInv /\ ShapeTypes /\ ProgTypes /\ TaskOk(c)
      /\ inputs[c] \in Seq(Tasks) /\ Indices(c) = 1..Len(inputs[c]) /\ Len(inputs[c]) \in Nat
      /\ got[c] \in Seq(Results) /\ pick[c] \in Nat /\ cur[c] \in Nat
      /\ \A j \in Indices(c) : Input(c, j) \in Tasks /\ Input(c, j) # c
      /\ \A t \in Tasks : Done(t) => result[t] \in Results
  BY Known
<1>3. /\ Indices(c)' = Indices(c) /\ kind'[c] = kind[c]
      /\ \A j : Input(c, j)' = Input(c, j)
      /\ \A x : Done(x)' = Done(x) /\ Busy(c, x)' = Busy(c, x)
      /\ UNCHANGED <<runner, result, doneCh, call>>
  BY <1>1, Frame
<1>4. pick[c] = 0 /\ cur[c] = 0
  BY <1>1, <1>2 DEF TaskOk, Picked
<1>5. r \in Results /\ i \in Nat /\ Len(got[c]) \in Nat
  BY <1>1, <1>2
<1> HIDE DEF i, r
<1>6. ProgTypes' /\ \A d \in Tasks \ {c} : Still(d)
  <2>1. got' \in [Tasks -> Seq(Results)] /\ \A d \in Tasks \ {c} : got'[d] = got[d]
    BY <1>1, <1>2, <1>5 DEF ProgTypes
  <2>2. pc' \in [Tasks -> Pcs] /\ pick' \in [Tasks -> Nat]
    BY <1>1, <1>2, <1>5 DEF ProgTypes, Goto, Pcs
  <2>3. \A d \in Tasks \ {c} : pc'[d] = pc[d] /\ pick'[d] = pick[d]
    BY <1>1, <1>2 DEF ProgTypes, Goto
  <2>4. QED
    BY <1>1, <1>2, <2>1, <2>2, <2>3 DEF ProgTypes, Still, Parked
<1>7. /\ got'[c] = Append(got[c], r)
      /\ \/ ~IsErr(r) /\ pc'[c] = "await" /\ pick'[c] = 0
         \/ IsErr(r) /\ pc'[c] = "cancel" /\ pick'[c] = i
  BY <1>1, <1>2, <1>4 DEF ProgTypes, Goto
<1>8. /\ Len(got'[c]) = i /\ DOMAIN got'[c] = 1..i /\ got'[c][i] = r
      /\ DOMAIN got[c] = 1..(i - 1)
      /\ \A k \in 1..(i - 1) : got'[c][k] = got[c][k]
  BY <1>2, <1>5, <1>7 DEF i
<1>9. Local(c)'
  <2>1. pc'[c] \in Places(kind'[c])
    BY <1>1, <1>3, <1>7 DEF Places
  <2>2. Len(got'[c]) <= Len(inputs'[c]) + (IF kind'[c] = "scope" THEN 1 ELSE 0)
    <3>1. i <= Len(inputs[c]) /\ inputs'[c] = inputs[c] /\ kind'[c] # "scope"
      BY <1>1, <1>2, <1>3
    <3>2. QED
      BY <1>2, <1>5, <1>8, <3>1
  <2>3. pick'[c] \in Indices(c)' \cup {0}
    BY <1>1, <1>3, <1>7
  <2>4. \A x : ~Busy(c, x)'
    BY <1>1, <1>3, IdleFree
  <2>5. /\ cur[c] \in Indices(c) \cup {0} /\ hpc[c] \in [Indices(c) -> Helping]
        /\ \A j \in Indices(c) : hpc[c][j] \in {"send", "exit"} => Done(Input(c, j))
        /\ \A k \in DOMAIN winner[c] : winner[c][k] \in Indices(c) /\ Done(Input(c, winner[c][k]))
    BY <1>2 DEF TaskOk, Local
  <2>6. UNCHANGED <<cur, hpc, winner>>
    BY <1>1
  <2>7. UNCHANGED <<doneCh, inputs>>
    BY <1>1 DEF taskVars
  <2>8. /\ (cur[c] \in Indices(c) \cup {0} /\ hpc[c] \in [Indices(c) -> Helping])'
        /\ (\A j \in Indices(c) : hpc[c][j] \in {"send", "exit"} => Done(Input(c, j)))'
        /\ (\A k \in DOMAIN winner[c] : winner[c][k] \in Indices(c) /\ Done(Input(c, winner[c][k])))'
    BY <2>5, <2>6, <2>7 DEF Done, Input, Indices, Helping
  <2>9. (\A x \in Tasks : Busy(c, x) => ((x = c) <=> (pc[c] = "done")))'
    BY <2>4
  <2>10. QED
    BY <2>1, <2>2, <2>3, <2>8, <2>9 DEF Local
<1>10. Swept(c)'
  <2>1. \A j \in Indices(c)' : ~(j <= cur'[c])
    BY <1>1, <1>2, <1>3, <1>4
  <2>2. QED
    BY <1>1, <1>3, <1>7, <2>1 DEF Swept
<1>11. Collected(c)'
  <2>1. \A k \in 1..(i - 1) :
          k \in Indices(c) /\ Done(Input(c, k)) /\ got[c][k] = result[Input(c, k)] /\ ~IsErr(got[c][k])
    BY <1>1, <1>2, <1>4, <1>8 DEF TaskOk, Collected
  <2>2. \A k \in 1..i : k \in Indices(c) /\ Done(Input(c, k)) /\ got'[c][k] = result[Input(c, k)]
    BY <1>1, <1>5, <1>8, <2>1 DEF r
  <2>3. \A k \in 1..i : IsErr(got'[c][k]) => k = pick'[c]
    BY <1>5, <1>7, <1>8, <2>1
  <2>4. pc'[c] = "cancel" => pick'[c] = Len(got'[c]) /\ IsErr(got'[c][pick'[c]])
    BY <1>7, <1>8
  <2>5. QED
    BY <1>3, <1>8, <2>2, <2>3, <2>4 DEF Collected, IsErr
<1>12. Picked(c)'
  <2>1. \A x \in Tasks : x # c => runner[x] # c /\ ~Busy(c, x)
    BY <1>1, <1>2, <1>4 DEF TaskOk, Picked
  <2>2. pick'[c] # 0 => Done(Input(c, pick'[c])) /\ runner[Input(c, pick'[c])] # c
    BY <1>1, <1>2, <1>7, <2>1
  <2>3. cur'[c] = 0
    BY <1>1, <1>4
  <2>4. pc'[c] = "cancel" => pick'[c] # 0
    BY <1>1, <1>2, <1>7
  <2>5. pc'[c] = "await" => pick'[c] = 0
    BY <1>7
  <2>6. pc'[c] # "spawn"
    BY <1>7
  <2>7. QED
    BY <1>3, <2>1, <2>2, <2>3, <2>4, <2>5, <2>6 DEF Picked
<1>13. Joined(c)'
  BY <1>1, <1>3 DEF Joined
<1>14. QED
  BY <1>1, <1>6, <1>7, <1>9, <1>10, <1>11, <1>12, <1>13, StepOk

\* The values of a program are closed under lists: the result of async.all is one.
ListsAreResults == \A rs \in Seq(Results) : Gathered(rs) \in Results

\* async.all reports the list of all values.
LEMMA AllSucceedsOk ==
  ASSUME AsyncInv, ListsAreResults, NEW c \in Tasks, AllSucceeds(c)
  PROVE  AsyncInv'
<1>1. /\ kind[c] = "all" /\ pc[c] = "await" /\ Len(got[c]) = Len(inputs[c])
      /\ Complete(c, c, Gathered(got[c])) /\ Goto(c, "done")
      /\ UNCHANGED <<kind, inputs, cancels, got, pick, cur, hpc, winner>>
  BY DEF AllSucceeds, At
<1>2. /\ TaskOk(c)
      /\ inputs[c] \in Seq(Tasks) /\ Indices(c) = 1..Len(inputs[c]) /\ Len(inputs[c]) \in Nat
      /\ got[c] \in Seq(Results)
  BY Known
<1>3. pick[c] = 0
  BY <1>1, <1>2 DEF TaskOk, Picked
<1>4. DOMAIN got[c] = Indices(c)
  BY <1>1, <1>2
<1>5. \A i \in Indices(c) : Done(Input(c, i)) /\ got[c][i] = result[Input(c, i)] /\ ~IsErr(got[c][i])
  BY <1>1, <1>2, <1>3, <1>4 DEF TaskOk, Collected
<1>6. got[c] = [i \in Indices(c) |-> result[Input(c, i)]]
  BY <1>2, <1>4, <1>5
<1>7. Reported(c, Gathered(got[c]))
  BY <1>1, <1>5, <1>6 DEF Reported
<1>8. Ending(c, Gathered(got[c]))
  BY <1>1, <1>7 DEF Ending, Scopes
<1>9. Gathered(got[c]) \in Results
  BY <1>2 DEF ListsAreResults
<1>10. QED
  BY <1>1, <1>5, <1>8, <1>9, CompleteOk

\* When the loop over the inputs is through, every input is settled.
LEMMA AllSwept ==
  ASSUME AsyncInv, NEW c \in Tasks, kind[c] \in {"all", "race"}, pc[c] = "cancel", call[c] = Idle,
         SiblingsLeft(c) = {}
  PROVE  /\ \A j \in Indices(c) : Done(Input(c, j))
         /\ pick[c] \in Indices(c)
<1>1. TaskOk(c) /\ cur[c] \in Nat /\ Indices(c) = 1..Len(inputs[c]) /\ Len(inputs[c]) \in Nat
  BY Known
<1>2. pick[c] \in Indices(c) /\ Done(Input(c, pick[c]))
  BY <1>1 DEF TaskOk, Local, Picked
<1>3. \A j \in Indices(c) : j <= cur[c] \/ j = pick[c]
  BY <1>1 DEF SiblingsLeft
<1>4. \A x : ~Busy(c, x)
  BY IdleFree
<1>5. QED
  BY <1>1, <1>2, <1>3, <1>4 DEF TaskOk, Swept

\* async.all reports the first error.
LEMMA AllFailsOk ==
  ASSUME AsyncInv, NEW c \in Tasks, AllFails(c)
  PROVE  AsyncInv'
<1>1. /\ kind[c] = "all" /\ pc[c] = "cancel" /\ call[c] = Idle /\ SiblingsLeft(c) = {}
      /\ Complete(c, c, got[c][pick[c]]) /\ Goto(c, "done")
      /\ UNCHANGED <<kind, inputs, cancels, got, pick, cur, hpc, winner>>
  BY DEF AllFails, At
<1>2. /\ TaskOk(c) /\ got[c] \in Seq(Results) /\ pick[c] \in Nat
      /\ Indices(c) = 1..Len(inputs[c]) /\ Len(inputs[c]) \in Nat
  BY Known
<1>3. \A j \in Indices(c) : Done(Input(c, j))
  BY <1>1, AllSwept
<1>4. pick[c] \in Indices(c)
  BY <1>1, AllSwept
<1>5. pick[c] = Len(got[c]) /\ IsErr(got[c][pick[c]])
  BY <1>1, <1>2 DEF TaskOk, Collected
<1>6. /\ DOMAIN got[c] = 1..pick[c] /\ pick[c] \in DOMAIN got[c]
      /\ \A j \in 1..(pick[c] - 1) : j \in DOMAIN got[c] /\ j # pick[c]
  BY <1>2, <1>4, <1>5
<1>7. \A j \in DOMAIN got[c] :
        Done(Input(c, j)) /\ got[c][j] = result[Input(c, j)] /\ (IsErr(got[c][j]) => j = pick[c])
  BY <1>1, <1>2 DEF TaskOk, Collected
<1>8. \A j \in 1..(pick[c] - 1) : Done(Input(c, j)) /\ ~IsErr(result[Input(c, j)])
  BY <1>6, <1>7
<1>9. Settles(c, pick[c], got[c][pick[c]])
  BY <1>6, <1>7 DEF Settles
<1>10. Reported(c, got[c][pick[c]])
  BY <1>1, <1>4, <1>5, <1>8, <1>9 DEF Reported
<1>11. Ending(c, got[c][pick[c]])
  BY <1>1, <1>10 DEF Ending, Scopes
<1>12. got[c][pick[c]] \in Results
  BY <1>2, <1>6, ElementOfSeq
<1>13. QED
  BY <1>1, <1>3, <1>11, <1>12, CompleteOk

\* Cancelling the next input.
LEMMA CancelSiblingOk ==
  ASSUME AsyncInv, NEW c \in Tasks, CancelSibling(c)
  PROVE  AsyncInv'
<1> DEFINE j == Min(SiblingsLeft(c))
<1>1. /\ pc[c] = "cancel" /\ kind[c] # "scope" /\ SiblingsLeft(c) # {}
      /\ Cancel(c, Input(c, j)) /\ cur' = [cur EXCEPT ![c] = j]
      /\ UNCHANGED <<kind, inputs, cancels, pc, got, pick, hpc, winner>>
  BY DEF CancelSibling
<1>2. /\ TaskInv /\ ShapeTypes /\ ProgTypes /\ TaskOk(c) /\ kind[c] \in Kinds
      /\ inputs[c] \in Seq(Tasks) /\ Indices(c) = 1..Len(inputs[c]) /\ Len(inputs[c]) \in Nat
      /\ pick[c] \in Nat /\ cur[c] \in Nat
      /\ \A k \in Indices(c) : Input(c, k) \in Tasks /\ Input(c, k) # c
  BY Known
<1>3. kind[c] \in {"all", "race"}
  BY <1>1, <1>2 DEF TaskOk, Local, Places, Kinds
<1>4. j \in SiblingsLeft(c) /\ \A k \in SiblingsLeft(c) : j <= k
  <2>1. SiblingsLeft(c) \subseteq Nat
    BY <1>2 DEF SiblingsLeft
  <2>2. QED
    BY <1>1, <2>1, MinFacts
<1> HIDE DEF j
<1>5. j \in Indices(c) /\ j \in Nat /\ Input(c, j) \in Tasks /\ Input(c, j) # c
  BY <1>2, <1>4 DEF SiblingsLeft
<1>6. Cancelled \in Results
  BY TaskAssumption
<1>7. /\ TaskInv' /\ UNCHANGED <<runner, result, doneCh>>
      /\ \A x : ~Busy(c, x)
      /\ \A x : Busy(c, x)' <=> x = Input(c, j)
      /\ \A d \in Tasks \ {c} : call'[d] = call[d]
  BY <1>1, <1>2, <1>5, <1>6, Starts
<1>8. ProgTypes' /\ cur'[c] = j /\ \A d \in Tasks \ {c} : Still(d)
  BY <1>1, <1>2, <1>5 DEF ProgTypes, Still, Parked
<1>9. /\ Indices(c)' = Indices(c) /\ kind'[c] = kind[c]
      /\ \A i : Input(c, i)' = Input(c, i) /\ Done(Input(c, i))' = Done(Input(c, i))
  BY <1>1, <1>7 DEF Indices, Input, Done
<1>10. Local(c)'
  BY <1>1, <1>2, <1>5, <1>7, <1>8, <1>9 DEF TaskOk, Local
<1>11. Swept(c)'
  <2>1. ASSUME NEW k \in Indices(c), k <= j, k # pick[c] PROVE Done(Input(c, k)) \/ k = j
    <3>1. CASE k <= cur[c]
      BY <1>1, <1>2, <1>3, <1>7, <2>1, <3>1 DEF TaskOk, Swept
    <3>2. CASE ~(k <= cur[c])
      <4>1. k \in SiblingsLeft(c)
        BY <1>2, <2>1, <3>2 DEF SiblingsLeft
      <4>2. j <= k
        BY <1>4, <4>1
      <4>3. QED
        BY <1>2, <1>5, <2>1, <4>2
    <3>3. QED
      BY <3>1, <3>2
  <2>2. \A k \in Indices(c) : k <= j /\ k # pick[c] => Done(Input(c, k))' \/ Busy(c, Input(c, k))'
    BY <1>7, <1>9, <2>1
  <2>3. QED
    BY <1>1, <1>3, <1>8, <1>9, <2>2 DEF Swept
<1>12. Collected(c)'
  BY <1>1, <1>2, <1>7, <1>9 DEF TaskOk, Collected
<1>13. Picked(c)'
  BY <1>1, <1>2, <1>3, <1>7, <1>9 DEF TaskOk, Picked
<1>14. Joined(c)'
  BY <1>1, <1>9 DEF Joined
<1>15. Told(c)'
  BY <1>1, <1>2, <1>7, <1>10, NotYet
<1>16. QED
  BY <1>1, <1>7, <1>8, <1>10, <1>11, <1>12, <1>13, <1>14, <1>15, OneMoves DEF TaskOk, Moves

\* async.race starts its helpers.
LEMMA RaceSpawnOk ==
  ASSUME AsyncInv, NEW c \in Tasks, RaceSpawn(c)
  PROVE  AsyncInv'
<1>1. /\ kind[c] = "race" /\ pc[c] = "spawn"
      /\ hpc' = [hpc EXCEPT ![c] = [i \in Indices(c) |-> "wait"]] /\ Goto(c, "await")
      /\ UNCHANGED <<taskVars, kind, inputs, cancels, got, pick, cur, winner>>
  BY DEF RaceSpawn, At
<1>2. TaskInv /\ ShapeTypes /\ ProgTypes /\ TaskOk(c)
  BY Known
<1>3. /\ Indices(c)' = Indices(c) /\ kind'[c] = kind[c]
      /\ \A j : Input(c, j)' = Input(c, j)
      /\ \A x : Done(x)' = Done(x) /\ Busy(c, x)' = Busy(c, x)
      /\ UNCHANGED <<runner, result, doneCh, call>>
  BY <1>1, Frame
<1>4. ProgTypes' /\ \A d \in Tasks \ {c} : Still(d)
  <2>1. pc' \in [Tasks -> Pcs] /\ \A d \in Tasks \ {c} : pc'[d] = pc[d]
    BY <1>1, <1>2 DEF ProgTypes, Pcs, Goto
  <2>2. hpc' = [t \in Tasks |-> hpc'[t]] /\ \A d \in Tasks \ {c} : hpc'[d] = hpc[d]
    BY <1>1, <1>2 DEF ProgTypes
  <2>3. QED
    BY <1>1, <1>2, <2>1, <2>2 DEF ProgTypes, Still, Parked
<1>5. pc'[c] = "await" /\ hpc'[c] = [i \in Indices(c) |-> "wait"]
  BY <1>1, <1>2 DEF ProgTypes, Goto
<1>6. Local(c)'
  <2>1. pc'[c] \in Places(kind'[c])
    BY <1>1, <1>3, <1>5 DEF Places
  <2>2. hpc'[c] \in [Indices(c)' -> Helping] /\ \A i \in Indices(c)' : hpc'[c][i] \notin {"send", "exit"}
    BY <1>3, <1>5 DEF Helping
  <2>3. \A x \in Tasks : Busy(c, x)' => ((x = c) <=> (pc'[c] = "done"))
    BY <1>1, <1>2, <1>3, <1>5 DEF TaskOk, Local
  <2>4. QED
    BY <1>1, <1>2, <1>3, <2>1, <2>2, <2>3 DEF TaskOk, Local
<1>7. Swept(c)' /\ Collected(c)' /\ Joined(c)'
  BY <1>1, <1>3, <1>5 DEF Swept, Collected, Joined
<1>8. Picked(c)'
  BY <1>1, <1>2, <1>3, <1>5 DEF TaskOk, Picked
<1>9. QED
  BY <1>1, <1>4, <1>5, <1>6, <1>7, <1>8, StepOk

\* A helper goroutine of a race moves; the producer does not.
LEMMA HelperOk ==
  ASSUME AsyncInv, NEW c \in Tasks, NEW i \in Indices(c), Helper(c, i)
  PROVE  AsyncInv'
<1>1. /\ hpc[c][i] \in {"wait", "send"}
      /\ \E h \in {"send", "exit"} : hpc' = [hpc EXCEPT ![c][i] = h]
      /\ hpc[c][i] = "wait" => Done(Input(c, i))
      /\ winner' = winner \/ (winner' = [winner EXCEPT ![c] = Append(@, i)] /\ hpc[c][i] = "send")
      /\ UNCHANGED <<taskVars, kind, inputs, cancels, pc, got, pick, cur>>
  BY DEF Helper, HelperSees, HelperSends
<1>2. /\ TaskInv /\ ShapeTypes /\ ProgTypes /\ TaskOk(c) /\ winner[c] \in Seq(Nat)
      /\ Indices(c) = 1..Len(inputs[c]) /\ Len(inputs[c]) \in Nat
  BY Known
<1>3. /\ Indices(c)' = Indices(c) /\ kind'[c] = kind[c]
      /\ \A j : Input(c, j)' = Input(c, j)
      /\ \A x : Done(x)' = Done(x) /\ Busy(c, x)' = Busy(c, x)
      /\ UNCHANGED <<runner, result, doneCh, call>>
  BY <1>1, Frame
<1>4. PICK h \in {"send", "exit"} : hpc' = [hpc EXCEPT ![c][i] = h]
  BY <1>1
<1>5. Done(Input(c, i))
  BY <1>1, <1>2 DEF TaskOk, Local
<1>6. /\ hpc' = [t \in Tasks |-> hpc'[t]] /\ \A d \in Tasks \ {c} : hpc'[d] = hpc[d]
      /\ hpc'[c] = [hpc[c] EXCEPT ![i] = h]
  BY <1>2, <1>4 DEF ProgTypes
<1>7. /\ winner' \in [Tasks -> Seq(Nat)] /\ \A d \in Tasks \ {c} : winner'[d] = winner[d]
      /\ winner'[c] = winner[c] \/ winner'[c] = Append(winner[c], i)
  <2>1. i \in Nat
    BY <1>2
  <2>2. CASE winner' = winner
    BY <1>2, <2>2 DEF ProgTypes
  <2>3. CASE winner' = [winner EXCEPT ![c] = Append(@, i)]
    BY <1>2, <2>1, <2>3 DEF ProgTypes
  <2>4. QED
    BY <1>1, <2>2, <2>3
<1>8. ProgTypes' /\ \A d \in Tasks \ {c} : Still(d)
  BY <1>1, <1>2, <1>6, <1>7 DEF ProgTypes, Still, Parked
<1>9. Local(c)'
  <2>1. hpc'[c] \in [Indices(c)' -> Helping]
        /\ \A k \in Indices(c)' : hpc'[c][k] \in {"send", "exit"} => Done(Input(c, k))'
    <3>1. hpc[c] \in [Indices(c) -> Helping]
      BY <1>2 DEF TaskOk, Local
    <3>2. hpc'[c] \in [Indices(c) -> Helping]
      BY <1>6, <3>1 DEF Helping
    <3>3. \A k \in Indices(c) : k # i => hpc'[c][k] = hpc[c][k]
      BY <1>6, <3>1
    <3>4. QED
      BY <1>2, <1>3, <1>5, <3>2, <3>3 DEF TaskOk, Local
  <2>2. \A k \in DOMAIN winner'[c] : winner'[c][k] \in Indices(c)' /\ Done(Input(c, winner[c][k]))'
    <3>1. \A k \in DOMAIN winner[c] : winner[c][k] \in Indices(c) /\ Done(Input(c, winner[c][k]))
      BY <1>2 DEF TaskOk, Local
    <3>2. CASE winner'[c] = winner[c]
      BY <1>3, <3>1, <3>2
    <3>3. CASE winner'[c] = Append(winner[c], i)
      <4>1. \A k \in DOMAIN winner'[c] : winner'[c][k] = i \/ (k \in DOMAIN winner[c] /\ winner'[c][k] = winner[c][k])
        BY <1>2, <3>3
      <4>2. QED
        BY <1>3, <1>5, <3>1, <4>1
    <3>4. QED
      BY <1>7, <3>2, <3>3
  <2>3. \A x \in Tasks : Busy(c, x)' => ((x = c) <=> (pc'[c] = "done"))
    BY <1>1, <1>2, <1>3 DEF TaskOk, Local
  <2>4. QED
    BY <1>1, <1>2, <1>3, <2>1, <2>2, <2>3 DEF TaskOk, Local
<1>10. Swept(c)' /\ Collected(c)' /\ Picked(c)' /\ Joined(c)' /\ Told(c)'
  <2>1. Quiet(c)
    BY <1>3, OtherQuiet, AsyncAssumption
  <2>2. Parked(c)
    BY <1>1 DEF Parked
  <2>3. QED
    BY <1>1, <1>2, <2>1, <2>2, ParkedOk
<1>11. TaskInv'
  BY <1>1, <1>2, TaskSame
<1>12. QED
  BY <1>1, <1>3, <1>8, <1>9, <1>10, <1>11, OneMoves DEF TaskOk, Moves

\* async.race takes a winner off its channel, an input that somebody else has settled.
LEMMA RacePicksOk ==
  ASSUME AsyncInv, NEW c \in Tasks, RacePicks(c)
  PROVE  AsyncInv'
<1>1. /\ kind[c] = "race" /\ pc[c] = "await" /\ winner[c] # <<>>
      /\ pick' = [pick EXCEPT ![c] = Head(winner[c])]
      /\ winner' = [winner EXCEPT ![c] = Tail(@)]
      /\ Goto(c, "cancel")
      /\ UNCHANGED <<taskVars, kind, inputs, cancels, got, cur, hpc>>
  BY DEF RacePicks, At
<1>2. /\ TaskInv /\ ShapeTypes /\ ProgTypes /\ TaskOk(c) /\ winner[c] \in Seq(Nat)
      /\ Indices(c) = 1..Len(inputs[c]) /\ Len(inputs[c]) \in Nat /\ cur[c] \in Nat
      /\ \A j \in Indices(c) : Input(c, j) \in Tasks /\ Input(c, j) # c
  BY Known
<1>3. /\ Indices(c)' = Indices(c) /\ kind'[c] = kind[c]
      /\ \A j : Input(c, j)' = Input(c, j)
      /\ \A x : Done(x)' = Done(x) /\ Busy(c, x)' = Busy(c, x)
      /\ UNCHANGED <<runner, result, doneCh, call>>
  BY <1>1, Frame
<1>4. pick[c] = 0 /\ cur[c] = 0
  BY <1>1, <1>2 DEF TaskOk, Picked
<1>5. /\ Tail(winner[c]) \in Seq(Nat)
      /\ \A k \in DOMAIN Tail(winner[c]) : k + 1 \in DOMAIN winner[c] /\ Tail(winner[c])[k] = winner[c][k + 1]
      /\ 1 \in DOMAIN winner[c] /\ Head(winner[c]) = winner[c][1] /\ Head(winner[c]) \in Nat
  BY <1>1, <1>2
<1>6. \A k \in DOMAIN winner[c] : winner[c][k] \in Indices(c) /\ Done(Input(c, winner[c][k]))
  BY <1>2 DEF TaskOk, Local
<1>7. ProgTypes' /\ \A d \in Tasks \ {c} : Still(d)
  <2>1. pc' \in [Tasks -> Pcs] /\ \A d \in Tasks \ {c} : pc'[d] = pc[d]
    BY <1>1, <1>2 DEF ProgTypes, Pcs, Goto
  <2>2. winner' \in [Tasks -> Seq(Nat)] /\ \A d \in Tasks \ {c} : winner'[d] = winner[d]
    BY <1>1, <1>2, <1>5 DEF ProgTypes
  <2>3. pick' \in [Tasks -> Nat] /\ \A d \in Tasks \ {c} : pick'[d] = pick[d]
    BY <1>1, <1>2, <1>5 DEF ProgTypes
  <2>4. QED
    BY <1>1, <1>2, <2>1, <2>2, <2>3 DEF ProgTypes, Still, Parked
<1>8. pc'[c] = "cancel" /\ pick'[c] = Head(winner[c]) /\ winner'[c] = Tail(winner[c]) /\ cur'[c] = 0
  BY <1>1, <1>2, <1>4 DEF ProgTypes, Goto
<1>9. pick'[c] \in Indices(c) /\ Done(Input(c, pick'[c]))
  BY <1>5, <1>6, <1>8
<1>10. Local(c)'
  <2>1. pc'[c] \in Places(kind'[c])
    BY <1>1, <1>3, <1>8 DEF Places
  <2>2. \A k \in DOMAIN winner'[c] : winner'[c][k] \in Indices(c)' /\ Done(Input(c, winner[c][k]))'
    BY <1>3, <1>5, <1>6, <1>8
  <2>3. \A x \in Tasks : Busy(c, x)' => ((x = c) <=> (pc'[c] = "done"))
    BY <1>1, <1>2, <1>3, <1>8 DEF TaskOk, Local
  <2>4. QED
    BY <1>1, <1>2, <1>3, <1>9, <2>1, <2>2, <2>3 DEF TaskOk, Local
<1>11. Swept(c)'
  <2>1. \A j \in Indices(c)' : ~(j <= cur'[c])
    BY <1>2, <1>3, <1>8
  <2>2. QED
    BY <1>1, <1>3, <1>8, <2>1 DEF Swept
<1>12. Picked(c)'
  <2>1. \A x \in Tasks : x # c => runner[x] # c /\ ~Busy(c, x)
    BY <1>1, <1>2, <1>4 DEF TaskOk, Picked
  <2>2. Done(Input(c, pick'[c])) /\ runner[Input(c, pick'[c])] # c /\ pick'[c] # 0
    BY <1>2, <1>9, <2>1
  <2>3. QED
    BY <1>3, <1>8, <2>1, <2>2 DEF Picked
<1>13. Collected(c)' /\ Joined(c)'
  BY <1>1, <1>3 DEF Collected, Joined
<1>14. QED
  BY <1>1, <1>7, <1>8, <1>10, <1>11, <1>12, <1>13, StepOk

\* async.race reports its winner's outcome.
LEMMA RaceReportsOk ==
  ASSUME AsyncInv, NEW c \in Tasks, RaceReports(c)
  PROVE  AsyncInv'
<1> DEFINE r == result[Input(c, pick[c])]
<1>1. /\ kind[c] = "race" /\ pc[c] = "cancel" /\ call[c] = Idle /\ SiblingsLeft(c) = {}
      /\ Complete(c, c, r) /\ Goto(c, "done")
      /\ UNCHANGED <<kind, inputs, cancels, got, pick, cur, hpc, winner>>
  BY DEF RaceReports, At
<1>2. /\ \A j \in Indices(c) : Done(Input(c, j)) /\ Input(c, j) \in Tasks
      /\ pick[c] \in Indices(c)
      /\ \A t \in Tasks : Done(t) => result[t] \in Results
  BY <1>1, AllSwept, Known
<1>3. r \in Results /\ Settles(c, pick[c], r)
  BY <1>2 DEF Settles
<1>4. Ending(c, r)
  BY <1>1, <1>2, <1>3 DEF Ending, Scopes, Reported
<1> HIDE DEF r
<1>5. QED
  BY <1>1, <1>2, <1>3, <1>4, CompleteOk

-----------------------------------------------------------------------------
(***************************************************************************)
(* async.timeout.                                                          *)
(***************************************************************************)
\* async.timeout reports its input's outcome, or the timeout.
LEMMA TimeoutEndsOk ==
  ASSUME AsyncInv, NEW c \in Tasks, TimeoutInner(c) \/ TimeoutReports(c)
  PROVE  AsyncInv'
<1>1. /\ kind[c] = "timeout" /\ pc[c] \in {"await", "report"} /\ call[c] = Idle /\ Goto(c, "done")
      /\ UNCHANGED <<kind, inputs, cancels, got, pick, cur, hpc, winner>>
  BY DEF TimeoutInner, TimeoutReports, At
<1>2. /\ ShapeTypes /\ TaskOk(c)
      /\ \A j \in Indices(c) : Input(c, j) \in Tasks
      /\ \A t \in Tasks : Done(t) => result[t] \in Results
  BY Known
<1>3. Indices(c) = {1}
  BY <1>1, <1>2, TimeoutInput
<1>4. Done(Input(c, 1))
  <2>1. \A x : ~Busy(c, x)
    BY <1>1, IdleFree
  <2>2. QED
    BY <1>1, <1>2, <2>1 DEF TimeoutInner, TimeoutReports, At, TaskOk, Swept
<1>5. PICK r \in {result[Input(c, 1)], TimedOut(c)} : Complete(c, c, r)
  BY DEF TimeoutInner, TimeoutReports
<1>6. r \in Results
  BY <1>2, <1>3, <1>4, AsyncAssumption
<1>7. Ending(c, r)
  BY <1>1, <1>4, <1>5 DEF Ending, Scopes, Reported, Settles
<1>8. QED
  BY <1>1, <1>3, <1>4, <1>5, <1>6, <1>7, CompleteOk

\* The timer fires and the input is cancelled.
LEMMA TimeoutFiresOk ==
  ASSUME AsyncInv, NEW c \in Tasks, TimeoutFires(c)
  PROVE  AsyncInv'
<1>1. /\ kind[c] = "timeout" /\ pc[c] = "await" /\ Cancel(c, Input(c, 1)) /\ Goto(c, "report")
      /\ UNCHANGED <<kind, inputs, cancels, got, pick, cur, hpc, winner>>
  BY DEF TimeoutFires, At
<1>2. /\ TaskInv /\ ShapeTypes /\ ProgTypes /\ TaskOk(c)
      /\ \A k \in Indices(c) : Input(c, k) \in Tasks /\ Input(c, k) # c
  BY Known
<1>3. Indices(c) = {1}
  BY <1>1, <1>2, TimeoutInput
<1>4. Input(c, 1) \in Tasks /\ Input(c, 1) # c /\ Cancelled \in Results
  BY <1>2, <1>3, TaskAssumption
<1>5. /\ TaskInv' /\ UNCHANGED <<runner, result, doneCh>>
      /\ \A x : Busy(c, x)' <=> x = Input(c, 1)
      /\ \A d \in Tasks \ {c} : call'[d] = call[d]
  BY <1>1, <1>2, <1>4, Starts
<1>6. ProgTypes' /\ pc'[c] = "report" /\ \A d \in Tasks \ {c} : Still(d)
  BY <1>1, <1>2 DEF ProgTypes, Pcs, Goto, Still, Parked
<1>7. /\ Indices(c)' = Indices(c) /\ kind'[c] = kind[c]
      /\ \A i : Input(c, i)' = Input(c, i) /\ Done(Input(c, i))' = Done(Input(c, i))
  BY <1>1, <1>5 DEF Indices, Input, Done
<1>8. Local(c)'
  <2>1. pc'[c] \in Places(kind'[c])
    BY <1>1, <1>6, <1>7 DEF Places
  <2>2. QED
    BY <1>1, <1>2, <1>4, <1>5, <1>6, <1>7, <2>1 DEF TaskOk, Local
<1>9. Swept(c)' /\ Collected(c)' /\ Picked(c)' /\ Joined(c)'
  BY <1>1, <1>5, <1>6, <1>7 DEF Swept, Collected, Picked, Joined
<1>10. Told(c)'
  BY <1>1, <1>2, <1>5, <1>6, <1>8, NotYet
<1>11. QED
  BY <1>1, <1>5, <1>6, <1>8, <1>9, <1>10, OneMoves DEF TaskOk, Moves

-----------------------------------------------------------------------------
(***************************************************************************)
(* async.scope.                                                            *)
(***************************************************************************)
\* An error that no catch (RuntimeError e) catches leaves the scope at once; it is no
\* cancellation.
LEMMA ScopeLeavesOk ==
  ASSUME AsyncInv, NEW c \in Tasks, kind[c] = "scope", pc[c] # "done", NEW r \in Results,
         IsErr(r), ~IsRuntimeError(r), Complete(c, c, r), Goto(c, "done"),
         UNCHANGED <<kind, inputs, cancels, got, pick, cur, hpc, winner>>
  PROVE  AsyncInv'
<1>1. r # Cancelled
  BY AsyncAssumption DEF IsRuntimeError
<1>2. Ending(c, r) /\ c \notin Combinators
  BY <1>1 DEF Ending, Combinators, ScopeReported
<1>3. QED
  BY <1>2, CompleteOk

\* The scope has one more outcome, r, that of its body or of the child it awaits, and
\* goes on; an error that cancels the rest is the first one.
LEMMA ScopeGoesOn ==
  ASSUME AsyncInv, NEW c \in Tasks, kind[c] = "scope", pc[c] \in {"body", "await"}, call[c] = Idle,
         NEW r \in Results, NEW l \in {"cancel", "await"},
         got' = [got EXCEPT ![c] = Append(@, r)], pc' = [pc EXCEPT ![c] = l],
         UNCHANGED <<taskVars, kind, inputs, cancels, pick, cur, hpc, winner>>,
         Len(got[c]) <= Len(inputs[c]),
         pc[c] = "await" => Len(got[c]) \in Indices(c) /\ Settles(c, Len(got[c]), r),
         l = "cancel" => IsErr(r),
         r = Cancelled => \E i \in Indices(c) : Settles(c, i, r)
  PROVE  AsyncInv'
<1> DEFINE n == Len(got[c])
<1>1. /\ TaskInv /\ ShapeTypes /\ ProgTypes /\ TaskOk(c)
      /\ Indices(c) = 1..Len(inputs[c]) /\ Len(inputs[c]) \in Nat
      /\ got[c] \in Seq(Results)
      /\ \A j \in Indices(c) : Input(c, j) \in Tasks /\ Input(c, j) # c
  BY Known
<1>2. /\ Indices(c)' = Indices(c) /\ kind'[c] = kind[c]
      /\ \A j : Input(c, j)' = Input(c, j)
      /\ \A x : Done(x)' = Done(x) /\ Busy(c, x)' = Busy(c, x)
      /\ UNCHANGED <<runner, result, doneCh, call>>
  BY Frame
<1>3. \A x : ~Busy(c, x)
  BY IdleFree
<1>4. ProgTypes' /\ \A d \in Tasks \ {c} : Still(d)
  <2>1. pc' \in [Tasks -> Pcs] /\ \A d \in Tasks \ {c} : pc'[d] = pc[d]
    BY <1>1 DEF ProgTypes, Pcs
  <2>2. got' \in [Tasks -> Seq(Results)] /\ \A d \in Tasks \ {c} : got'[d] = got[d]
    BY <1>1 DEF ProgTypes
  <2>3. QED
    BY <1>1, <2>1, <2>2 DEF ProgTypes, Still, Parked
<1>5. pc'[c] = l /\ got'[c] = Append(got[c], r)
  BY <1>1 DEF ProgTypes
<1>6. /\ n \in Nat /\ DOMAIN got[c] = 1..n /\ DOMAIN got'[c] = 1..(n + 1) /\ Len(got'[c]) = n + 1
      /\ got'[c][n + 1] = r
      /\ \A k \in 1..n : got'[c][k] = got[c][k]
  BY <1>1, <1>5
<1>7. pc[c] = "body" => n = 0
  BY <1>1, EmptySeq DEF TaskOk, Joined
<1>8. pc[c] = "await" => n # 0
  BY <1>1, EmptySeq DEF TaskOk, Joined
<1> HIDE DEF n
<1>9. Local(c)'
  <2>1. pc'[c] \in Places(kind'[c])
    BY <1>2, <1>5 DEF Places
  <2>2. Len(got'[c]) <= Len(inputs'[c]) + (IF kind'[c] = "scope" THEN 1 ELSE 0)
    <3>1. n <= Len(inputs[c]) /\ inputs'[c] = inputs[c] /\ kind'[c] = "scope"
      BY <1>2 DEF n
    <3>2. QED
      BY <1>1, <1>6, <3>1
  <2>3. QED
    BY <1>1, <1>2, <1>3, <2>1, <2>2 DEF TaskOk, Local
<1>10. Swept(c)' /\ Collected(c)' /\ Picked(c)'
  BY <1>2 DEF Swept, Collected, Picked, Combinators
<1>11. Errors(c) \subseteq 1..n /\ Errors(c)' = Errors(c) \cup (IF IsErr(r) THEN {n + 1} ELSE {})
  <2>1. Errors(c)' = {k \in 1..(n + 1) : IsErr(got'[c][k])}
    BY <1>6 DEF Errors, IsErr
  <2>2. Errors(c) = {k \in 1..n : IsErr(got[c][k])}
    BY <1>6 DEF Errors
  <2>3. 1..(n + 1) = 1..n \cup {n + 1}
    BY <1>6
  <2>4. QED
    BY <1>6, <2>1, <2>2, <2>3 DEF IsErr
<1>12. \A x \in Tasks : x # c /\ runner[x] = c => Errors(c) # {}
  BY <1>1 DEF TaskOk, Joined
<1>13. Joined(c)'
  <2>1. /\ pick'[c] = 0 /\ pc'[c] # "body" /\ got'[c] # <<>>
        /\ pc'[c] = "cancel" => Errors(c)' # {}
    <3>1. got'[c] # <<>>
      BY <1>6
    <3>2. QED
      BY <1>1, <1>5, <1>11, <3>1 DEF TaskOk, Joined
  <2>2. ASSUME NEW k \in DOMAIN got'[c], k > 1
        PROVE  k - 1 \in Indices(c)' /\ Settles(c, k - 1, got[c][k])'
    <3>1. k - 1 \in Indices(c) /\ Settles(c, k - 1, got'[c][k])
      <4>1. CASE k = n + 1
        <5>1. pc[c] = "await"
          BY <1>6, <1>7, <2>2, <4>1
        <5>2. k - 1 = n /\ got'[c][k] = r
          BY <1>6, <4>1
        <5>3. QED
          BY <5>1, <5>2 DEF n
      <4>2. CASE k \in 1..n
        BY <1>1, <1>6, <2>2, <4>2 DEF TaskOk, Joined
      <4>3. QED
        BY <1>6, <2>2, <4>1, <4>2
    <3>2. QED
      BY <1>2, <3>1 DEF Settles
  <2>3. \A x \in Tasks : x # c /\ (runner'[x] = c \/ Busy(c, x)') => Errors(c)' # {}
    BY <1>2, <1>3, <1>11, <1>12
  <2>4. ASSUME NEW k \in Errors(c)', \A m \in Errors(c)' : k <= m, got'[c][k] = Cancelled
        PROVE  CancelledByOther(c)'
    <3>1. CancelledByOther(c) => CancelledByOther(c)'
      BY <1>2 DEF CancelledByOther, Settles
    <3>2. CASE k \in Errors(c)
      <4>1. got[c][k] = Cancelled
        BY <1>6, <1>11, <2>4, <3>2
      <4>2. \A m \in Errors(c) : k <= m
        BY <1>11, <2>4
      <4>3. QED
        BY <1>1, <3>1, <3>2, <4>1, <4>2 DEF TaskOk, Joined
    <3>3. CASE k \notin Errors(c)
      <4>1. k = n + 1
        BY <1>11, <2>4, <3>3
      <4>2. r = Cancelled
        BY <1>6, <2>4, <4>1
      <4>3. \A m \in Errors(c) : m \in Nat /\ m <= n /\ n + 1 <= m
        BY <1>6, <1>11, <2>4, <4>1
      <4>4. Errors(c) = {}
        BY <1>6, <4>3
      <4>5. PICK i \in Indices(c) : Settles(c, i, r)
        BY <4>2
      <4>6. runner[Input(c, i)] # c
        BY <1>1, <1>12, <4>4, <4>5
      <4>7. QED
        BY <3>1, <4>2, <4>5, <4>6 DEF CancelledByOther
    <3>4. QED
      BY <3>2, <3>3
  <2>5. QED
    BY <2>1, <2>2, <2>3, <2>4 DEF Joined
<1>14. pc[c] # "done" /\ pc'[c] # "done"
  BY <1>5
<1>15. QED
  BY <1>4, <1>9, <1>10, <1>13, <1>14, StepOk

\* The body of a scope returns or throws.
LEMMA ScopeBodyOk ==
  ASSUME AsyncInv, NEW c \in Tasks, ScopeBody(c)
  PROVE  AsyncInv'
<1>1. /\ kind[c] = "scope" /\ pc[c] = "body" /\ call[c] = Idle
      /\ UNCHANGED <<kind, inputs, cancels, pick, cur, hpc, winner>>
  BY DEF ScopeBody, At
<1>2. PICK r \in {Ok(c)} \cup BodyErrors(c) :
        IF IsErr(r) /\ ~IsRuntimeError(r)
        THEN Complete(c, c, r) /\ Goto(c, "done") /\ UNCHANGED got
        ELSE /\ got' = [got EXCEPT ![c] = <<r>>]
             /\ Goto(c, IF IsErr(r) THEN "cancel" ELSE "await")
             /\ UNCHANGED taskVars
  BY DEF ScopeBody
<1>3. /\ ProgTypes /\ TaskOk(c) /\ got[c] \in Seq(Results) /\ Len(inputs[c]) \in Nat
      /\ \A j \in Indices(c) : Input(c, j) \in Tasks
      /\ \A t \in Tasks : Done(t) => result[t] \in Results
  BY Known
<1>4. r \in {Ok(c), Fail(c), Other(c)} \/ \E i \in Indices(c) : Settles(c, i, r)
  BY <1>2 DEF BodyErrors, Settles
<1>5. r \in Results
  BY <1>3, <1>4, AsyncAssumption DEF Settles
<1>6. r = Cancelled => \E i \in Indices(c) : Settles(c, i, r)
  BY <1>4, AsyncAssumption DEF Ok, Fail, Other
<1>7. CASE IsErr(r) /\ ~IsRuntimeError(r)
  BY <1>1, <1>2, <1>5, <1>7, ScopeLeavesOk
<1>8. CASE ~(IsErr(r) /\ ~IsRuntimeError(r))
  <2>1. PICK l \in {"cancel", "await"} : pc' = [pc EXCEPT ![c] = l] /\ (l = "cancel" => IsErr(r))
    BY <1>2, <1>8 DEF Goto
  <2>2. got[c] = <<>>
    BY <1>1, <1>3 DEF TaskOk, Joined
  <2>3. Append(got[c], r) = <<r>>
    BY <1>5, <2>2
  <2>4. got' = [got EXCEPT ![c] = Append(@, r)] /\ Len(got[c]) <= Len(inputs[c])
    BY <1>2, <1>3, <1>8, <2>2, <2>3
  <2>5. QED
    BY <1>1, <1>2, <1>5, <1>6, <1>8, <2>1, <2>4, ScopeGoesOn
<1>9. QED
  BY <1>7, <1>8

\* The drain awaits a child.
LEMMA ScopeAwaitsOk ==
  ASSUME AsyncInv, NEW c \in Tasks, ScopeAwaits(c)
  PROVE  AsyncInv'
<1> DEFINE i == Len(got[c])
           r == result[Input(c, i)]
<1>1. /\ kind[c] = "scope" /\ pc[c] = "await" /\ call[c] = Idle
      /\ i \in Indices(c) /\ Done(Input(c, i))
      /\ IF IsErr(r) /\ ~IsRuntimeError(r)
         THEN Complete(c, c, r) /\ Goto(c, "done") /\ UNCHANGED got
         ELSE /\ got' = [got EXCEPT ![c] = Append(@, r)]
              /\ IF IsErr(r) /\ Errors(c) = {} THEN Goto(c, "cancel") ELSE UNCHANGED pc
              /\ UNCHANGED taskVars
      /\ UNCHANGED <<kind, inputs, cancels, pick, cur, hpc, winner>>
  BY DEF ScopeAwaits, At
<1>2. /\ ProgTypes /\ TaskOk(c) /\ Indices(c) = 1..Len(inputs[c]) /\ Len(inputs[c]) \in Nat
      /\ \A j \in Indices(c) : Input(c, j) \in Tasks
      /\ \A t \in Tasks : Done(t) => result[t] \in Results
  BY Known
<1>3. r \in Results /\ Settles(c, i, r) /\ i <= Len(inputs[c])
  BY <1>1, <1>2 DEF Settles
<1> HIDE DEF r
<1>4. CASE IsErr(r) /\ ~IsRuntimeError(r)
  BY <1>1, <1>3, <1>4, ScopeLeavesOk
<1>5. CASE ~(IsErr(r) /\ ~IsRuntimeError(r))
  <2>1. PICK l \in {"cancel", "await"} : pc' = [pc EXCEPT ![c] = l] /\ (l = "cancel" => IsErr(r))
    <3>1. CASE pc' = pc
      <4>1. pc' = [pc EXCEPT ![c] = "await"]
        BY <1>1, <1>2, <3>1 DEF ProgTypes
      <4>2. QED
        BY <4>1
    <3>2. CASE IsErr(r) /\ Goto(c, "cancel")
      BY <3>2 DEF Goto
    <3>3. QED
      BY <1>1, <1>5, <3>1, <3>2
  <2>2. got' = [got EXCEPT ![c] = Append(@, r)] /\ UNCHANGED taskVars
    BY <1>1, <1>5
  <2>3. QED
    BY <1>1, <1>3, <2>1, <2>2, ScopeGoesOn
<1>6. QED
  BY <1>4, <1>5

\* All children are drained: the first error is rethrown, or the body's result returned.
LEMMA ScopeEndsOk ==
  ASSUME AsyncInv, NEW c \in Tasks, ScopeEnds(c)
  PROVE  AsyncInv'
<1> DEFINE r == IF Errors(c) = {} THEN Ok(c) ELSE got[c][Min(Errors(c))]
<1>1. /\ kind[c] = "scope" /\ pc[c] = "await" /\ Len(got[c]) = Len(inputs[c]) + 1
      /\ Complete(c, c, r) /\ Goto(c, "done")
      /\ UNCHANGED <<kind, inputs, cancels, got, pick, cur, hpc, winner>>
  BY DEF ScopeEnds, At
<1>2. /\ TaskOk(c) /\ got[c] \in Seq(Results)
      /\ Indices(c) = 1..Len(inputs[c]) /\ Len(inputs[c]) \in Nat
  BY Known
<1>3. DOMAIN got[c] = 1..(Len(inputs[c]) + 1) /\ Errors(c) \subseteq DOMAIN got[c] /\ Errors(c) \subseteq Nat
  BY <1>1, <1>2 DEF Errors
<1>4. Errors(c) # {} => Min(Errors(c)) \in Errors(c) /\ \A m \in Errors(c) : Min(Errors(c)) <= m
  BY <1>3, MinFacts
<1>5. Errors(c) # {} => r \in Results /\ IsErr(r) /\ (r = Cancelled => CancelledByOther(c))
  <2>1. SUFFICES ASSUME Errors(c) # {} PROVE r \in Results /\ IsErr(r) /\ (r = Cancelled => CancelledByOther(c))
    OBVIOUS
  <2>2. PICK k \in Errors(c) : r = got[c][k] /\ \A m \in Errors(c) : k <= m
    BY <1>4, <2>1
  <2>3. got[c][k] \in Results
    BY <1>2, <1>3, ElementOfSeq
  <2>4. IsErr(got[c][k])
    BY DEF Errors
  <2>5. got[c][k] = Cancelled => CancelledByOther(c)
    BY <1>1, <1>2, <2>2 DEF TaskOk, Joined
  <2>6. QED
    BY <2>2, <2>3, <2>4, <2>5
<1>6. Errors(c) = {} => r \in Results /\ r # Cancelled
  <2>1. Ok(c) \in Results /\ Ok(c) # Cancelled
    BY AsyncAssumption DEF Ok
  <2>2. QED
    BY <2>1
<1> HIDE DEF r
<1>7. \A i \in Indices(c) : Done(Input(c, i))
  <2>1. SUFFICES ASSUME NEW i \in Indices(c) PROVE Done(Input(c, i))
    OBVIOUS
  <2>2. i + 1 \in DOMAIN got[c] /\ i + 1 > 1 /\ (i + 1) - 1 = i
    BY <1>2, <1>3
  <2>3. Settles(c, (i + 1) - 1, got[c][i + 1])
    BY <1>1, <1>2, <2>2 DEF TaskOk, Joined
  <2>4. QED
    BY <2>2, <2>3 DEF Settles
<1>8. (\E x \in Tasks : x # c /\ runner[x] = c) => Errors(c) # {}
  BY <1>1, <1>2 DEF TaskOk, Joined
<1>9. Ending(c, r)
  BY <1>1, <1>5, <1>6, <1>7, <1>8 DEF Ending, Combinators, ScopeReported
<1>10. QED
  BY <1>1, <1>5, <1>6, <1>7, <1>9, CompleteOk

\* TaskGroup.cancel goes to the next child.
LEMMA ScopeCancelsOk ==
  ASSUME AsyncInv, NEW c \in Tasks, ScopeCancels(c)
  PROVE  AsyncInv'
<1> DEFINE j == Min(SiblingsLeft(c))
<1>1. /\ kind[c] = "scope" /\ pc[c] = "cancel" /\ call[c] = Idle
      /\ UNCHANGED <<kind, inputs, cancels, got, pick, hpc, winner>>
  BY DEF ScopeCancels, At
<1>2. /\ TaskInv /\ ShapeTypes /\ ProgTypes /\ TaskOk(c)
      /\ Indices(c) = 1..Len(inputs[c]) /\ Len(inputs[c]) \in Nat /\ cur[c] \in Nat
      /\ \A k \in Indices(c) : Input(c, k) \in Tasks /\ Input(c, k) # c
  BY Known
<1>3. Errors(c) # {}
  BY <1>1, <1>2 DEF TaskOk, Joined
<1>4. Errors(c)' = Errors(c)
  BY <1>1 DEF Errors, IsErr
<1>5. ASSUME UNCHANGED taskVars, pc' = [pc EXCEPT ![c] = pc'[c]], pc'[c] \in {"cancel", "await"},
             cur' = [cur EXCEPT ![c] = cur'[c]], cur'[c] \in Indices(c) \cup {0}
      PROVE  AsyncInv'
  <2>1. /\ Indices(c)' = Indices(c) /\ kind'[c] = kind[c]
        /\ \A k : Input(c, k)' = Input(c, k)
        /\ \A x : Done(x)' = Done(x) /\ Busy(c, x)' = Busy(c, x)
        /\ UNCHANGED <<runner, result, doneCh, call>>
    BY <1>1, <1>5, Frame
  <2>2. ProgTypes' /\ \A d \in Tasks \ {c} : Still(d)
    <3>1. pc'[c] \in Pcs /\ cur'[c] \in Nat
      BY <1>2, <1>5 DEF Pcs
    <3>2. pc' \in [Tasks -> Pcs] /\ \A d \in Tasks \ {c} : pc'[d] = pc[d]
      BY <1>2, <1>5, <3>1 DEF ProgTypes
    <3>3. cur' \in [Tasks -> Nat] /\ \A d \in Tasks \ {c} : cur'[d] = cur[d]
      BY <1>2, <1>5, <3>1 DEF ProgTypes
    <3>4. QED
      BY <1>1, <1>2, <3>2, <3>3 DEF ProgTypes, Still, Parked
  <2>3. \A x : ~Busy(c, x)
    BY <1>1, IdleFree
  <2>4. Local(c)'
    <3>1. pc'[c] \in Places(kind'[c])
      BY <1>1, <1>5, <2>1 DEF Places
    <3>2. QED
      BY <1>1, <1>2, <1>5, <2>1, <2>3, <3>1 DEF TaskOk, Local
  <2>5. Swept(c)' /\ Collected(c)' /\ Picked(c)'
    BY <1>1, <2>1 DEF Swept, Collected, Picked, Combinators
  <2>6. Joined(c)'
    <3>1. CancelledByOther(c)' <=> CancelledByOther(c)
      BY <2>1 DEF CancelledByOther, Settles
    <3>2. \A k, s : Settles(c, k, s)' <=> Settles(c, k, s)
      BY <2>1 DEF Settles
    <3>3. QED
      BY <1>1, <1>2, <1>3, <1>4, <1>5, <2>1, <3>1, <3>2 DEF TaskOk, Joined, Settles
  <2>7. QED
    BY <1>1, <1>5, <2>2, <2>4, <2>5, <2>6, StepOk
<1>6. CASE SiblingsLeft(c) = {}
  <2>1. pc' = [pc EXCEPT ![c] = "await"] /\ cur' = cur /\ UNCHANGED taskVars
    BY <1>6 DEF ScopeCancels, Goto
  <2>2. pc'[c] = "await" /\ cur'[c] \in Indices(c) \cup {0}
    BY <1>2, <2>1 DEF ProgTypes, TaskOk, Local
  <2>3. cur' = [cur EXCEPT ![c] = cur'[c]]
    BY <1>2, <2>1 DEF ProgTypes
  <2>4. QED
    BY <1>5, <2>1, <2>2, <2>3
<1>7. CASE SiblingsLeft(c) # {}
  <2>1. j \in SiblingsLeft(c)
    <3>1. SiblingsLeft(c) \subseteq Nat
      BY <1>2 DEF SiblingsLeft
    <3>2. QED
      BY <1>7, <3>1, MinFacts
  <2>2. /\ IF Done(Input(c, j)) THEN UNCHANGED taskVars ELSE Cancel(c, Input(c, j))
        /\ cur' = [cur EXCEPT ![c] = j] /\ pc' = pc
    BY <1>7 DEF ScopeCancels
  <2> HIDE DEF j
  <2>3. j \in Indices(c) /\ j \in Nat /\ Input(c, j) \in Tasks /\ Input(c, j) # c
    BY <1>2, <2>1 DEF SiblingsLeft
  <2>4. cur'[c] = j /\ pc' = [pc EXCEPT ![c] = pc'[c]] /\ pc'[c] = "cancel"
    BY <1>1, <1>2, <2>2 DEF ProgTypes
  <2>5. CASE UNCHANGED taskVars
    BY <1>5, <2>2, <2>3, <2>4, <2>5
  <2>6. CASE Cancel(c, Input(c, j))
    <3>1. Cancelled \in Results
      BY TaskAssumption
    <3>2. /\ TaskInv' /\ UNCHANGED <<runner, result, doneCh>>
          /\ \A x : Busy(c, x)' <=> x = Input(c, j)
          /\ \A d \in Tasks \ {c} : call'[d] = call[d]
      BY <1>2, <2>3, <2>6, <3>1, Starts
    <3>3. ProgTypes' /\ \A d \in Tasks \ {c} : Still(d)
      BY <1>1, <1>2, <2>2, <2>3 DEF ProgTypes, Still, Parked
    <3>4. /\ Indices(c)' = Indices(c) /\ kind'[c] = kind[c]
          /\ \A i : Input(c, i)' = Input(c, i) /\ Done(Input(c, i))' = Done(Input(c, i))
      BY <1>1, <3>2 DEF Indices, Input, Done
    <3>5. Local(c)'
      BY <1>1, <1>2, <2>2, <2>3, <2>4, <3>2, <3>4 DEF TaskOk, Local
    <3>6. Swept(c)' /\ Collected(c)' /\ Picked(c)'
      BY <1>1, <3>4 DEF Swept, Collected, Picked, Combinators
    <3>7. Joined(c)'
      <4>1. CancelledByOther(c)' <=> CancelledByOther(c)
        BY <3>2, <3>4 DEF CancelledByOther, Settles
      <4>2. QED
        BY <1>1, <1>2, <1>3, <1>4, <2>4, <3>2, <3>4, <4>1 DEF TaskOk, Joined, Settles
    <3>8. Told(c)'
      BY <1>1, <1>2, <2>4, <3>2, <3>5, NotYet
    <3>9. QED
      BY <1>1, <3>2, <3>3, <3>5, <3>6, <3>7, <3>8, OneMoves DEF TaskOk, Moves
  <2>7. QED
    BY <2>2, <2>5, <2>6
<1>8. QED
  BY <1>6, <1>7

-----------------------------------------------------------------------------
(***************************************************************************)
(* The invariant and what follows from it.                                 *)
(***************************************************************************)
\* The invariant holds when the program starts.
LEMMA InitOk ==
  ASSUME Init
  PROVE  AsyncInv
<1>1. TaskInv
  BY IdleFacts, TaskAssumption DEF Init, TaskInit, TaskInv, TaskTypeOK, OnceInv
<1>2. PICK s \in Shapes : kind = s.kind /\ inputs = s.inputs /\ cancels = s.cancels
  BY DEF Init
<1>3. ShapeTypes
  BY <1>2, AsyncAssumption DEF ShapeTypes, Indices, Input
<1>4. ASSUME NEW t \in Tasks
      PROVE  /\ pc[t] = FirstPc(kind[t]) /\ got[t] = <<>> /\ pick[t] = 0 /\ cur[t] = 0
             /\ hpc[t] = [i \in Indices(t) |-> "none"] /\ winner[t] = <<>>
             /\ kind[t] \in Kinds /\ inputs[t] \in Seq(Tasks)
             /\ runner[t] = NoProc /\ call[t] = Idle
  BY <1>3, AsyncAssumption DEF Init, TaskInit, Indices, ShapeTypes
<1>5. \A t \in Tasks : pc[t] \in Places(kind[t]) /\ FirstPc(kind[t]) \in Pcs
  BY <1>4 DEF FirstPc, Places, Kinds, Pcs
<1>6. ProgTypes
  <2>1. <<>> \in Seq(Results) /\ <<>> \in Seq(Nat)
    OBVIOUS
  <2>2. pc \in [Tasks -> Pcs]
    BY <1>4, <1>5 DEF Init
  <2>3. QED
    BY <2>1, <2>2 DEF Init, ProgTypes
<1>7. ASSUME NEW c \in Tasks PROVE TaskOk(c)
  <2>1. Len(inputs[c]) \in Nat /\ Len(got[c]) = 0 /\ DOMAIN got[c] = {} /\ DOMAIN winner[c] = {}
    <3>1. got[c] = <<>> /\ winner[c] = <<>> /\ inputs[c] \in Seq(Tasks)
      BY <1>4
    <3>2. QED
      BY <3>1
  <2>2. runner[c] # c /\ \A x \in Tasks : runner[x] # c
    BY ZenonT(30), <1>4, <1>7, AsyncAssumption, TaskAssumption
  <2>3. \A x : ~Busy(c, x)
    BY <1>4, <1>7, IdleFree
  <2>4. Local(c)
    <3>1. hpc[c] \in [Indices(c) -> Helping] /\ \A i \in Indices(c) : hpc[c][i] = "none"
      BY <1>4, <1>7 DEF Helping
    <3>2. pick[c] = 0 /\ cur[c] = 0 /\ pc[c] \in Places(kind[c])
      BY <1>4, <1>5
    <3>3. Len(got[c]) <= Len(inputs[c]) + (IF kind[c] = "scope" THEN 1 ELSE 0)
      <4>1. \A n \in Nat, k \in {0, 1} : 0 <= n + k
        OBVIOUS
      <4>2. QED
        BY <2>1, <4>1
    <3>4. QED
      BY <2>1, <2>3, <3>1, <3>2, <3>3 DEF Local
  <2>5. pc[c] # "cancel" /\ pc[c] # "report" /\ (pc[c] = "done" => kind[c] = "token")
    BY <1>4, <1>7 DEF FirstPc, Kinds
  <2>6. Swept(c)
    BY <2>5 DEF Swept, Combinators
  <2>7. Collected(c)
    BY <1>4, <1>7, <2>1, <2>5 DEF Collected
  <2>8. Picked(c)
    BY <1>4, <1>7, <2>2, <2>3, <2>5 DEF Picked
  <2>9. Joined(c)
    <3>1. Errors(c) = {}
      BY <1>4, <1>7, <2>1 DEF Errors
    <3>2. kind[c] = "scope" => pc[c] = "body"
      BY <1>4, <1>7 DEF FirstPc
    <3>3. QED
      BY <1>4, <1>7, <2>1, <2>2, <2>3, <3>1, <3>2 DEF Joined
  <2>10. Told(c)
    BY <2>2, <2>3 DEF Told
  <2>11. QED
    BY <2>4, <2>6, <2>7, <2>8, <2>9, <2>10 DEF TaskOk
<1>8. QED
  BY <1>1, <1>3, <1>6, <1>7 DEF AsyncInv

\* Every step of the program keeps the invariant.
LEMMA NextOk ==
  ASSUME AsyncInv, ListsAreResults, [Next]_vars
  PROVE  AsyncInv'
<1>1. ASSUME NEW t \in Tasks, Producer(t) PROVE AsyncInv'
  BY <1>1, RunOk, SleepCancelledOk, AllCollectOk, AllSucceedsOk, CancelSiblingOk, AllFailsOk, RaceSpawnOk,
     RacePicksOk, RaceReportsOk, TimeoutEndsOk, TimeoutFiresOk, ScopeCancelsOk, ScopeAwaitsOk, ScopeEndsOk
     DEF Producer
<1>2. ASSUME NEW t \in Tasks, RunReturns(t) \/ ScopeBody(t) \/ UserCancel(t) PROVE AsyncInv'
  BY <1>2, RunOk, ScopeBodyOk, UserCancelOk
<1>3. CASE Next
  BY <1>1, <1>2, <1>3, GoroutineOk, HelperOk DEF Next, System
<1>4. CASE UNCHANGED vars
  <2>1. TaskInv /\ ShapeTypes /\ ProgTypes
    BY DEF AsyncInv
  <2>2. UNCHANGED taskVars /\ UNCHANGED progVars
    BY <1>4 DEF vars
  <2>3. ASSUME NEW d \in Tasks PROVE TaskOk(d)'
    <3>1. Quiet(d)
      BY <2>2, OtherQuiet, AsyncAssumption DEF taskVars
    <3>2. Still(d) /\ TaskOk(d)
      BY <2>2 DEF progVars, Still, Parked, AsyncInv
    <3>3. QED
      BY <2>1, <2>2, <3>1, <3>2, QuietOk DEF progVars
  <2>4. ShapeTypes' /\ ProgTypes'
    BY <2>1, <2>2 DEF progVars, ShapeTypes, ProgTypes, Indices, Input
  <2>5. QED
    BY <2>1, <2>2, <2>3, <2>4, TaskSame DEF AsyncInv
<1>5. QED
  BY <1>3, <1>4

\* What every producer of an async built-in is doing, in every program: where it is in
\* its handler and what it has made of its inputs there, whatever else the script and
\* the other goroutines do with these tasks.
THEOREM AsyncInvariant ==
  ASSUME ListsAreResults
  PROVE  Spec => []AsyncInv
<1>1. Init => AsyncInv
  BY InitOk
<1>2. AsyncInv /\ [Next]_vars => AsyncInv'
  BY NextOk
<1>3. QED
  BY <1>1, <1>2, PTL DEF Spec

\* Task objects and program counters keep their types in every program.
THEOREM AsyncTypes ==
  ASSUME ListsAreResults
  PROVE  Spec => []TypeOK
<1>1. AsyncInv => TypeOK
  <2>1. SUFFICES ASSUME AsyncInv PROVE TypeOK
    OBVIOUS
  <2>2. TaskTypeOK /\ pc \in [Tasks -> Pcs]
    BY <2>1 DEF AsyncInv, TaskInv, ProgTypes
  <2>3. \A c \in Tasks : Local(c)
    BY <2>1 DEF AsyncInv, TaskOk
  <2>4. QED
    BY <2>2, <2>3 DEF TypeOK, Local, Helping
<1>2. QED
  BY <1>1, AsyncInvariant, PTL

\* async.all, async.race and async.timeout leave no input pending when they report,
\* also one that another goroutine is completing at that moment.
THEOREM InputsSettledHolds ==
  ASSUME ListsAreResults
  PROVE  Spec => []InputsSettled
<1>1. AsyncInv => InputsSettled
  BY DEF AsyncInv, TaskOk, Swept, InputsSettled, Combinators
<1>2. QED
  BY <1>1, AsyncInvariant, PTL

\* async.all and async.race cancel an input only when another one has an outcome that is
\* not their doing.
THEOREM CancelsOnlyAfterOutcomeHolds ==
  ASSUME ListsAreResults
  PROVE  Spec => []CancelsOnlyAfterOutcome
<1>1. AsyncInv => CancelsOnlyAfterOutcome
  <2>1. SUFFICES ASSUME AsyncInv, NEW c \in Combinators, NEW i \in Indices(c),
                        kind[c] # "timeout", runner[Input(c, i)] = c
                 PROVE  /\ pick[c] # 0
                        /\ Done(Input(c, pick[c]))
                        /\ runner[Input(c, pick[c])] # c
    BY DEF CancelsOnlyAfterOutcome
  <2>2. c \in Tasks /\ kind[c] \in {"all", "race"}
    BY <2>1 DEF Combinators
  <2>3. Input(c, i) \in Tasks /\ Input(c, i) # c /\ TaskOk(c)
    BY <2>1, <2>2, Known
  <2>4. QED
    BY <2>1, <2>2, <2>3 DEF TaskOk, Picked
<1>2. QED
  BY <1>1, AsyncInvariant, PTL

\* What a combinator reports is the outcome of its inputs: of async.all every value in
\* list order or the first error of the list, of async.race that of one input, of
\* async.timeout that of its input or the timeout.
THEOREM OutcomeOkHolds ==
  ASSUME ListsAreResults
  PROVE  Spec => []OutcomeOk
<1>1. AsyncInv => OutcomeOk
  <2>1. SUFFICES ASSUME AsyncInv, NEW c \in Combinators, Done(c), runner[c] = c
                 PROVE  OutcomeOf(c, result[c])
    BY DEF OutcomeOk
  <2>2. c \in Tasks /\ kind[c] \in {"all", "race", "timeout"}
    BY DEF Combinators
  <2>3. Reported(c, result[c])
    BY <2>1, <2>2 DEF AsyncInv, TaskOk, Told, Ending
  <2>4. CASE kind[c] = "all"
    BY <2>3, <2>4 DEF Reported, OutcomeOf, Settles
  <2>5. CASE kind[c] = "race"
    BY <2>3, <2>5 DEF Reported, OutcomeOf, Settles
  <2>6. CASE kind[c] = "timeout"
    BY <2>3, <2>6 DEF Reported, OutcomeOf, Settles
  <2>7. QED
    BY <2>2, <2>4, <2>5, <2>6
<1>2. QED
  BY <1>1, AsyncInvariant, PTL

\* A scope joins its children before it ends, cancels them only when it fails, and never
\* reports a cancellation of its own making.
THEOREM ScopeJoinsHolds ==
  ASSUME ListsAreResults
  PROVE  Spec => []ScopeJoins
<1>1. AsyncInv => ScopeJoins
  <2>1. SUFFICES ASSUME AsyncInv, NEW c \in Scopes, pc[c] = "done", Done(c), runner[c] = c
                 PROVE  LET r == result[c]
                            ours == {i \in Indices(c) : runner[Input(c, i)] = c} IN
                        /\ ~IsErr(r) \/ IsRuntimeError(r) => \A i \in Indices(c) : Done(Input(c, i))
                        /\ ours # {} => IsErr(r)
                        /\ r = Cancelled => \E i \in Indices(c) \ ours : result[Input(c, i)] = Cancelled
    BY DEF ScopeJoins
  <2>2. c \in Tasks
    BY DEF Scopes
  <2>3. ScopeReported(c, result[c])
    BY <2>1, <2>2 DEF AsyncInv, TaskOk, Told, Ending
  <2>4. \A i \in Indices(c) : Input(c, i) \in Tasks /\ Input(c, i) # c
    BY <2>1, <2>2, Known
  <2>5. QED
    BY <2>3, <2>4 DEF ScopeReported, CancelledByOther, Settles
<1>2. QED
  BY <1>1, AsyncInvariant, PTL

\* A call that a goroutine of the program starts is one that runtime.Task allows.
LEMMA CallsAllowed ==
  ASSUME TaskInv, TaskInv', NEW p \in Procs, NEW t, NEW r, Complete(p, t, r) \/ Cancel(p, t)
  PROVE  TaskNext
<1>1. call'[p].at # "idle" /\ call'[p].task = t
  BY DEF Complete, Cancel, TaskInv, TaskTypeOK, InCall
<1>2. t \in Tasks /\ call'[p].res \in Results
  BY <1>1 DEF TaskInv, OnceInv
<1>3. CASE Cancel(p, t)
  BY <1>2, <1>3 DEF TaskNext
<1>4. CASE Complete(p, t, r)
  <2>1. call'[p].res = r
    BY <1>4 DEF Complete, TaskInv, TaskTypeOK, InCall
  <2>2. QED
    BY <1>2, <1>4, <2>1 DEF TaskNext
<1>5. QED
  BY <1>3, <1>4

\* Every step of the program is a step of its tasks, or none.
LEMMA StepOfTasks ==
  ASSUME AsyncInv, AsyncInv', [Next]_vars
  PROVE  [TaskNext]_taskVars
<1>1. TaskInv /\ TaskInv' /\ Tasks \subseteq Procs /\ User \in Procs
  BY AsyncAssumption DEF AsyncInv
<1>2. ASSUME NEW t \in Tasks, Producer(t) \/ RunReturns(t) \/ ScopeBody(t) PROVE [TaskNext]_taskVars
  <2>1. \/ UNCHANGED taskVars
        \/ \E r : Complete(t, t, r)
        \/ \E x : Cancel(t, x)
    <3>1. CASE RunReturns(t)
      BY <3>1 DEF RunReturns
    <3>2. CASE SleepElapses(t) \/ SleepCancelled(t)
      BY <3>2 DEF SleepElapses, SleepCancelled
    <3>3. CASE AllCollect(t) \/ AllSucceeds(t) \/ AllFails(t)
      BY <3>3 DEF AllCollect, AllSucceeds, AllFails
    <3>4. CASE CancelSibling(t)
      BY <3>4 DEF CancelSibling
    <3>5. CASE RaceSpawn(t) \/ RacePicks(t) \/ RaceReports(t)
      BY <3>5 DEF RaceSpawn, RacePicks, RaceReports
    <3>6. CASE TimeoutInner(t) \/ TimeoutFires(t) \/ TimeoutReports(t)
      BY <3>6 DEF TimeoutInner, TimeoutFires, TimeoutReports
    <3>7. CASE ScopeBody(t)
      BY <3>7 DEF ScopeBody
    <3>8. CASE ScopeCancels(t)
      BY <3>8 DEF ScopeCancels
    <3>9. CASE ScopeAwaits(t)
      BY <3>9 DEF ScopeAwaits
    <3>10. CASE ScopeEnds(t)
      BY <3>10 DEF ScopeEnds
    <3>11. QED
      BY <1>2, <3>1, <3>2, <3>3, <3>4, <3>5, <3>6, <3>7, <3>8, <3>9, <3>10 DEF Producer
  <2>2. QED
    BY <1>1, <2>1, CallsAllowed
<1>3. ASSUME NEW t \in Tasks, UserCancel(t) PROVE TaskNext
  BY <1>1, <1>3, CallsAllowed DEF UserCancel
<1>4. ASSUME NEW c \in Tasks, NEW i \in Indices(c), Helper(c, i) PROVE UNCHANGED taskVars
  BY <1>4 DEF Helper, HelperSees, HelperSends
<1>5. ASSUME NEW p \in Procs, Goroutine(p) PROVE TaskNext
  BY <1>5 DEF Goroutine, TaskNext
<1>6. CASE Next
  BY <1>2, <1>3, <1>4, <1>5, <1>6 DEF Next, System
<1>7. CASE UNCHANGED vars
  BY <1>7 DEF vars
<1>8. QED
  BY <1>6, <1>7

\* Through all of the combinators, scopes and cancellations of a program every task
\* stays a write-once cell.
THEOREM AsyncIsFuture ==
  ASSUME ListsAreResults
  PROVE  Spec => FutureSafety
<1>1. Init => FutureOf!Init
  BY DEF Init, TaskInit, FutureOf!Init
<1>2. AsyncInv /\ AsyncInv' /\ [Next]_vars => [FutureOf!Next]_(FutureOf!vars)
  BY StepOfTasks, StepRefines DEF AsyncInv
<1>3. QED
  BY <1>1, <1>2, AsyncInvariant, PTL DEF Spec, FutureSafety, FutureOf!Safety
=============================================================================
