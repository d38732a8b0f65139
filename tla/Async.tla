------------------------------- MODULE Async --------------------------------
(***************************************************************************)
(* The async.* built-ins over runtime.Task: async.run, async.sleep,        *)
(* async.token and the combinators async.all, async.race and async.timeout *)
(* (internal/bytecode/vm_calls.go and internal/evaluator/eval_async.go),   *)
(* and the task groups of async.scope (stdlib/async/scope.gb).             *)
(*                                                                         *)
(* Every task but a token has one producer goroutine, which is named here  *)
(* after its task; a race also has one helper goroutine for each input.    *)
(* A program builds the tasks in some shape and cancels some of them, at   *)
(* any time and in any order.                                              *)
(***************************************************************************)
EXTENDS Task, Naturals, Sequences, FiniteSets, FiniteSetsExt

CONSTANTS Shapes,   \* the programs: records [kind, inputs, cancels]
          User      \* the goroutine of the script

\* Results.  A producer of t settles it with a value or an error of its own.
Ok(t) == [tag |-> "ok", of |-> t]
Fail(t) == [tag |-> "err", of |-> t]
Other(t) == [tag |-> "other", of |-> t]   \* an error that is no RuntimeError
TimedOut(t) == [tag |-> "timeout", of |-> t]

Kinds == {"run", "child", "sleep", "token", "all", "race", "timeout", "scope"}

\* The script has a goroutine of its own, and the tasks a combinator is given exist
\* before it does; async.timeout is given one.
ASSUME AsyncAssumption ==
  /\ Tasks \cup {User} \subseteq Procs
  /\ User \notin Tasks
  /\ Cancelled = [tag |-> "cancelled", of |-> NoTask]
  /\ \A t \in Tasks : {Ok(t), Fail(t), Other(t), TimedOut(t)} \subseteq Results
  /\ \A s \in Shapes :
       /\ s.kind \in [Tasks -> Kinds]
       /\ s.inputs \in [Tasks -> Seq(Tasks)]
       /\ s.cancels \subseteq Tasks
       /\ \A t \in Tasks : \A i \in DOMAIN s.inputs[t] : s.inputs[t][i] # t
       /\ \A t \in Tasks : s.kind[t] = "timeout" => Len(s.inputs[t]) = 1

VARIABLES
  kind,     \* kind[t]: the built-in that created t
  inputs,   \* inputs[t]: the tasks a combinator was given, in list order
  pc,       \* pc[t]: where the producer goroutine of t is
  got,      \* got[t]: the results async.all has collected; of a scope, the outcome of
            \* its body and then those of the children it has awaited
  pick,     \* pick[t]: the index of the failed input (all) or the winner (race)
  cur,      \* cur[t]: the last index the cancellation loop has visited
  hpc,      \* hpc[t][i]: where the i-th helper goroutine of a race is
  winner,   \* winner[t]: the buffered channel the helpers report on
  cancels   \* the tasks the script has still to cancel

progVars == <<kind, inputs, pc, got, pick, cur, hpc, winner, cancels>>
vars == <<taskVars, progVars>>

Gathered(rs) == [tag |-> "list", of |-> rs]
IsErr(r) == r.tag \in {"err", "other", "timeout", "cancelled"}

\* What "catch (RuntimeError e)" catches; the error of a cancelled task is one.
IsRuntimeError(r) == r.tag \in {"err", "cancelled"}

Indices(c) == DOMAIN inputs[c]
Input(c, i) == inputs[c][i]

FirstPc(k) ==
  CASE k \in {"run", "child", "sleep"} -> "work"
    [] k = "scope" -> "body"
    [] k = "token" -> "done"
    [] k = "race" -> "spawn"
    [] OTHER -> "await"

Init ==
  /\ TaskInit
  /\ \E s \in Shapes : kind = s.kind /\ inputs = s.inputs /\ cancels = s.cancels
  /\ pc = [t \in Tasks |-> FirstPc(kind[t])]
  /\ got = [t \in Tasks |-> <<>>]
  /\ pick = [t \in Tasks |-> 0]
  /\ cur = [t \in Tasks |-> 0]
  /\ hpc = [t \in Tasks |-> [i \in DOMAIN inputs[t] |-> "none"]]
  /\ winner = [t \in Tasks |-> <<>>]

At(t, k, l) == kind[t] = k /\ pc[t] = l /\ call[t] = Idle

Goto(t, l) == pc' = [pc EXCEPT ![t] = l]

-----------------------------------------------------------------------------
\* async.run, and a group's spawn: the script function returns or throws; it may also
\* run forever.  Only a scope tells errors by their class.
RunReturns(t) ==
  /\ \/ At(t, "run", "work") /\ \E r \in {Ok(t), Fail(t)} : Complete(t, t, r)
     \/ At(t, "child", "work") /\ \E r \in {Ok(t), Fail(t), Other(t)} : Complete(t, t, r)
  /\ Goto(t, "done")
  /\ UNCHANGED <<kind, inputs, cancels, got, pick, cur, hpc, winner>>

\* async.sleep: the select takes either branch when both are ready.
SleepElapses(t) ==
  /\ At(t, "sleep", "work")
  /\ Complete(t, t, Ok(t))
  /\ Goto(t, "done")
  /\ UNCHANGED <<kind, inputs, cancels, got, pick, cur, hpc, winner>>

SleepCancelled(t) ==
  /\ At(t, "sleep", "work")
  /\ cancelCh[t]
  /\ Goto(t, "done")
  /\ UNCHANGED <<taskVars, kind, inputs, cancels, got, pick, cur, hpc, winner>>

-----------------------------------------------------------------------------
\* Mutant: the error of an input is not looked at.
AllCollectUnchecked(c) ==
  LET i == Len(got[c]) + 1 IN
  /\ At(c, "all", "await")
  /\ i \in Indices(c)
  /\ Done(Input(c, i))
  /\ got' = [got EXCEPT ![c] = Append(@, result[Input(c, i)])]
  /\ UNCHANGED <<taskVars, kind, inputs, cancels, pc, pick, cur, hpc, winner>>

\* async.all awaits its inputs in list order and stops at the first error it meets.
AllCollect(c) ==
  LET i == Len(got[c]) + 1
      r == result[Input(c, i)] IN
  /\ At(c, "all", "await")
  /\ i \in Indices(c)
  /\ Done(Input(c, i))
  /\ got' = [got EXCEPT ![c] = Append(@, r)]
  /\ \/ ~IsErr(r) /\ UNCHANGED <<pc, pick>>
     \/ IsErr(r) /\ Goto(c, "cancel") /\ pick' = [pick EXCEPT ![c] = i]
  /\ UNCHANGED <<taskVars, kind, inputs, cancels, cur, hpc, winner>>

AllSucceeds(c) ==
  /\ At(c, "all", "await")
  /\ Len(got[c]) = Len(inputs[c])
  /\ Complete(c, c, Gathered(got[c]))
  /\ Goto(c, "done")
  /\ UNCHANGED <<kind, inputs, cancels, got, pick, cur, hpc, winner>>

\* The siblings the loop over the inputs has still to cancel.
SiblingsLeft(c) == {j \in Indices(c) : j > cur[c] /\ j # pick[c]}

CancelSibling(c) ==
  /\ pc[c] = "cancel" /\ kind[c] # "scope"
  /\ SiblingsLeft(c) # {}
  /\ LET j == Min(SiblingsLeft(c)) IN
       /\ Cancel(c, Input(c, j))
       /\ cur' = [cur EXCEPT ![c] = j]
  /\ UNCHANGED <<kind, inputs, cancels, pc, got, pick, hpc, winner>>

AllFails(c) ==
  /\ At(c, "all", "cancel")
  /\ SiblingsLeft(c) = {}
  /\ Complete(c, c, got[c][pick[c]])
  /\ Goto(c, "done")
  /\ UNCHANGED <<kind, inputs, cancels, got, pick, cur, hpc, winner>>

-----------------------------------------------------------------------------
RaceSpawn(c) ==
  /\ At(c, "race", "spawn")
  /\ hpc' = [hpc EXCEPT ![c] = [i \in Indices(c) |-> "wait"]]
  /\ Goto(c, "await")
  /\ UNCHANGED <<taskVars, kind, inputs, cancels, got, pick, cur, winner>>

HelperSees(c, i) ==
  /\ hpc[c][i] = "wait"
  /\ Done(Input(c, i))
  /\ hpc' = [hpc EXCEPT ![c][i] = "send"]
  /\ UNCHANGED <<taskVars, kind, inputs, cancels, pc, got, pick, cur, winner>>

\* Mutant: a channel with room for one winner only.
RoomForOne(c) == 1

\* The capacity of the winner channel: one place for each helper.
RoomForWinners(c) == Len(inputs[c])

\* Mutant: the helper closure captures the loop variable of the spawning loop.
HelperSendsLast(c, i) ==
  /\ hpc[c][i] = "send"
  /\ Len(winner[c]) < RoomForWinners(c)
  /\ winner' = [winner EXCEPT ![c] = Append(@, Len(inputs[c]))]
  /\ hpc' = [hpc EXCEPT ![c][i] = "exit"]
  /\ UNCHANGED <<taskVars, kind, inputs, cancels, pc, got, pick, cur>>

\* Mutant: the helper reports an index that is one too small.
HelperSendsBefore(c, i) ==
  /\ hpc[c][i] = "send"
  /\ Len(winner[c]) < RoomForWinners(c)
  /\ winner' = [winner EXCEPT ![c] = Append(@, i - 1)]
  /\ hpc' = [hpc EXCEPT ![c][i] = "exit"]
  /\ UNCHANGED <<taskVars, kind, inputs, cancels, pc, got, pick, cur>>

HelperSends(c, i) ==
  /\ hpc[c][i] = "send"
  /\ Len(winner[c]) < RoomForWinners(c)
  /\ winner' = [winner EXCEPT ![c] = Append(@, i)]
  /\ hpc' = [hpc EXCEPT ![c][i] = "exit"]
  /\ UNCHANGED <<taskVars, kind, inputs, cancels, pc, got, pick, cur>>

RacePicks(c) ==
  /\ At(c, "race", "await")
  /\ winner[c] # <<>>
  /\ pick' = [pick EXCEPT ![c] = Head(winner[c])]
  /\ winner' = [winner EXCEPT ![c] = Tail(@)]
  /\ Goto(c, "cancel")
  /\ UNCHANGED <<taskVars, kind, inputs, cancels, got, cur, hpc>>

RaceReports(c) ==
  /\ At(c, "race", "cancel")
  /\ SiblingsLeft(c) = {}
  /\ Done(Input(c, pick[c]))
  /\ Complete(c, c, result[Input(c, pick[c])])
  /\ Goto(c, "done")
  /\ UNCHANGED <<kind, inputs, cancels, got, pick, cur, hpc, winner>>

-----------------------------------------------------------------------------
\* async.timeout: the inner task finished; its outcome is passed on.
TimeoutInner(c) ==
  /\ At(c, "timeout", "await")
  /\ Done(Input(c, 1))
  /\ Complete(c, c, result[Input(c, 1)])
  /\ Goto(c, "done")
  /\ UNCHANGED <<kind, inputs, cancels, got, pick, cur, hpc, winner>>

\* The timer fires, possibly when the inner task has just finished.
TimeoutFires(c) ==
  /\ At(c, "timeout", "await")
  /\ Cancel(c, Input(c, 1))
  /\ Goto(c, "report")
  /\ UNCHANGED <<kind, inputs, cancels, got, pick, cur, hpc, winner>>

\* Mutant: the timer branch cancels the inner task and forgets the wrapper.
TimeoutForgets(c) ==
  /\ At(c, "timeout", "report")
  /\ Goto(c, "done")
  /\ UNCHANGED <<taskVars, kind, inputs, cancels, got, pick, cur, hpc, winner>>

TimeoutReports(c) ==
  /\ At(c, "timeout", "report")
  /\ Complete(c, c, TimedOut(c))
  /\ Goto(c, "done")
  /\ UNCHANGED <<kind, inputs, cancels, got, pick, cur, hpc, winner>>

-----------------------------------------------------------------------------
\* The errors the body of a scope can throw: its own, or that of a child it awaits.
BodyErrors(c) ==
  {Fail(c), Other(c)} \cup
  {r \in {result[Input(c, i)] : i \in {j \in Indices(c) : Done(Input(c, j))}} : IsErr(r)}

\* The body of a scope, which has spawned its children, returns or throws; it may also
\* run forever.  An error of another class than RuntimeError leaves the scope at once.
ScopeBody(c) ==
  /\ At(c, "scope", "body")
  /\ \E r \in {Ok(c)} \cup BodyErrors(c) :
       IF IsErr(r) /\ ~IsRuntimeError(r)
       THEN Complete(c, c, r) /\ Goto(c, "done") /\ UNCHANGED got
       ELSE /\ got' = [got EXCEPT ![c] = <<r>>]
            /\ Goto(c, IF IsErr(r) THEN "cancel" ELSE "await")
            /\ UNCHANGED taskVars
  /\ UNCHANGED <<kind, inputs, cancels, pick, cur, hpc, winner>>

\* The errors among the outcomes the scope has; the first one counts.
Errors(c) == {i \in DOMAIN got[c] : IsErr(got[c][i])}

\* TaskGroup.cancel goes through the children and cancels those that are not done.
ScopeCancels(c) ==
  /\ At(c, "scope", "cancel")
  /\ IF SiblingsLeft(c) = {} THEN Goto(c, "await") /\ UNCHANGED <<taskVars, cur>>
     ELSE LET j == Min(SiblingsLeft(c)) IN
            /\ IF Done(Input(c, j)) THEN UNCHANGED taskVars ELSE Cancel(c, Input(c, j))
            /\ cur' = [cur EXCEPT ![c] = j]
            /\ UNCHANGED pc
  /\ UNCHANGED <<kind, inputs, cancels, got, pick, hpc, winner>>

\* Mutant: the error of a child ends the drain.
ScopeAwaitsToFirstError(c) ==
  LET i == Len(got[c])
      r == result[Input(c, i)] IN
  /\ At(c, "scope", "await")
  /\ i \in Indices(c)
  /\ Done(Input(c, i))
  /\ IF IsErr(r)
     THEN Complete(c, c, r) /\ Goto(c, "done") /\ UNCHANGED got
     ELSE got' = [got EXCEPT ![c] = Append(@, r)] /\ UNCHANGED <<taskVars, pc>>
  /\ UNCHANGED <<kind, inputs, cancels, pick, cur, hpc, winner>>

\* The drain awaits the children in order; the first RuntimeError cancels the rest.
ScopeAwaits(c) ==
  LET i == Len(got[c])
      r == result[Input(c, i)] IN
  /\ At(c, "scope", "await")
  /\ i \in Indices(c)
  /\ Done(Input(c, i))
  /\ IF IsErr(r) /\ ~IsRuntimeError(r)
     THEN Complete(c, c, r) /\ Goto(c, "done") /\ UNCHANGED got
     ELSE /\ got' = [got EXCEPT ![c] = Append(@, r)]
          /\ IF IsErr(r) /\ Errors(c) = {} THEN Goto(c, "cancel") ELSE UNCHANGED pc
          /\ UNCHANGED taskVars
  /\ UNCHANGED <<kind, inputs, cancels, pick, cur, hpc, winner>>

\* All children are drained: the first error is rethrown, or the body's result returned.
ScopeEnds(c) ==
  /\ At(c, "scope", "await")
  /\ Len(got[c]) = Len(inputs[c]) + 1
  /\ Complete(c, c, IF Errors(c) = {} THEN Ok(c) ELSE got[c][Min(Errors(c))])
  /\ Goto(c, "done")
  /\ UNCHANGED <<kind, inputs, cancels, got, pick, cur, hpc, winner>>

-----------------------------------------------------------------------------
\* task.cancel() / async.cancel(task) from the script, at any time.
UserCancel(t) ==
  /\ t \in cancels
  /\ Cancel(User, t)
  /\ cancels' = cancels \ {t}
  /\ UNCHANGED <<kind, inputs, pc, got, pick, cur, hpc, winner>>

Goroutine(p) == CallStep(p) /\ UNCHANGED progVars

\* The steps of t's producer that the runtime itself drives.
Producer(t) ==
  \/ SleepElapses(t)
  \/ SleepCancelled(t)
  \/ AllCollect(t)
  \/ AllSucceeds(t)
  \/ CancelSibling(t)
  \/ AllFails(t)
  \/ RaceSpawn(t)
  \/ RacePicks(t)
  \/ RaceReports(t)
  \/ TimeoutInner(t)
  \/ TimeoutFires(t)
  \/ TimeoutReports(t)
  \/ ScopeCancels(t)
  \/ ScopeAwaits(t)
  \/ ScopeEnds(t)

Helper(c, i) == HelperSees(c, i) \/ HelperSends(c, i)

\* Everything the Go runtime drives.
System ==
  \/ \E p \in Procs : Goroutine(p)
  \/ \E t \in Tasks : Producer(t)
  \/ \E c \in Tasks : \E i \in Indices(c) : Helper(c, i)

Next ==
  \/ System
  \/ \E t \in Tasks : RunReturns(t) \/ ScopeBody(t) \/ UserCancel(t)

Spec == Init /\ [][Next]_vars

(***************************************************************************)
(* The Go scheduler runs every runnable goroutine and timers fire; nothing *)
(* makes the script's own functions return or the script cancel anything.  *)
(* A behaviour has finitely many steps, so fairness of the whole is        *)
(* fairness of each goroutine.                                             *)
(***************************************************************************)
FairSpec == Spec /\ WF_vars(System)

-----------------------------------------------------------------------------
Pcs == {"work", "body", "spawn", "await", "cancel", "report", "done"}

\* Types of the task objects and of the goroutines' program counters.
TypeOK ==
  /\ TaskTypeOK
  /\ pc \in [Tasks -> Pcs]
  /\ \A c \in Tasks :
       /\ Len(got[c]) <= Len(inputs[c]) + (IF kind[c] = "scope" THEN 1 ELSE 0)
       /\ pick[c] \in Indices(c) \cup {0}
       /\ cur[c] \in Indices(c) \cup {0}
       /\ \A i \in DOMAIN winner[c] : winner[c][i] \in Indices(c)
       /\ hpc[c] \in [Indices(c) -> {"none", "wait", "send", "exit"}]

Combinators == {c \in Tasks : kind[c] \in {"all", "race", "timeout"}}
Scopes == {c \in Tasks : kind[c] = "scope"}

\* When a combinator's goroutine has reported its outcome, no input is still
\* pending: Cancel returns only when the task it cancels is settled, also when
\* another goroutine is in the middle of completing it.
InputsSettled ==
  \A c \in Combinators : pc[c] = "done" =>
    \A i \in Indices(c) : Done(Input(c, i))

\* async.all and async.race settle an input by cancelling it only after another
\* input has an outcome, which is the outcome they report; they never report a
\* cancellation of their own making.
CancelsOnlyAfterOutcome ==
  \A c \in Combinators : \A i \in Indices(c) :
    kind[c] # "timeout" /\ runner[Input(c, i)] = c =>
      /\ pick[c] # 0
      /\ Done(Input(c, pick[c]))
      /\ runner[Input(c, pick[c])] # c

\* What a combinator reports of its inputs: async.all either every input's value,
\* in list order, or the error of an input before which all others succeeded;
\* async.race and async.timeout (before the timer) the outcome of one input.
OutcomeOf(c, r) ==
  LET of(i) == result[Input(c, i)]
      ok(i) == Done(Input(c, i)) /\ ~IsErr(of(i)) IN
  CASE kind[c] = "all" ->
         \/ r = Gathered([i \in Indices(c) |-> of(i)]) /\ \A i \in Indices(c) : ok(i)
         \/ \E i \in Indices(c) :
              r = of(i) /\ IsErr(r) /\ \A j \in 1..(i - 1) : ok(j)
    [] kind[c] = "race" -> \E i \in Indices(c) : r = of(i)
    [] OTHER -> r \in {of(1), TimedOut(c)}

OutcomeOk ==
  \A c \in Combinators : Done(c) /\ runner[c] = c => OutcomeOf(c, result[c])

\* A scope joins its children.  When it has ended, unless by an error that is no
\* RuntimeError, every child is settled; it has cancelled children only if it fails, and
\* then it reports an error of its body or of a child, never a cancellation of its own
\* making (scope.gb, scope and TaskGroup.cancel).
ScopeJoins ==
  \A c \in Scopes : pc[c] = "done" /\ Done(c) /\ runner[c] = c =>
    LET r == result[c]
        ours == {i \in Indices(c) : runner[Input(c, i)] = c} IN
    /\ ~IsErr(r) \/ IsRuntimeError(r) => \A i \in Indices(c) : Done(Input(c, i))
    /\ ours # {} => IsErr(r)
    /\ r = Cancelled => \E i \in Indices(c) \ ours : result[Input(c, i)] = Cancelled

\* A task that was asked to cancel is settled in the end, whoever else is using it.
CancelSettles == FutureOf!Progress

\* A combinator whose inputs are all settled settles in the end, and so does a scope
\* whose body has ended.
CombinatorSettles ==
  \A c \in Tasks :
    (c \in Combinators \cup Scopes /\ pc[c] # "body" /\ \A i \in Indices(c) : Done(Input(c, i))) ~> Done(c)

\* async.race leaks no goroutine: when it has reported its winner, every helper
\* ends, the ones of the losing inputs included.
HelpersExit ==
  \A c \in Tasks :
    (kind[c] = "race" /\ pc[c] = "done")
      ~> (\A i \in Indices(c) : hpc[c][i] = "exit")

\* What docs/user/stdlib/05-async.md says of async.all: if any task fails, the
\* rest are cancelled and the error re-thrown.  The code waits for the inputs
\* before it in the list first, so a failure behind a task that never finishes
\* is never reported.
AllFailsFast ==
  \A c \in Tasks :
    (kind[c] = "all" /\ \E i \in Indices(c) : Done(Input(c, i)) /\ IsErr(result[Input(c, i)]))
      ~> Done(c)
=============================================================================
