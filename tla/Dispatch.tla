------------------------------ MODULE Dispatch ------------------------------
(***************************************************************************)
(* The bytecode VM's dispatch loop (internal/bytecode/vm.go) on the        *)
(* opcodes of control flow, one action per opcode, for any bytecode whose  *)
(* depths agree on every path: what the compiler must give the VM, and     *)
(* what the VM then does with handlers, frames and deferred calls.         *)
(*                                                                         *)
(* frames[1] is the script itself, which vm.frames does not hold: frame    *)
(* depth d in the code is Len(frames) - 1 here.                            *)
(***************************************************************************)
EXTENDS Integers, Sequences, SequencesExt

CONSTANT Depths(_)   \* the depths of a bytecode's instructions, see below

VARIABLES
  script,    \* the script being run; script.code is its bytecode, per function
  ip,        \* the next instruction of the running function
  frames,    \* frames[d]: the function, the instruction to return to and the locals
  stack,     \* the value stack
  handlers,  \* exceptionHandlers: where to resume, at which frame and stack depth
  pending,   \* pendingThrow: the error on its way to a handler, "" when there is none
  defers,    \* defers[d]: the deferred prints of frame d
  out,       \* what the script has printed
  status     \* "running", "done", or "uncaught"

vars == <<script, ip, frames, stack, handlers, pending, defers, out, status>>

\* A frame's locals live in a window of localsStack of their own.
Frame(f, ret) == [fn |-> f, ret |-> ret, locals |-> [s \in {} |-> 0]]

\* A script starts.
Start ==
  /\ ip = 1
  /\ frames = <<Frame("main", 0)>>
  /\ stack = <<>>
  /\ handlers = <<>>
  /\ pending = ""
  /\ defers = << <<>> >>
  /\ out = <<>>
  /\ status = "running"

\* The instruction about to run.
Cur == script.code[Last(frames).fn][ip]

At(op) == status = "running" /\ Cur.op = op

Top == Last(stack)

SetLocal(slot, v) ==
  LET f == Last(frames)
  IN  frames' = [frames EXCEPT ![Len(frames)].locals =
                   [s \in DOMAIN f.locals \cup {slot} |-> IF s = slot THEN v ELSE f.locals[s]]]
Local(slot) == Last(frames).locals[slot]

\* What the defer levels above the d lowest print, innermost level first.
DeferredAbove(d) ==
  FlattenSeq([i \in 1..(Len(defers) - d) |-> Reverse(defers[Len(defers) + 1 - i])])

\* jumpToExceptionHandler with the throw err: the frames above the handler's are
\* dropped, each after its deferred calls; without a handler all deferred calls
\* run and the script ends.  printed is what the opcode printed before it threw.
JumpToExceptionHandler(err, printed) ==
  /\ pending' = err
  /\ IF handlers = <<>>
     THEN /\ out' = out \o printed \o DeferredAbove(0)
          /\ status' = "uncaught"
          /\ defers' = <<>>
          /\ UNCHANGED <<ip, frames, stack, handlers>>
     ELSE LET h == Last(handlers)
          IN  /\ out' = out \o printed \o DeferredAbove(h.frameDepth)
              /\ handlers' = Front(handlers)
              /\ frames' = SubSeq(frames, 1, h.frameDepth)
              /\ defers' = SubSeq(defers, 1, h.frameDepth)
              /\ stack' = SubSeq(stack, 1, h.stackDepth)
              /\ ip' = h.ip
              /\ UNCHANGED status

Step == ip' = ip + 1
Quiet == UNCHANGED <<script, handlers, pending, defers, status>>

OpConstant == At("Constant") /\ Step /\ stack' = Append(stack, Cur.v) /\ Quiet /\ UNCHANGED <<frames, out>>
OpPop == At("Pop") /\ Step /\ stack' = Front(stack) /\ Quiet /\ UNCHANGED <<frames, out>>
OpPrintln ==
  /\ At("Println") /\ Step
  /\ out' = Append(out, Top)
  /\ stack' = Front(stack)
  /\ Quiet /\ UNCHANGED frames

OpDefineLocal ==
  /\ At("DefineLocal") /\ Step
  /\ SetLocal(Cur.to, Top)
  /\ stack' = Front(stack)
  /\ Quiet /\ UNCHANGED out
OpGetLocal ==
  /\ At("GetLocal") /\ Step
  /\ stack' = Append(stack, Local(Cur.to))
  /\ Quiet /\ UNCHANGED <<frames, out>>

\* The counter of a while or for(;;) loop.
OpZero == At("Zero") /\ Step /\ SetLocal(Cur.to, 0) /\ Quiet /\ UNCHANGED <<stack, out>>
OpIncrement ==
  /\ At("Increment") /\ Step
  /\ SetLocal(Cur.to, Local(Cur.to) + 1)
  /\ Quiet /\ UNCHANGED <<stack, out>>
OpBelow ==
  /\ At("Below") /\ Step
  /\ stack' = Append(stack, Local(Cur.to) < Cur.v)
  /\ Quiet /\ UNCHANGED <<frames, out>>

OpJump == At("Jump") /\ ip' = Cur.to /\ Quiet /\ UNCHANGED <<frames, stack, out>>
OpJumpIfFalse ==
  /\ At("JumpIfFalse")
  /\ ip' = IF Top THEN ip + 1 ELSE Cur.to
  /\ stack' = Front(stack)
  /\ Quiet /\ UNCHANGED <<frames, out>>

\* An iterator counts what is left; a generator that is not exhausted is
\* suspended in a yield, and closing it shows.
OpIterInit ==
  /\ At("IterInit") /\ Step
  /\ SetLocal(Cur.to, [Cur.v EXCEPT !.left = @ + 1])
  /\ Quiet /\ UNCHANGED <<stack, out>>
OpIterNext ==
  /\ At("IterNext")
  /\ SetLocal(Cur.v, [Local(Cur.v) EXCEPT !.left = @ - 1])
  /\ ip' = IF Local(Cur.v).left > 1 THEN ip + 1 ELSE Cur.to
  /\ Quiet /\ UNCHANGED <<stack, out>>
OpIterClose ==
  /\ At("IterClose") /\ Step
  /\ LET it == Local(Cur.to)
     IN  out' = IF it.form = "generator" /\ it.left > 0 THEN Append(out, "closed") ELSE out
  /\ Quiet /\ UNCHANGED <<frames, stack>>

\* __enter; the slot keeps the error that __exit will throw, if any.
OpWithEnter ==
  /\ At("WithEnter") /\ Step
  /\ out' = Append(out, "enter")
  /\ SetLocal(Cur.to, Cur.v)
  /\ Quiet /\ UNCHANGED stack
OpWithExit ==
  /\ At("WithExit")
  /\ IF Local(Cur.to) # ""
     THEN JumpToExceptionHandler(Local(Cur.to), <<"exit">>)
     ELSE /\ Step
          /\ out' = Append(out, "exit")
          /\ UNCHANGED <<frames, stack, handlers, pending, defers, status>>
  /\ UNCHANGED script

OpPushExceptionHandler ==
  /\ At("PushHandler") /\ Step
  /\ handlers' = Append(handlers,
                        [ip |-> Cur.to, frameDepth |-> Len(frames), stackDepth |-> Len(stack)])
  /\ UNCHANGED <<script, frames, stack, pending, defers, out, status>>
OpPopExceptionHandler ==
  /\ At("PopHandler") /\ Step
  /\ handlers' = Front(handlers)
  /\ UNCHANGED <<script, frames, stack, pending, defers, out, status>>

OpThrow == At("Throw") /\ JumpToExceptionHandler(Top, <<>>) /\ UNCHANGED script

\* A runtime fault leaves the dispatch loop; with no handler left it ends the
\* script at once, otherwise it is thrown (routeRuntimeFault).
OpFault ==
  /\ At("Fault")
  /\ IF handlers = <<>>
     THEN /\ status' = "uncaught"
          /\ pending' = Cur.v
          /\ UNCHANGED <<ip, frames, stack, handlers, defers, out>>
     ELSE JumpToExceptionHandler(Cur.v, <<>>)
  /\ UNCHANGED script

\* A clause is for one class of errors, or for all; classes are unrelated here.
OpCatch ==
  /\ At("Catch")
  /\ IF pending # "" /\ Cur.v \notin {"", pending}
     THEN ip' = Cur.to /\ UNCHANGED pending
     ELSE Step /\ pending' = ""
  /\ UNCHANGED <<script, frames, stack, handlers, defers, out, status>>

OpRethrow ==
  /\ At("Rethrow")
  /\ IF pending = ""
     THEN Step /\ UNCHANGED <<frames, stack, handlers, pending, defers, out, status>>
     ELSE JumpToExceptionHandler(pending, <<>>)
  /\ UNCHANGED script

OpDeferPrintln ==
  /\ At("DeferPrintln") /\ Step
  /\ defers' = [defers EXCEPT ![Len(defers)] = Append(@, Top)]
  /\ stack' = Front(stack)
  /\ UNCHANGED <<script, frames, handlers, pending, out, status>>

\* Mutant of OpCall: the callee shares the defer level of its caller.
OpCallSharesDefers ==
  /\ At("Call")
  /\ frames' = Append(frames, Frame(Cur.v, ip + 1))
  /\ ip' = 1
  /\ UNCHANGED <<script, stack, handlers, pending, defers, out, status>>

\* startFunction: a frame and a defer level are pushed.
OpCall ==
  /\ At("Call")
  /\ frames' = Append(frames, Frame(Cur.v, ip + 1))
  /\ defers' = Append(defers, <<>>)
  /\ ip' = 1
  /\ UNCHANGED <<script, stack, handlers, pending, out, status>>

OpReturn ==
  /\ At("Return")
  /\ out' = out \o Reverse(Last(defers))
  /\ defers' = Front(defers)
  /\ IF Len(frames) = 1
     THEN status' = "done" /\ UNCHANGED <<ip, frames>>
     ELSE /\ ip' = Last(frames).ret
          /\ frames' = Front(frames)
          /\ UNCHANGED status
  /\ UNCHANGED <<script, stack, handlers, pending>>

Next ==
  \/ OpConstant \/ OpPop \/ OpPrintln \/ OpDefineLocal \/ OpGetLocal
  \/ OpZero \/ OpIncrement \/ OpBelow \/ OpJump \/ OpJumpIfFalse
  \/ OpIterInit \/ OpIterNext \/ OpIterClose \/ OpWithEnter \/ OpWithExit
  \/ OpPushExceptionHandler \/ OpPopExceptionHandler
  \/ OpThrow \/ OpFault \/ OpCatch \/ OpRethrow
  \/ OpDeferPrintln \/ OpCall \/ OpReturn

-----------------------------------------------------------------------------
(* Depths: for each function, a function from the instructions that can be   *)
(* reached to how many values it has on the stack there and which handlers   *)
(* it has pushed, each with where it resumes and how many values it keeps.   *)

Reached(d, i, values, tries) == i \in DOMAIN d /\ d[i] = [values |-> values, tries |-> tries]

\* A handler resumes with what it has kept, under the handlers pushed before it.
TriesKept(d, i) ==
  \A j \in DOMAIN d[i].tries :
    /\ d[i].tries[j].values <= d[i].values
    /\ Reached(d, d[i].tries[j].ip, d[i].tries[j].values, SubSeq(d[i].tries, 1, j - 1))

\* Every instruction finds what it takes, and its successors agree with it.
FlowKept(code, d, f, i) ==
  LET op == code[f][i].op
      to == code[f][i].to
      n == d[i].values
      hs == d[i].tries
  IN  /\ op \in {"Constant", "GetLocal", "Below", "Call"} => Reached(d, i + 1, n + 1, hs)
      /\ op \in {"Pop", "Println", "DefineLocal", "DeferPrintln", "JumpIfFalse"} =>
           n > 0 /\ Reached(d, i + 1, n - 1, hs)
      /\ op \in {"Zero", "Increment", "IterInit", "IterNext", "IterClose", "WithEnter", "WithExit",
                 "Catch", "Rethrow"} => Reached(d, i + 1, n, hs)
      /\ op \in {"Jump", "IterNext", "Catch", "PushHandler"} => Reached(d, to, n, hs)
      /\ op = "JumpIfFalse" => Reached(d, to, n - 1, hs)
      /\ op = "PushHandler" => Reached(d, i + 1, n, Append(hs, [ip |-> to, values |-> n]))
      /\ op = "PopHandler" => hs # <<>> /\ Reached(d, i + 1, n, Front(hs))
      /\ op = "Throw" => n > 0
      /\ op = "Call" => code[f][i].v \in DOMAIN code \ {"main"}
      /\ op = "Return" => hs = <<>> /\ n = IF f = "main" THEN 0 ELSE 1

Verified(code, depths) ==
  /\ "main" \in DOMAIN code
  /\ \A f \in DOMAIN code :
       LET d == depths[f]
       IN  /\ DOMAIN d \subseteq (Nat \ {0}) \cap DOMAIN code[f]
           /\ Reached(d, 1, 0, <<>>)
           /\ \A i \in DOMAIN d :
                /\ d[i] \in [values : Nat, tries : Seq([ip : Nat, values : Nat])]
                /\ TriesKept(d, i) /\ FlowKept(code, d, f, i)

\* What the VM takes for granted and checks nowhere, and the compiler's inlined finalizers
\* must see to on every path, the ones no run takes as well (compiler_statements.go
\* compileActiveFinalizers): wherever two paths meet they have the same values on the
\* stack and the same handlers, and a function returns with no handler left and its value
\* alone on its stack.
CodeVerified == Verified(script.code, Depths(script.code))

\* The dispatch loop on bytecode that is verified.
DispatchSpec == Start /\ CodeVerified /\ [][Next]_vars

-----------------------------------------------------------------------------
(* Properties. *)

\* No handler outlives its frame: every jump and return out of a try or with has
\* popped its handler, so that a later throw cannot resume in a function that has
\* returned (vm.go OpReturn does not look at exceptionHandlers), and a script that ends
\* has none left.
HandlersLive ==
  /\ \A i \in DOMAIN handlers :
       /\ handlers[i].frameDepth <= Len(frames)
       /\ handlers[i].stackDepth <= Len(stack)
       /\ i > 1 => handlers[i - 1].frameDepth <= handlers[i].frameDepth
  /\ status = "done" => handlers = <<>>

\* Every frame has its own level of deferred calls, and the value stack is empty when
\* the script ends: the inlined finalizers neither leak nor steal a level or a value
\* (vm.go addDefer and runDefers use the last level whatever frame is on top).
DefersAligned ==
  /\ status = "running" => Len(defers) = Len(frames)
  /\ status = "done" => stack = <<>>
=============================================================================
