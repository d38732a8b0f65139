------------------------------ MODULE Compiler ------------------------------
(***************************************************************************)
(* The bytecode compiler's statements (internal/bytecode/                  *)
(* compiler_statements.go): how loops, try / catch / finally, with, return,*)
(* break and continue become jumps, exception handlers and inlined         *)
(* finalizers.                                                             *)
(*                                                                         *)
(* The compiler's state c:                                                 *)
(*   c.code   the instructions so far; an instruction has an opcode, a     *)
(*            jump target or slot, and a value                             *)
(*   c.loops  the enclosing loops, innermost last                          *)
(*   c.fins   the enclosing finalizers, innermost last                     *)
(*   c.fn     TRUE inside a function, FALSE at the top level of the script *)
(* A local slot is named by the instruction that defines it.               *)
(***************************************************************************)
EXTENDS Evaluator

Ins(op, to, v) == [op |-> op, to |-> to, v |-> v]

EmitOp(c, op, to, v) == [c EXCEPT !.code = Append(@, Ins(op, to, v))]
Op(c, op) == EmitOp(c, op, 0, "")

\* The index of the next instruction.
Here(c) == Len(c.code) + 1

\* A jump whose target is not known yet carries a label, a negative number;
\* PatchJump gives every jump to the label its target.
BreakLabel(id) == -(2 * id)
EndLabel(id) == -(2 * id) - 1
PatchJump(c, label) ==
  LET here == Here(c)
  IN  [c EXCEPT !.code = [i \in DOMAIN @ |-> IF @[i].to = label THEN [@[i] EXCEPT !.to = here]
                                             ELSE @[i]]]

\* loopContext.  A continue jumps to cont, which is a label in a for(;;) loop:
\* its update is compiled after the body.
LoopContext(id, cont, c) == [id |-> id, cont |-> cont, depth |-> Len(c.fins)]

\* finalizerContext.  iter and with are slots, 0 when there is none; a context
\* keeps the loops that enclose the try, for the jumps in its finally block.
FinalizerContext(body, popHandler, iter, with, c) ==
  [body |-> body, popHandler |-> popHandler, iter |-> iter, with |-> with, loops |-> c.loops]
PushFinalizer(c, ctx) == [c EXCEPT !.fins = Append(@, ctx)]
PopFinalizer(c) == [c EXCEPT !.fins = Front(@)]

RECURSIVE CompileBlock(_, _), CompileStatement(_, _), CompileCatches(_, _, _, _),
          ActiveFinalizers(_, _, _, _)

CompileBlock(ss, c) ==
  IF ss = <<>> THEN c ELSE CompileBlock(Tail(ss), CompileStatement(Head(ss), c))

\* compileActiveFinalizers, innermost first, from fins[i] down to depth: a jump
\* out closes iterators, pops handlers and inlines the cleanup of every scope it
\* leaves.  Each is compiled with only the finalizers that enclose it.
ActiveFinalizers(c, i, depth, iterators) ==
  IF i <= depth THEN c
  ELSE LET ctx == c.fins[i]
           c0 == [c EXCEPT !.fins = SubSeq(@, 1, i - 1)]
           c1 == IF ctx.iter # 0 /\ iterators THEN EmitOp(c0, "IterClose", ctx.iter, "") ELSE c0
           c2 == IF ctx.popHandler THEN Op(c1, "PopHandler") ELSE c1
           c3 == IF ctx.with # 0 THEN EmitOp(c2, "WithExit", ctx.with, "") ELSE c2
           c4 == CompileBlock(ctx.body, [c3 EXCEPT !.loops = ctx.loops])
       IN  ActiveFinalizers([c4 EXCEPT !.loops = c.loops], i - 1, depth, iterators)

\* The finalizers of the current scope inlined, and the compiler's state restored.
Unwound(c, depth, iterators) ==
  [ActiveFinalizers(c, Len(c.fins), depth, iterators) EXCEPT !.fins = c.fins]

\* Mutant of CompileContinue: it closes the iterator it goes on with.
ContinueCloses(c) ==
  LET loop == Last(c.loops) IN EmitOp(Unwound(c, loop.depth, TRUE), "Jump", loop.cont, "")

\* Mutant of CompileBreak: the outermost finalizer of the loop's body is left out.
BreakKeepsOutermost(c) ==
  LET loop == Last(c.loops)
  IN  EmitOp(Unwound(c, loop.depth + 1, TRUE), "Jump", BreakLabel(loop.id), "")

\* break closes the loop's own iterator, continue keeps it.
CompileBreak(c) ==
  LET loop == Last(c.loops) IN EmitOp(Unwound(c, loop.depth, TRUE), "Jump", BreakLabel(loop.id), "")
CompileContinue(c) ==
  LET loop == Last(c.loops) IN EmitOp(Unwound(c, loop.depth, FALSE), "Jump", loop.cont, "")

\* Mutant of CompileReturn: the value is returned at once, past the finalizers.
ReturnSkipsFinalizers(s, c) == Op(EmitOp(c, "Constant", 0, s.v), "Return")

\* return: the value waits in a slot while the finalizers run.  At the top level
\* it is dropped.
CompileReturn(s, c) ==
  LET value == EmitOp(c, "Constant", 0, s.v)
      slot == Here(value)
  IN  IF ~c.fn THEN Op(Unwound(Op(value, "Pop"), 0, TRUE), "Return")
      ELSE IF c.fins = <<>> THEN Op(value, "Return")
      ELSE Op(EmitOp(Unwound(EmitOp(value, "DefineLocal", slot, ""), 0, TRUE),
                     "GetLocal", slot, ""), "Return")

\* if: a forward jump over each branch.
CompileIf(s, c) ==
  LET c1 == EmitOp(c, "Constant", 0, s.c)
      id == Here(c1)
      c2 == EmitOp(c1, "JumpIfFalse", BreakLabel(id), "")
      c3 == EmitOp(CompileBlock(s.yes, c2), "Jump", EndLabel(id), "")
  IN  PatchJump(CompileBlock(s.no, PatchJump(c3, BreakLabel(id))), EndLabel(id))

\* The body of a loop, with its context pushed.
LoopBody(s, loop, c) ==
  [CompileBlock(s.body, [c EXCEPT !.loops = Append(@, loop)]) EXCEPT !.loops = c.loops]

\* Mutant of CompileWhile: the exit is patched before the jump back is emitted.
WhilePatchedEarly(s, c) ==
  LET slot == Here(c)
      c1 == EmitOp(c, "Zero", slot, "")
      start == Here(c1)
      c2 == EmitOp(EmitOp(c1, "Below", slot, s.n), "JumpIfFalse", BreakLabel(start), "")
      c3 == LoopBody(s, LoopContext(start, start, c), EmitOp(c2, "Increment", slot, ""))
  IN  EmitOp(PatchJump(c3, BreakLabel(start)), "Jump", start, "")

\* while (i < n) { i++; body }
CompileWhile(s, c) ==
  LET slot == Here(c)
      c1 == EmitOp(c, "Zero", slot, "")
      start == Here(c1)
      c2 == EmitOp(EmitOp(c1, "Below", slot, s.n), "JumpIfFalse", BreakLabel(start), "")
      c3 == LoopBody(s, LoopContext(start, start, c), EmitOp(c2, "Increment", slot, ""))
  IN  PatchJump(EmitOp(c3, "Jump", start, ""), BreakLabel(start))

\* for (i = 0; i < n; i++) { body }: continue goes to the update.
CompileFor(s, c) ==
  LET slot == Here(c)
      c1 == EmitOp(c, "Zero", slot, "")
      start == Here(c1)
      c2 == EmitOp(EmitOp(c1, "Below", slot, s.n), "JumpIfFalse", BreakLabel(start), "")
      c3 == PatchJump(LoopBody(s, LoopContext(start, EndLabel(start), c), c2), EndLabel(start))
      c4 == EmitOp(EmitOp(c3, "Increment", slot, ""), "Jump", start, "")
  IN  PatchJump(c4, BreakLabel(start))

\* for-in: the iterator is a finalizer of the body, and is closed behind it.
CompileForIn(s, c) ==
  LET slot == Here(c)
      c1 == EmitOp(c, "IterInit", slot, [form |-> s.form, left |-> s.n])
      start == Here(c1)
      c2 == EmitOp(c1, "IterNext", EndLabel(start), slot)
      c3 == PushFinalizer(c2, FinalizerContext(<<>>, FALSE, slot, 0, c))
      c4 == PopFinalizer(LoopBody(s, LoopContext(start, start, c), c3))
      c5 == PatchJump(EmitOp(c4, "Jump", start, ""), EndLabel(start))
  IN  PatchJump(EmitOp(c5, "IterClose", slot, ""), BreakLabel(start))

\* The catch clauses: the body's finalizer is the finally block, without a handler.
CompileCatches(clauses, fin, end, c) ==
  IF clauses = <<>> THEN c
  ELSE LET id == Here(c)
           c1 == EmitOp(c, "Catch", BreakLabel(id), Head(clauses).class)
           c2 == CompileBlock(Head(clauses).body,
                              PushFinalizer(c1, FinalizerContext(fin, FALSE, 0, 0, c)))
           c3 == PatchJump(EmitOp(PopFinalizer(c2), "Jump", end, ""), BreakLabel(id))
       IN  CompileCatches(Tail(clauses), fin, end, c3)

\* try: the finally block is compiled twice, for the path that rethrows and for
\* the normal one (and once more at every jump out).
CompileTry(s, c) ==
  LET id == Here(c)
      c1 == PushFinalizer(EmitOp(c, "PushHandler", BreakLabel(id), ""),
                          FinalizerContext(s.fin, TRUE, 0, 0, c))
      c2 == Op(PopFinalizer(CompileBlock(s.body, c1)), "PopHandler")
      c3 == PatchJump(EmitOp(c2, "Jump", EndLabel(id), ""), BreakLabel(id))
      c4 == CompileCatches(s.catches, s.fin, EndLabel(id), c3)
      c5 == Op(CompileBlock(s.fin, c4), "Rethrow")
  IN  CompileBlock(s.fin, PatchJump(c5, EndLabel(id)))

\* with: __enter, and __exit on the normal path and behind the handler.
CompileWith(s, c) ==
  LET slot == Here(c)
      c1 == EmitOp(c, "WithEnter", slot, IF s.bad THEN ExitError ELSE "")
      id == Here(c1)
      c2 == PushFinalizer(EmitOp(c1, "PushHandler", BreakLabel(id), ""),
                          FinalizerContext(<<>>, TRUE, 0, slot, c))
      c3 == Op(PopFinalizer(CompileBlock(s.body, c2)), "PopHandler")
      c4 == EmitOp(EmitOp(c3, "WithExit", slot, ""), "Jump", EndLabel(id), "")
      c5 == EmitOp(PatchJump(c4, BreakLabel(id)), "WithExit", slot, "")
  IN  PatchJump(Op(c5, "Rethrow"), EndLabel(id))

CompileLoop(s, c) ==
  CASE s.form = "while" -> CompileWhile(s, c)
    [] s.form = "for"   -> CompileFor(s, c)
    [] OTHER            -> CompileForIn(s, c)

CompileStatement(s, c) ==
  CASE s.k = "emit"     -> Op(EmitOp(c, "Constant", 0, s.v), "Println")
    [] s.k = "call"     -> Op(EmitOp(c, "Call", 0, s.f), "Println")
    [] s.k = "throw"    -> Op(EmitOp(c, "Constant", 0, s.v), "Throw")
    [] s.k = "fault"    -> EmitOp(c, "Fault", 0, s.v)
    [] s.k = "return"   -> CompileReturn(s, c)
    [] s.k = "break"    -> CompileBreak(c)
    [] s.k = "continue" -> CompileContinue(c)
    [] s.k = "defer"    -> Op(EmitOp(c, "Constant", 0, s.v), "DeferPrintln")
    [] s.k = "if"       -> CompileIf(s, c)
    [] s.k = "loop"     -> CompileLoop(s, c)
    [] s.k = "try"      -> CompileTry(s, c)
    [] s.k = "with"     -> CompileWith(s, c)

\* A function's code ends with return null, the script's with return.
CompileBody(body, fn) ==
  LET c == CompileBlock(body, [code |-> <<>>, loops |-> <<>>, fins |-> <<>>, fn |-> fn])
  IN  (IF fn THEN Op(EmitOp(c, "Constant", 0, NullValue), "Return") ELSE Op(c, "Return")).code

\* One code sequence per function of the program.
Compile(prog) == [f \in DOMAIN prog |-> CompileBody(prog[f], f # "main")]
=============================================================================
