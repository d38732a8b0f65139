----------------------------- MODULE Evaluator ------------------------------
(***************************************************************************)
(* The tree-walking evaluator's control flow (internal/evaluator/          *)
(* evaluator.go): blocks, loops, try / catch / finally, with, defer,       *)
(* throw, return and calls.                                                *)
(*                                                                         *)
(* A statement is a record with its kind in k.  What a script prints is    *)
(* the only effect kept of it.  Evaluation threads an outcome e:           *)
(*   e.kind  the signal: "" runs on; "throw", "return", "break", "continue"*)
(*   e.v     the class of the error thrown, or the value returned          *)
(*   e.out   what has been printed, in order                               *)
(*   e.df    the deferred prints of the function being evaluated           *)
(***************************************************************************)
EXTENDS Integers, Sequences, SequencesExt

\* Statements, one constructor each (internal/ast).
Emit(v)             == [k |-> "emit", v |-> v]             \* io.println(v)
Call(f)             == [k |-> "call", f |-> f]             \* io.println(f())
Throw(c)            == [k |-> "throw", v |-> c]            \* throw an error of class c
Fault               == [k |-> "fault", v |-> "RuntimeError"]  \* an implicit fault: 1 // 0
Return(v)           == [k |-> "return", v |-> v]
Break               == [k |-> "break"]
Continue            == [k |-> "continue"]
Defer(v)            == [k |-> "defer", v |-> v]            \* defer io.println(v)
If(c, yes, no)      == [k |-> "if", c |-> c, yes |-> yes, no |-> no]
Loop(form, n, body) == [k |-> "loop", form |-> form, n |-> n, body |-> body]
Catch(c, body)      == [class |-> c, body |-> body]        \* class "" catches every error
Try(body, catches, fin) == [k |-> "try", body |-> body, catches |-> catches, fin |-> fin]
With(body, bad)     == [k |-> "with", body |-> body, bad |-> bad]  \* bad: __exit throws

\* The class of the error a failing __exit throws, and the value of a call that
\* ends without return.
ExitError == "ExitError"
NullValue == "null"

\* Does a clause catch an error of class c?  Classes are unrelated here, so
\* that only the same class and the untyped clause match.
CatchMatches(clause, c) == clause.class \in {"", c}

Say(e, v) == [e EXCEPT !.out = Append(@, v)]
Signal(e, kind, v) == [e EXCEPT !.kind = kind, !.v = v]

\* Leaves a loop body: break and continue are consumed by the loop.
LoopGoesOn(r) == r.kind \in {"", "continue"}

\* A for-in loop over a generator closes it on the way out, which shows once,
\* when the producer is still suspended in a yield.
CloseGenerator(s, r) == IF s.form = "generator" THEN Say(r, "closed") ELSE r

\* Deferred calls run last in, first out, when the function is left by any signal.
RunAndPopDefers(r) == [r EXCEPT !.out = @ \o Reverse(r.df), !.df = <<>>]

RECURSIVE EvalBlock(_, _, _), EvalStatement(_, _, _), EvalLoop(_, _, _, _)

\* evalStatements: the first signal other than "" ends the block.
EvalBlock(prog, ss, e) ==
  IF ss = <<>> \/ e.kind # "" THEN e
  ELSE EvalBlock(prog, Tail(ss), EvalStatement(prog, Head(ss), e))

\* while, for(;;) and for-in: iteration i of n.
EvalLoop(prog, s, i, e) ==
  IF i > s.n THEN e
  ELSE LET r == EvalBlock(prog, s.body, e)
       IN  IF LoopGoesOn(r) THEN EvalLoop(prog, s, i + 1, Signal(r, "", ""))
           ELSE IF r.kind = "break" THEN Signal(CloseGenerator(s, r), "", "")
           ELSE CloseGenerator(s, r)

\* A call: the callee has its own defer frame; its throw is the caller's throw.
EvalCall(prog, f, e) ==
  LET b == EvalBlock(prog, prog[f], [e EXCEPT !.df = <<>>])
      r == [RunAndPopDefers(b) EXCEPT !.df = e.df]
  IN  IF r.kind = "throw" THEN r
      ELSE Say(Signal(r, "", ""), IF r.kind = "return" THEN r.v ELSE NullValue)

\* try: the first clause that matches handles the throw; finally runs on every
\* path, and its own signal replaces the one that was pending.
EvalTry(prog, s, e) ==
  LET b == EvalBlock(prog, s.body, e)
      fit == {i \in DOMAIN s.catches : CatchMatches(s.catches[i], b.v)}
      c == IF b.kind = "throw" /\ fit # {}
           THEN EvalBlock(prog, s.catches[CHOOSE i \in fit : \A j \in fit : i <= j].body,
                          Signal(b, "", ""))
           ELSE b
      f == EvalBlock(prog, s.fin, Signal(c, "", ""))
  IN  IF f.kind # "" THEN f ELSE Signal(f, c.kind, c.v)

\* with: __exit runs on every path and a throw of it replaces the body's outcome.
EvalWith(prog, s, e) ==
  LET b == Say(EvalBlock(prog, s.body, Say(e, "enter")), "exit")
  IN  IF s.bad THEN Signal(b, "throw", ExitError) ELSE b

EvalStatement(prog, s, e) ==
  CASE s.k = "emit"     -> Say(e, s.v)
    [] s.k = "call"     -> EvalCall(prog, s.f, e)
    [] s.k \in {"throw", "fault"} -> Signal(e, "throw", s.v)
    [] s.k = "return"   -> Signal(e, "return", s.v)
    [] s.k \in {"break", "continue"} -> Signal(e, s.k, "")
    [] s.k = "defer"    -> [e EXCEPT !.df = Append(@, s.v)]
    [] s.k = "if"       -> EvalBlock(prog, IF s.c THEN s.yes ELSE s.no, e)
    [] s.k = "loop"     -> EvalLoop(prog, s, 1, e)
    [] s.k = "try"      -> EvalTry(prog, s, e)
    [] s.k = "with"     -> EvalWith(prog, s, e)

\* Eval: a script prints and ends, or ends with an uncaught error.
Eval(prog) ==
  LET r == RunAndPopDefers(EvalBlock(prog, prog["main"],
                                     [kind |-> "", v |-> "", out |-> <<>>, df |-> <<>>]))
  IN  [out |-> r.out, uncaught |-> IF r.kind = "throw" THEN r.v ELSE ""]
=============================================================================
