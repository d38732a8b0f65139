----------------------------- MODULE MCEngines ------------------------------
(***************************************************************************)
(* Programs for VM.  A program is named by its shape and by the statements *)
(* put in the holes of that shape; every statement in every hole is run.   *)
(***************************************************************************)
EXTENDS VM

\* The depths of the instructions that can be reached, from the first one on.
RECURSIVE DepthsFrom(_, _, _)
DepthsFrom(code, todo, d) ==
  IF todo = {} THEN d
  ELSE LET t == CHOOSE t \in todo : TRUE
           i == t.i
           to == code[i].to
           op == code[i].op
           \* Where the instruction leads, with its depths there.
           next == IF op \in {"Return", "Throw", "Fault", "Jump"} THEN {} ELSE {i + 1}
           jump == IF op \in {"Jump", "JumpIfFalse", "IterNext", "Catch", "PushHandler"} THEN {to} ELSE {}
           n == CASE op \in {"Constant", "GetLocal", "Below", "Call"} -> t.values + 1
                  [] op \in {"Pop", "Println", "DefineLocal", "DeferPrintln", "JumpIfFalse"} -> t.values - 1
                  [] OTHER -> t.values
           hs == CASE op = "PushHandler" -> Append(t.tries, [ip |-> to, values |-> n])
                   [] op = "PopHandler" /\ t.tries # <<>> -> Front(t.tries)
                   [] OTHER -> t.tries
           succ == {[i |-> j, values |-> n, tries |-> hs] : j \in next}
                   \cup {[i |-> j, values |-> n, tries |-> t.tries] : j \in jump}
           seen == DOMAIN d \cup {i}
       IN  DepthsFrom(code, {u \in (todo \ {t}) \cup succ : u.i \in DOMAIN code \ seen},
                      [j \in seen |-> IF j = i THEN [values |-> t.values, tries |-> t.tries] ELSE d[j]])
DepthsOf(code) ==
  [f \in DOMAIN code |-> DepthsFrom(code[f], {[i |-> 1, values |-> 0, tries |-> <<>>]}, [i \in {} |-> 0])]

\* The statements that fill holes.
Hole ==
  [say |-> Emit("x"), throwA |-> Throw("A"), throwB |-> Throw("B"), fault |-> Fault,
   return |-> Return("r"), break |-> Break, continue |-> Continue, call |-> Call("f"),
   defer |-> Defer("d")]

\* Statements of a hole inside a loop, of one in a function, and of one that
\* neither throws nor calls.
InLoop == DOMAIN Hole
NoLoop == InLoop \ {"break", "continue"}
Calm == {"say", "return", "break", "continue", "defer"}
NoFault == {"say", "throwA", "throwB", "return", "break", "continue", "defer"}

S(h) == Hole[h]

\* A try that says when it is entered and when its finally runs.
Noted(a, catches, c) == Try(<<Emit("try"), S(a), Emit("after")>>, catches, <<Emit("finally"), S(c)>>)
CatchA(b) == <<Catch("A", <<Emit("caught"), S(b)>>)>>
CatchAB(b) == <<Catch("B", <<Emit("caughtB")>>), Catch("", <<Emit("caught"), S(b)>>)>>

\* The function the holes call: a return through a finally, with a deferred call.
Plain == <<Defer("deferred"), Try(<<Return("value")>>, <<>>, <<Emit("cleanup")>>)>>

\* A generator's loop is left by jumps, not by throws.
JumpsOnly(form, h) == form = "generator" => h \in Calm

\* A try in a loop, at the top level of the script.
Top1 == {p \in {"top"} \X {"while", "for", "range", "generator"} \X InLoop \X Calm \X NoFault :
           JumpsOnly(p[2], p[3]) /\ JumpsOnly(p[2], p[5])}
MainTop(p) ==
  <<Defer("end"), Loop(p[2], 2, <<Noted(p[3], CatchA(p[4]), p[5]), Emit("next")>>), Emit("last")>>

\* A try without catch clauses inside the body of a try, in a function in a loop.
Nested == {"nested"} \X {"while", "for", "range"} \X InLoop \X NoFault \X Calm \X NoFault
FunNested(p) ==
  <<Defer("end"),
    Loop(p[2], 2, <<Noted("say", <<>>, "say"),
                    Try(<<Noted(p[3], <<>>, p[4]), Emit("mid")>>, CatchAB(p[5]),
                        <<Emit("outer"), S(p[6])>>)>>),
    Return("end")>>

\* with in a try in a loop, and its __exit may throw.
Withs == {"with"} \X {"while", "for", "range"} \X InLoop \X BOOLEAN \X Calm
FunWith(p) ==
  <<Loop(p[2], 2, <<Try(<<With(<<Emit("in"), S(p[3]), Emit("out")>>, p[4])>>,
                        CatchAB(p[5]), <<Emit("finally")>>)>>)>>

\* A throw through two frames with deferred calls, and a branch.
Deep == {"deep"} \X NoLoop \X BOOLEAN \X {"say", "return", "throwA", "throwB"}
FunDeep(p) == <<Defer("outer"), Noted("call", <<>>, p[4]), Return("end")>>
FunDeeper(p) == <<Defer("inner1"), Defer("inner2"),
                  If(p[3], <<S(IF p[2] = "call" THEN "say" ELSE p[2])>>, <<Emit("else")>>)>>

\* The script that calls the function under test in a try of its own.
Caller == <<Try(<<Emit("start"), Call("g"), Emit("end")>>,
                <<Catch("A", <<Emit("caughtA")>>)>>, <<Emit("closing")>>), Emit("last")>>

Program(p) ==
  CASE p[1] = "top"    -> [main |-> MainTop(p), f |-> Plain, g |-> <<>>]
    [] p[1] = "nested" -> [main |-> Caller, f |-> Plain, g |-> FunNested(p)]
    [] p[1] = "with"   -> [main |-> Caller, f |-> Plain, g |-> FunWith(p)]
    [] p[1] = "deep"   -> [main |-> Caller, f |-> FunDeeper(p), g |-> FunDeep(p)]

\* Programs in which a throw leaves no catch clause that has a finally block, no
\* throw is caught inside a finally block, and no fault goes uncaught.
PlainPrograms == [p \in Top1 \cup Nested \cup Withs \cup Deep |-> Program(p)]

\* Programs in which a catch clause may throw.
RethrowPrograms ==
  [p \in {"top"} \X {"while"} \X {"say", "throwA"} \X NoFault \X {"say"} |-> Program(p)]
=============================================================================
