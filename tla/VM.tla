--------------------------------- MODULE VM ---------------------------------
(***************************************************************************)
(* Dispatch on the code that Compiler gives for a program, compared with   *)
(* Evaluator: a script must print the same and end the same on both.       *)
(***************************************************************************)
EXTENDS Compiler, Dispatch

CONSTANT Programs   \* Programs[p]: a program, a function from "main" and the names
                    \* of its functions to their bodies

\* The script is compiled, and what the evaluator does with it is noted.
Init ==
  /\ \E p \in DOMAIN Programs :
       script = [prog |-> p, code |-> Compile(Programs[p]), expected |-> Eval(Programs[p])]
  /\ Start

\* The dispatch loop never pauses.
Spec == Init /\ [][Next]_vars /\ WF_vars(Next)

-----------------------------------------------------------------------------
(* Properties. *)

\* The engines agree: when the VM has run a script to its end, it has printed what
\* the evaluator prints, in the same order, and ends with the same uncaught error or
\* none (vm.go dispatchLoop against evaluator.go evalStatements; what runParity in
\* parity_harness_test.go compares on the scripts it lists).
EnginesAgree ==
  status # "running" =>
    /\ out = script.expected.out
    /\ script.expected.uncaught = IF status = "uncaught" THEN pending ELSE ""

\* The compiler's inlined finalizers balance on every path, the ones no run takes as well:
\* where the VM starts, the code it is given is verified, so that each of its behaviours is
\* one of DispatchSpec (compiler_statements.go compileActiveFinalizers).
RunsVerifiedCode == Start => CodeVerified

\* Every script ends: no inlined finalizer jumps back into itself and no loop loses its
\* exit (compiler_statements.go compileActiveFinalizers).
Ends == <>(status # "running")

\* A finally block runs after its try / catch path completes, whatever the path was: as
\* often as a try that says "try" was entered, its finally says "finally".
FinallyRuns ==
  LET said(v) == Len(SelectSeq(out, LAMBDA x : x = v))
  IN  status # "running" => said("try") = said("finally")
=============================================================================
