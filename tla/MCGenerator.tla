---------------------------- MODULE MCGenerator -----------------------------
(***************************************************************************)
(* Up to three goroutines that share one generator.  One of them may mix   *)
(* done() with next(); the others call next() and close().                 *)
(***************************************************************************)
EXTENDS Generator, TLC

CONSTANTS p1, p2, p3

MCProcs == {p1, p2, p3}

MCBodies == [yields : {0, 2}, ends : {"return", "throw"}] \cup {[yields |-> 3, ends |-> "return"]}

\* A for-in loop that breaks is a few calls of next() and a close().
Steppers ==
  {<<"done", "next", "done", "next", "done">>,
   <<"next", "next", "close">>,
   <<"done", "close", "next">>}

Others == {<<>>, <<"next", "next">>, <<"close", "next">>}

MCScripts ==
  {(p1 :> x) @@ (p2 :> y) @@ (p3 :> z) : x \in Steppers, y \in Others, z \in {<<>>, <<"next">>, <<"close">>}}
=============================================================================
