------------------------------ MODULE MCLoader ------------------------------
(* Instances of Loader: a module a; a module b, whose package p gives its    *)
(* file the name pb (for p.b) as well; a module c that wraps the built-in    *)
(* module of its own name; and a built-in module n.                          *)
EXTENDS Loader

MCModules == {"a", "b", "pb", "c", "n"}
MCSources == {"a", "b", "pb", "c"}
MCPath == [m \in MCSources |-> IF m = "pb" THEN "b" ELSE m]

\* a imports b; a and b import each other, by the long name; b imports itself by the
\* other name.  c imports its built-in namesake.
Imports(ofA, ofB) ==
  [m \in MCModules |-> CASE m = "a" -> ofA [] m \in {"b", "pb"} -> ofB
                         [] m = "c" -> <<"c">> [] OTHER -> <<>>]
MCGraphs == {Imports(<<"b", "n">>, <<>>), Imports(<<"pb">>, <<"a">>), Imports(<<"pb">>, <<"b">>)}

\* The initialiser of a calls b.
MCInitCalls == {<<"a", "b">>}

\* Imports and calls of two goroutines; calls that go back and forth between the modules
\* on one goroutine.
CONSTANTS g1, g2
MCAlone == {g1 :> 5 @@ g2 :> 0}
MCBudgets == {g1 :> 3 @@ g2 :> 1} \cup MCAlone
=============================================================================
