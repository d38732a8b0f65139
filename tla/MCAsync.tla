------------------------------- MODULE MCAsync ------------------------------
(***************************************************************************)
(* Instances of Async: two leaf tasks a and b, a combinator c over them    *)
(* and, in some shapes, a second combinator w over c (a timeout around a   *)
(* combinator, or a race between it and a leaf); w is a token otherwise.   *)
(***************************************************************************)
EXTENDS Async, TLC

CONSTANTS a, b, c, w

MCTasks == {a, b, c, w}
MCProcs == MCTasks \cup {User}

\* One combinator k over the leaves of kinds ka and kb, in the list ins.
Flat(k, ins, ka, kb, cs) ==
  [kind |-> (a :> ka @@ b :> kb @@ c :> k @@ w :> "token"),
   inputs |-> (a :> <<>> @@ b :> <<>> @@ c :> ins @@ w :> <<>>),
   cancels |-> cs]

\* A combinator kw around a combinator k over the leaves.
Nested(kw, insW, k, ins, cs) ==
  [kind |-> (a :> "run" @@ b :> "run" @@ c :> k @@ w :> kw),
   inputs |-> (a :> <<>> @@ b :> <<>> @@ c :> ins @@ w :> insW),
   cancels |-> cs]

MCShapes ==
  {Flat("all", <<a, b>>, "run", "run", {a, c}),
   Flat("all", <<a, b>>, "token", "sleep", {a, b}),
   Flat("all", <<a, a>>, "run", "token", {c}),
   Flat("all", <<>>, "run", "token", {c}),
   Flat("race", <<a, b>>, "run", "sleep", {b, c}),
   Flat("race", <<a, a>>, "run", "token", {a}),
   Flat("race", <<a, b, w>>, "run", "token", {}),
   Flat("timeout", <<a>>, "run", "token", {a, c}),
   Flat("scope", <<a, b>>, "child", "child", {a}),
   Nested("timeout", <<c>>, "all", <<a, b>>, {}),
   Nested("race", <<c, b>>, "scope", <<a>>, {}),
   Nested("race", <<c, b>>, "timeout", <<a>>, {c})}

MCCancelled == [tag |-> "cancelled", of |-> NoTask]
Leaf == {MCCancelled} \cup [tag : {"ok", "err", "other", "timeout"}, of : MCTasks]
MCResults == Leaf \cup [tag : {"list"}, of : Seq(Leaf)]
=============================================================================
