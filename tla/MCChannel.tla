----------------------------- MODULE MCChannel ------------------------------
(***************************************************************************)
(* Two channels, c0 unbuffered and c1 with a buffer of one, and three      *)
(* goroutines: one that mostly produces, one that mostly consumes and one  *)
(* that closes, tries or selects.                                          *)
(***************************************************************************)
EXTENDS Channel, TLC

CONSTANTS c0, c1, p1, p2, p3, va, vb

MCChans == {c0, c1}
MCProcs == {p1, p2, p3}
MCCap == (c0 :> 0) @@ (c1 :> 1)

MCVals == {va, vb}

Send(c, x) == Op("send", {c}, {}, x)
TrySend(c) == Op("trySend", {c}, {}, va)
Recv(c) == Op("recv", {}, {c}, Null)
TryRecv(c) == Op("tryRecv", {}, {c}, Null)
Close(c) == Op("close", {c}, {}, Null)
Select(to, from) == Op("select", to, from, va)
SelectDefault(to, from) == Op("selectDefault", to, from, va)

Producers ==
  {<<Send(c0, vb), Close(c0)>>,
   <<Send(c1, vb), Send(c1, va), Close(c1)>>,
   <<Select({c0, c1}, {}), Close(c1), Send(c0, vb)>>}

Consumers ==
  {<<Recv(c0), Recv(c0)>>,
   <<Close(c0), Recv(c1), TryRecv(c0)>>,
   <<Recv(c1), Recv(c1), TryRecv(c1)>>,
   <<Select({}, {c0, c1}), TryRecv(c1), Recv(c1)>>}

Others ==
  {<<Close(c0), Close(c0)>>,
   <<TrySend(c0), Close(c1)>>,
   <<Send(c1, va), TrySend(c1)>>,
   <<Select({c1}, {c0}), Close(c0)>>,
   <<SelectDefault({c0}, {c1}), Send(c1, va)>>}

MCScripts ==
  {(p1 :> x) @@ (p2 :> y) @@ (p3 :> z) : x \in Producers, y \in Consumers, z \in Others}
=============================================================================
