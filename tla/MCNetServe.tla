----------------------------- MODULE MCNetServe -----------------------------
(***************************************************************************)
(* Three connections: with one slot and a queue of one the accept loop     *)
(* blocks in Acquire; the other configurations refuse, wait, or do not     *)
(* gate at all.                                                            *)
(***************************************************************************)
EXTENDS NetServe, TLC

CONSTANTS c1, c2, c3

MCConns == {c1, c2, c3}

MCConfigs ==
  {[max |-> 0, queue |-> 0, policy |-> "reject"],
   [max |-> 1, queue |-> 0, policy |-> "drop"],
   [max |-> 1, queue |-> 1, policy |-> "reject"],
   [max |-> 1, queue |-> 0, policy |-> "wait"],
   [max |-> 2, queue |-> 2, policy |-> "reject"]}
=============================================================================
