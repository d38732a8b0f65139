------------------------------- MODULE MCPool -------------------------------
(***************************************************************************)
(* Three requests against every small configuration: unbounded, one and    *)
(* two slots, with and without a queue, each policy.                       *)
(***************************************************************************)
EXTENDS Pool, TLC

CONSTANTS r1, r2, r3

MCReqs == {r1, r2, r3}

MCConfigs ==
  {[max |-> 0, queue |-> 0, policy |-> "reject"]}
    \cup [max : {1}, queue : {0, 1}, policy : {"reject", "wait"}]
    \cup {[max |-> 1, queue |-> 2, policy |-> "drop"],
          [max |-> 2, queue |-> 1, policy |-> "reject"]}
=============================================================================
