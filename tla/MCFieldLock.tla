---------------------------- MODULE MCFieldLock -----------------------------
(***************************************************************************)
(* The script, two async tasks, one generator and two instances.           *)
(***************************************************************************)
EXTENDS FieldLock, TLC

CONSTANTS t1, t2, g1, i1, i2

MCTasks == {t1, t2}
MCGens == {g1}
MCInsts == {i1, i2}

Symmetry == Permutations(MCTasks) \cup Permutations(MCInsts)
=============================================================================
