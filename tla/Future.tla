------------------------------- MODULE Future -------------------------------
(***************************************************************************)
(* What a Task promises to the code that awaits it: a write-once cell.     *)
(* The cell is pending until some producer settles it, is settled by one   *)
(* atomic step, and never changes afterwards.  Asking for cancellation     *)
(* never un-settles a cell, is never withdrawn, and settles a cell that    *)
(* was still pending.                                                      *)
(***************************************************************************)
CONSTANTS Tasks,     \* the cells
          Results,   \* what a producer can settle a cell with
          Pending    \* the value of a cell nobody has settled

VARIABLES value,     \* value[t]: the result of t, or Pending
          asked      \* asked[t]: somebody has asked for t to be cancelled

vars == <<value, asked>>

TypeOK ==
  /\ value \in [Tasks -> Results \cup {Pending}]
  /\ asked \in [Tasks -> BOOLEAN]

Init ==
  /\ value = [t \in Tasks |-> Pending]
  /\ asked = [t \in Tasks |-> FALSE]

Settle(t) ==
  /\ value[t] = Pending
  /\ value'[t] \in Results
  /\ value' = [value EXCEPT ![t] = value'[t]]
  /\ UNCHANGED asked

AskCancel(t) ==
  /\ asked' = [asked EXCEPT ![t] = TRUE]
  /\ UNCHANGED value

Next ==
  \E t \in Tasks : AskCancel(t) \/ Settle(t)

Safety == Init /\ [][Next]_vars

\* A cell that was asked to cancel does not stay pending.
Progress == \A t \in Tasks : asked[t] ~> (value[t] # Pending)

Spec == Safety /\ Progress
=============================================================================
