------------------------------ MODULE MergeOnce ------------------------------
(***************************************************************************)
(* What the merge gate promises to a decision cycle, without verdicts,     *)
(* quorums or confidence: at most one decision is ever merged, and it is   *)
(* one of those the honest organs carry.                                   *)
(***************************************************************************)
CONSTANTS Decisions, NoDecision

VARIABLES
  carried,   \* the decisions the honest organs carry, fixed for the cycle
  decided    \* the merged decision, or NoDecision

Init == decided = NoDecision

Decide(d) ==
  /\ decided = NoDecision
  /\ d \in carried
  /\ decided' = d
  /\ UNCHANGED carried

Next == \E d \in Decisions : Decide(d)

Spec == Init /\ [][Next]_<<carried, decided>>
=============================================================================
