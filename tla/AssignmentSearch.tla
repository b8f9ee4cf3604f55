-------------------------- MODULE AssignmentSearch --------------------------
(***************************************************************************)
(* What the rounds of MGM amount to: one common assignment of the          *)
(* resources that agents change one at a time, each claiming and yielding  *)
(* resources for itself only.                                              *)
(***************************************************************************)
EXTENDS Views

CONSTANT Agents

VARIABLE assignment

Init == assignment \in KnownViewsOver(Agents)

Move(a) == assignment' \in Reassignments(a, assignment)

Next == \E a \in Agents : Move(a)

Spec == Init /\ [][Next]_assignment
=============================================================================
