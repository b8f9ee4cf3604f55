----------------------------- MODULE Rendezvous -----------------------------
(***************************************************************************)
(* What a barrier promises: every process arrives once, and none passes    *)
(* before all have arrived.  RoiBarrier.tla uses it twice, for the entry   *)
(* into and the exit from the region of interest.                          *)
(***************************************************************************)
CONSTANT Agents

VARIABLES arrived, \* the agents that have reached the barrier
          passed   \* the agents that have left it again

vars == <<arrived, passed>>

Init == arrived = {} /\ passed = {}

(* An agent reaches the barrier and has to wait. *)
Arrive(a) ==
    /\ a \notin arrived
    /\ arrived' = arrived \union {a}
    /\ UNCHANGED passed

(* An agent passes a complete barrier; the one that completes it may do so *)
(* in the step in which it arrives.                                        *)
Pass(a) ==
    /\ a \notin passed
    /\ arrived' = arrived \union {a}
    /\ arrived' = Agents
    /\ passed' = passed \union {a}

Next == \E a \in Agents : Arrive(a) \/ Pass(a)

Spec == Init /\ [][Next]_vars
=============================================================================
