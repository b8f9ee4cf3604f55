----------------------------- MODULE RoiBarrier -----------------------------
(***************************************************************************)
(* The region-of-interest (ROI) barrier of dcop.c: dcop_start_ROI holds    *)
(* every agent thread back until the last one has called it, and           *)
(* dcop_stop_ROI does the same at the end.  Both count with one integer    *)
(* (dcop->ready) and sleep on one condition variable (dcop->cv), and       *)
(* neither checks anything again once pthread_cond_wait has returned: that *)
(* it returns only after a broadcast is an assumption of this model.  Each *)
(* call holds dcop->mt except while it sleeps, so a call is one step up to *)
(* its wait and one step after it.                                         *)
(***************************************************************************)
EXTENDS Naturals, FiniteSets

CONSTANT Agents \* the agent threads

ASSUME AgentsAssumption == IsFiniteSet(Agents) /\ Agents # {}

VARIABLES ready, \* dcop->ready
          roi    \* where each thread is with respect to the two calls

roiVars == <<ready, roi>>

Stages == {"new", "waitStart", "wokenStart", "inside",
           "waitStop", "wokenStop", "outside"}

TypeOK ==
    /\ ready \in Nat
    /\ roi \in [Agents -> Stages]

Init ==
    /\ ready = 0
    /\ roi = [a \in Agents |-> "new"]

(* Names with an underscore are deliberately wrong variants: each of them   *)
(* breaks a property that the variant it is named after satisfies.         *)

(* pthread_cond_signal in place of the broadcast. *)
Broadcast_One ==
    LET sleepers == {a \in Agents : roi[a] \in {"waitStart", "waitStop"}}
    IN  IF sleepers = {} THEN roi
        ELSE [roi EXCEPT ![CHOOSE a \in sleepers : TRUE] =
                 IF @ = "waitStart" THEN "wokenStart" ELSE "wokenStop"]

(* pthread_cond_broadcast: every sleeper has only the mutex left to wait for. *)
Broadcast ==
    [a \in Agents |-> CASE roi[a] = "waitStart" -> "wokenStart"
                        [] roi[a] = "waitStop"  -> "wokenStop"
                        [] OTHER                -> roi[a]]

(* The last but one agent opens the region. *)
StartROI_Early(a) ==
    /\ roi[a] = "new"
    /\ ready' = ready + 1
    /\ roi' = IF ready' >= Cardinality(Agents) - 1
                 THEN [Broadcast EXCEPT ![a] = "inside"]
                 ELSE [roi EXCEPT ![a] = "waitStart"]

StartROI(a) ==
    /\ roi[a] = "new"
    /\ ready' = ready + 1
    /\ roi' = IF ready' = Cardinality(Agents)
                 THEN [Broadcast EXCEPT ![a] = "inside"]
                 ELSE [roi EXCEPT ![a] = "waitStart"]

(* The counter is tested and not decremented; the last but one releases all.*)
StopROI_Uncounted(a) ==
    /\ roi[a] = "inside"
    /\ UNCHANGED ready
    /\ roi' = IF ready = 1 THEN [Broadcast EXCEPT ![a] = "outside"]
                           ELSE [roi EXCEPT ![a] = "waitStop"]

StopROI_Early(a) ==
    /\ roi[a] = "inside"
    /\ ready' = IF ready = 0 THEN 0 ELSE ready - 1
    /\ roi' = CASE ready = 0  -> [roi EXCEPT ![a] = "outside"]
                [] ready = 2  -> [Broadcast EXCEPT ![a] = "outside"]
                [] OTHER      -> [roi EXCEPT ![a] = "waitStop"]

(* With ready at 0 the call returns at once and changes nothing. *)
StopROI(a) ==
    /\ roi[a] = "inside"
    /\ ready' = IF ready = 0 THEN 0 ELSE ready - 1
    /\ roi' = CASE ready = 0  -> [roi EXCEPT ![a] = "outside"]
                [] ready = 1  -> [Broadcast EXCEPT ![a] = "outside"]
                [] OTHER      -> [roi EXCEPT ![a] = "waitStop"]

(* A thread decrements the counter once more as it leaves. *)
Return_Counting(a) ==
    \/ /\ roi[a] = "wokenStart" /\ roi' = [roi EXCEPT ![a] = "inside"]
       /\ UNCHANGED ready
    \/ /\ roi[a] = "wokenStop" /\ roi' = [roi EXCEPT ![a] = "outside"]
       /\ ready' = ready - 1

(* A woken thread gets the mutex back and returns from the call. *)
Return(a) ==
    /\ \/ roi[a] = "wokenStart" /\ roi' = [roi EXCEPT ![a] = "inside"]
       \/ roi[a] = "wokenStop"  /\ roi' = [roi EXCEPT ![a] = "outside"]
    /\ UNCHANGED ready

Done == \A a \in Agents : roi[a] = "outside"

Terminating == Done /\ UNCHANGED roiVars

Step(a) == StartROI(a) \/ StopROI(a) \/ Return(a)

Next ==
    \/ \E a \in Agents : Step(a)
    \/ Terminating

(* The operating system schedules every runnable thread. *)
Spec == Init /\ [][Next]_roiVars /\ \A a \in Agents : WF_roiVars(Step(a))

-----------------------------------------------------------------------------
(* The agents that have counted themselves in and not yet out. *)
Counted == {a \in Agents : roi[a] \in {"waitStart", "wokenStart", "inside"}}

(* The counter is exactly the number of threads between the two calls, so  *)
(* the early return of dcop_stop_ROI (ready == 0) is never taken and the   *)
(* counter never goes below zero.                                          *)
ReadyCountsThreads == ready = Cardinality(Counted)

(* No thread runs inside the region while another has not reached it, and  *)
(* none is out again while another is still working in it.                 *)
RegionIsCommon ==
    /\ (\E a \in Agents : roi[a] \in {"inside", "waitStop", "wokenStop", "outside"})
          => \A b \in Agents : roi[b] \notin {"new", "waitStart"}
    /\ (\E a \in Agents : roi[a] \in {"wokenStop", "outside"})
          => \A b \in Agents : roi[b] \in {"wokenStop", "outside"}

(* The entry and the exit are each a rendezvous of all the threads, though *)
(* they share the counter and the condition variable: a broadcast made for *)
(* the one never releases a thread that waits in the other.                *)
Beyond(stages) == {a \in Agents : roi[a] \notin stages}

Entry == INSTANCE Rendezvous WITH
            arrived <- Beyond({"new"}),
            passed  <- Beyond({"new", "waitStart", "wokenStart"})

Exit == INSTANCE Rendezvous WITH
            arrived <- {a \in Agents : roi[a] \in {"waitStop", "wokenStop", "outside"}},
            passed  <- {a \in Agents : roi[a] = "outside"}

EntryIsRendezvous == Entry!Spec
ExitIsRendezvous == Exit!Spec

(* No broadcast is lost: every thread gets through both calls. *)
EveryoneGetsOut == <>[]Done
=============================================================================
