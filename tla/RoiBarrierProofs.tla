-------------------------- MODULE RoiBarrierProofs --------------------------
(***************************************************************************)
(* Proofs about the ROI barrier, for every finite set of agent threads.    *)
(* That the counter is right (CounterIsRight) needs no more than the       *)
(* counter itself; that the region is common to all threads rests on the   *)
(* whole of IInv.  In both the waits end only after a broadcast, as        *)
(* RoiBarrier assumes.                                                     *)
(***************************************************************************)
EXTENDS RoiBarrier, FiniteSetTheorems, TLAPS

(* Nobody waits in, or has not reached, the entry once somebody has been   *)
(* let through it; the same for the exit.                                  *)
EntryComplete ==
    (\E a \in Agents : roi[a] \notin {"new", "waitStart"})
        => \A b \in Agents : roi[b] \notin {"new", "waitStart"}

ExitComplete ==
    (\E a \in Agents : roi[a] \in {"wokenStop", "outside"})
        => \A b \in Agents : roi[b] \in {"wokenStop", "outside"}

CountInv == TypeOK /\ ReadyCountsThreads

IInv == CountInv /\ EntryComplete /\ ExitComplete

-----------------------------------------------------------------------------
(* Counting: the threads between the two calls form a finite set, adding   *)
(* or removing one changes its size by one, and a set as large as Agents   *)
(* is Agents.                                                              *)
LEMMA CountedFinite ==
    /\ IsFiniteSet(Agents) /\ Cardinality(Agents) \in Nat
    /\ IsFiniteSet(Counted) /\ Cardinality(Counted) \in Nat
    /\ Counted \subseteq Agents
<1>1. IsFiniteSet(Agents)
  BY AgentsAssumption
<1>2. Counted \subseteq Agents
  BY DEF Counted
<1>3. IsFiniteSet(Counted)
  BY <1>1, <1>2, FS_Subset
<1>. QED
  BY <1>1, <1>2, <1>3, FS_CardinalityType

LEMMA CountOneIn ==
    ASSUME NEW a \in Agents, a \notin Counted, Counted' = Counted \union {a}
    PROVE  Cardinality(Counted') = Cardinality(Counted) + 1
BY CountedFinite, FS_AddElement

LEMMA CountOneOut ==
    ASSUME NEW a \in Agents, a \in Counted, Counted' = Counted \ {a}
    PROVE  Cardinality(Counted') = Cardinality(Counted) - 1
BY CountedFinite, FS_RemoveElement

LEMMA AllCounted ==
    ASSUME NEW a \in Agents, a \notin Counted,
           Cardinality(Counted) + 1 = Cardinality(Agents)
    PROVE  Counted = Agents \ {a}
<1>1. /\ IsFiniteSet(Agents \ {a})
      /\ Cardinality(Agents \ {a}) = Cardinality(Agents) - 1
  BY CountedFinite, FS_RemoveElement
<1>2. Counted \subseteq Agents \ {a}
  BY CountedFinite
<1>3. Cardinality(Counted) = Cardinality(Agents \ {a})
  BY <1>1, CountedFinite
<1>. QED
  BY <1>1, <1>2, <1>3, FS_Subset

LEMMA OneCounted ==
    ASSUME NEW a \in Counted, Cardinality(Counted) = 1
    PROVE  Counted = {a}
<1>1. Cardinality(Counted \ {a}) = 0 /\ IsFiniteSet(Counted \ {a})
  BY CountedFinite, FS_RemoveElement
<1>2. Counted \ {a} = {}
  BY <1>1, FS_EmptySet
<1>. QED
  BY <1>2

(* A thread inside keeps the counter above zero. *)
LEMMA InsideIsCounted ==
    ASSUME CountInv, NEW a \in Agents, roi[a] = "inside"
    PROVE  a \in Counted /\ ready > 0
<1>1. a \in Counted
  BY DEF Counted
<1>2. Cardinality(Counted) # 0
  BY <1>1, CountedFinite, FS_EmptySet
<1>. QED
  BY <1>1, <1>2, CountedFinite DEF CountInv, ReadyCountsThreads

-----------------------------------------------------------------------------
LEMMA CountInit == Init => CountInv
<1>. SUFFICES ASSUME Init PROVE CountInv
  OBVIOUS
<1>1. TypeOK
  BY DEF Init, TypeOK, Stages
<1>2. Counted = {}
  BY DEF Init, Counted
<1>. QED
  BY <1>1, <1>2, FS_EmptySet DEF Init, CountInv, ReadyCountsThreads

LEMMA CountStep == CountInv /\ [Next]_roiVars => CountInv'
<1>. SUFFICES ASSUME CountInv, [Next]_roiVars PROVE CountInv'
  OBVIOUS
<1>t. ready \in Nat /\ roi \in [Agents -> Stages] /\ ready = Cardinality(Counted)
  BY DEF CountInv, TypeOK, ReadyCountsThreads
<1>b. /\ Broadcast \in [Agents -> Stages]
      /\ \A b \in Agents :
            Broadcast[b] \in {"waitStart", "wokenStart", "inside"}
               <=> roi[b] \in {"waitStart", "wokenStart", "inside"}
  BY <1>t DEF Broadcast, Stages
<1>1. ASSUME NEW a \in Agents, StartROI(a) PROVE CountInv'
  <2>1. ready' = ready + 1 /\ roi[a] = "new" /\ roi' \in [Agents -> Stages]
    BY <1>1, <1>t, <1>b DEF StartROI, Stages
  <2>2. a \notin Counted /\ Counted' = Counted \union {a}
    BY <1>1, <1>t, <1>b DEF StartROI, Counted, Stages
  <2>3. Cardinality(Counted') = Cardinality(Counted) + 1
    BY <2>2, CountOneIn
  <2>. QED
    BY <1>t, <2>1, <2>3 DEF CountInv, TypeOK, ReadyCountsThreads
<1>2. ASSUME NEW a \in Agents, StopROI(a) PROVE CountInv'
  <2>1. a \in Counted /\ ready > 0
    BY <1>2, InsideIsCounted DEF StopROI
  <2>2. ready' = ready - 1 /\ roi' \in [Agents -> Stages]
    BY <1>2, <1>t, <1>b, <2>1 DEF StopROI, Stages
  <2>3. Counted' = Counted \ {a}
    BY <1>2, <1>t, <1>b, <2>1 DEF StopROI, Counted, Stages
  <2>4. Cardinality(Counted') = Cardinality(Counted) - 1
    BY <2>1, <2>3, CountOneOut
  <2>. QED
    BY <1>t, <2>1, <2>2, <2>4 DEF CountInv, TypeOK, ReadyCountsThreads
<1>3. ASSUME NEW a \in Agents, Return(a) PROVE CountInv'
  <2>1. Counted' = Counted
    BY <1>3, <1>t DEF Return, Counted
  <2>. QED
    BY <1>3, <1>t, <2>1 DEF Return, CountInv, TypeOK, ReadyCountsThreads, Stages
<1>4. CASE UNCHANGED roiVars
  BY <1>4, <1>t DEF roiVars, CountInv, TypeOK, ReadyCountsThreads, Counted
<1>. QED
  BY <1>1, <1>2, <1>3, <1>4 DEF Next, Step, Terminating

(* The counter of dcop.c never goes below zero, and no thread gets into a  *)
(* stage that its calls do not lead to.                                    *)
THEOREM BarrierTypes == Spec => []TypeOK
<1>1. CountInv => TypeOK
  BY DEF CountInv
<1>. QED
  BY <1>1, CountInit, CountStep, PTL DEF Spec

(* The counter of dcop.c is always the number of threads between           *)
(* dcop_start_ROI and dcop_stop_ROI.                                       *)
THEOREM CounterIsRight == Spec => []ReadyCountsThreads
<1>1. CountInv => ReadyCountsThreads
  BY DEF CountInv
<1>. QED
  BY <1>1, CountInit, CountStep, PTL DEF Spec

-----------------------------------------------------------------------------
LEMMA IInvInit == Init => IInv
BY CountInit DEF Init, IInv, EntryComplete, ExitComplete

(* The last thread to arrive finds all the others asleep in the entry. *)
LEMMA LastArrival ==
    ASSUME IInv, NEW a \in Agents, roi[a] = "new", ready + 1 = Cardinality(Agents)
    PROVE  \A b \in Agents \ {a} : roi[b] = "waitStart"
<1>1. \A b \in Agents : roi[b] \in {"new", "waitStart"}
  BY DEF IInv, EntryComplete
<1>2. Counted = Agents \ {a}
  BY AllCounted DEF IInv, CountInv, ReadyCountsThreads, Counted
<1>. QED
  BY <1>1, <1>2 DEF Counted

(* The last thread to leave finds all the others asleep in the exit. *)
LEMMA LastDeparture ==
    ASSUME IInv, NEW a \in Agents, roi[a] = "inside", ready = 1
    PROVE  \A b \in Agents \ {a} : roi[b] = "waitStop"
<1>1. \A b \in Agents : roi[b] \notin {"new", "wokenStop", "outside"}
  BY DEF IInv, EntryComplete, ExitComplete
<1>2. Counted = {a}
  BY InsideIsCounted, OneCounted DEF IInv, CountInv, ReadyCountsThreads
<1>. QED
  BY <1>1, <1>2 DEF Counted, IInv, CountInv, TypeOK, Stages

LEMMA IInvStep == IInv /\ [Next]_roiVars => IInv'
<1>. SUFFICES ASSUME IInv, [Next]_roiVars PROVE IInv'
  OBVIOUS
<1>c. CountInv'
  BY CountStep DEF IInv
<1>t. ready \in Nat /\ roi \in [Agents -> Stages]
  BY DEF IInv, CountInv, TypeOK
<1>1. ASSUME NEW a \in Agents, StartROI(a) PROVE (EntryComplete /\ ExitComplete)'
  <2>0. roi[a] = "new" /\ \A b \in Agents : roi[b] \in {"new", "waitStart"}
    BY <1>1 DEF StartROI, IInv, EntryComplete
  <2>1. CASE ready' = Cardinality(Agents)
    <3>1. \A b \in Agents \ {a} : roi[b] = "waitStart"
      BY <1>1, <2>1, LastArrival DEF StartROI
    <3>2. \A b \in Agents : roi'[b] = IF b = a THEN "inside" ELSE "wokenStart"
      BY <1>1, <1>t, <2>1, <3>1 DEF StartROI, Broadcast
    <3>. QED
      BY <3>2 DEF EntryComplete, ExitComplete
  <2>2. CASE ready' # Cardinality(Agents)
    <3>1. \A b \in Agents : roi'[b] \in {"new", "waitStart"}
      BY <1>1, <1>t, <2>0, <2>2 DEF StartROI
    <3>. QED
      BY <3>1 DEF EntryComplete, ExitComplete
  <2>. QED
    BY <2>1, <2>2
<1>2. ASSUME NEW a \in Agents, StopROI(a) PROVE (EntryComplete /\ ExitComplete)'
  <2>0. /\ ready > 0
        /\ \A b \in Agents : roi[b] \in {"wokenStart", "inside", "waitStop"}
    BY <1>2, <1>t, InsideIsCounted
    DEF StopROI, IInv, EntryComplete, ExitComplete, Stages
  <2>1. CASE ready = 1
    <3>1. \A b \in Agents \ {a} : roi[b] = "waitStop"
      BY <1>2, <2>1, LastDeparture DEF StopROI
    <3>2. \A b \in Agents : roi'[b] = IF b = a THEN "outside" ELSE "wokenStop"
      BY <1>2, <1>t, <2>1, <3>1 DEF StopROI, Broadcast
    <3>. QED
      BY <3>2 DEF EntryComplete, ExitComplete
  <2>2. CASE ready # 1
    <3>1. \A b \in Agents : roi'[b] \in {"wokenStart", "inside", "waitStop"}
      BY <1>2, <1>t, <2>0, <2>2 DEF StopROI
    <3>. QED
      BY <3>1 DEF EntryComplete, ExitComplete
  <2>. QED
    BY <2>1, <2>2
<1>3. ASSUME NEW a \in Agents, Return(a) PROVE (EntryComplete /\ ExitComplete)'
  BY <1>3, <1>t DEF Return, IInv, EntryComplete, ExitComplete
<1>4. ASSUME UNCHANGED roiVars PROVE (EntryComplete /\ ExitComplete)'
  BY <1>4 DEF roiVars, IInv, EntryComplete, ExitComplete
<1>5. (EntryComplete /\ ExitComplete)'
  BY <1>1, <1>2, <1>3, <1>4 DEF Next, Step, Terminating
<1>. QED
  BY <1>c, <1>5 DEF IInv

(* No thread works in the region while another has not reached it, and     *)
(* none has left while another still works there.                          *)
THEOREM RegionIsSafe == Spec => []RegionIsCommon
<1>1. IInv => RegionIsCommon
  BY DEF IInv, EntryComplete, ExitComplete, RegionIsCommon
<1>. QED
  BY <1>1, IInvInit, IInvStep, PTL DEF Spec
-----------------------------------------------------------------------------
(* The refinement: every step of the barrier is a step of the rendezvous   *)
(* of the entry and a step of the rendezvous of the exit, or stutters.     *)
LEMMA EntryStep ==
    ASSUME IInv, IInv', [Next]_roiVars
    PROVE  [Entry!Next]_Entry!vars
<1>t. ready \in Nat /\ roi \in [Agents -> Stages]
  BY DEF IInv, CountInv, TypeOK
<1>1. ASSUME NEW a \in Agents, StartROI(a) PROVE Entry!Next
  <2>0. roi[a] = "new" /\ \A b \in Agents : roi[b] \in {"new", "waitStart"}
    BY <1>1 DEF StartROI, IInv, EntryComplete
  <2>1. CASE ready' = Cardinality(Agents)
    <3>1. \A b \in Agents \ {a} : roi[b] = "waitStart"
      BY <1>1, <2>1, LastArrival DEF StartROI
    <3>2. \A b \in Agents : roi'[b] = IF b = a THEN "inside" ELSE "wokenStart"
      BY <1>1, <1>t, <2>1, <3>1 DEF StartROI, Broadcast
    <3>. QED
      BY <2>0, <3>1, <3>2 DEF Entry!Next, Entry!Pass, Beyond
  <2>2. CASE ready' # Cardinality(Agents)
    <3>1. roi' = [roi EXCEPT ![a] = "waitStart"]
      BY <1>1, <2>2 DEF StartROI
    <3>. QED
      BY <1>t, <2>0, <3>1 DEF Entry!Next, Entry!Arrive, Beyond
  <2>. QED
    BY <2>1, <2>2
<1>2. ASSUME NEW a \in Agents, StopROI(a) PROVE UNCHANGED Entry!vars
  <2>1. \A b \in Agents : roi[b] # "new" /\ roi'[b] # "new" /\ roi[b] # "waitStart"
    BY <1>2, <1>t DEF StopROI, IInv, EntryComplete, Broadcast
  <2>2. \A b \in Agents : roi'[b] \in {"waitStart", "wokenStart"}
                             <=> roi[b] \in {"waitStart", "wokenStart"}
    BY <1>2, <1>t, <2>1 DEF StopROI, Broadcast
  <2>. QED
    BY <2>1, <2>2 DEF Entry!vars, Beyond
<1>3. ASSUME NEW a \in Agents, Return(a) PROVE [Entry!Next]_Entry!vars
  <2>1. CASE roi[a] = "wokenStart"
    <3>1. roi' = [roi EXCEPT ![a] = "inside"]
      BY <1>3, <2>1 DEF Return
    <3>2. \A b \in Agents : roi[b] # "new"
      BY <2>1 DEF IInv, EntryComplete
    <3>. QED
      BY <1>t, <2>1, <3>1, <3>2 DEF Entry!Next, Entry!Pass, Beyond
  <2>2. CASE roi[a] # "wokenStart"
    BY <1>3, <1>t, <2>2 DEF Return, Entry!vars, Beyond
  <2>. QED
    BY <2>1, <2>2
<1>4. CASE UNCHANGED roiVars
  BY <1>4 DEF roiVars, Entry!vars, Beyond
<1>. QED
  BY <1>1, <1>2, <1>3, <1>4 DEF Next, Step, Terminating

LEMMA ExitStep ==
    ASSUME IInv, IInv', [Next]_roiVars
    PROVE  [Exit!Next]_Exit!vars
<1>t. ready \in Nat /\ roi \in [Agents -> Stages]
  BY DEF IInv, CountInv, TypeOK
<1>1. ASSUME NEW a \in Agents, StartROI(a) PROVE UNCHANGED Exit!vars
  <2>0. \A b \in Agents : roi[b] \in {"new", "waitStart"}
    BY <1>1 DEF StartROI, IInv, EntryComplete
  <2>1. \A b \in Agents : roi'[b] \in {"new", "waitStart", "wokenStart", "inside"}
    BY <1>1, <1>t, <2>0 DEF StartROI, Broadcast
  <2>. QED
    BY <2>0, <2>1 DEF Exit!vars
<1>2. ASSUME NEW a \in Agents, StopROI(a) PROVE Exit!Next
  <2>0. /\ ready > 0 /\ roi[a] = "inside"
        /\ \A b \in Agents : roi[b] \in {"wokenStart", "inside", "waitStop"}
    BY <1>2, <1>t, InsideIsCounted
    DEF StopROI, IInv, EntryComplete, ExitComplete, Stages
  <2>1. CASE ready = 1
    <3>1. \A b \in Agents \ {a} : roi[b] = "waitStop"
      BY <1>2, <2>1, LastDeparture DEF StopROI
    <3>2. \A b \in Agents : roi'[b] = IF b = a THEN "outside" ELSE "wokenStop"
      BY <1>2, <1>t, <2>1, <3>1 DEF StopROI, Broadcast
    <3>. QED
      BY <2>0, <3>1, <3>2 DEF Exit!Next, Exit!Pass
  <2>2. CASE ready # 1
    <3>1. roi' = [roi EXCEPT ![a] = "waitStop"]
      BY <1>2, <2>0, <2>2 DEF StopROI
    <3>. QED
      BY <1>t, <2>0, <3>1 DEF Exit!Next, Exit!Arrive
  <2>. QED
    BY <2>1, <2>2
<1>3. ASSUME NEW a \in Agents, Return(a) PROVE [Exit!Next]_Exit!vars
  <2>1. CASE roi[a] = "wokenStop"
    <3>1. roi' = [roi EXCEPT ![a] = "outside"]
      BY <1>3, <2>1 DEF Return
    <3>2. \A b \in Agents : roi[b] \in {"wokenStop", "outside"}
      BY <2>1 DEF IInv, ExitComplete
    <3>. QED
      BY <1>t, <2>1, <3>1, <3>2 DEF Exit!Next, Exit!Pass
  <2>2. CASE roi[a] # "wokenStop"
    BY <1>3, <1>t, <2>2 DEF Return, Exit!vars
  <2>. QED
    BY <2>1, <2>2
<1>4. CASE UNCHANGED roiVars
  BY <1>4 DEF roiVars, Exit!vars
<1>. QED
  BY <1>1, <1>2, <1>3, <1>4 DEF Next, Step, Terminating

LEMMA RendezvousInit == Init => Entry!Init /\ Exit!Init
BY DEF Init, Entry!Init, Exit!Init, Beyond

(* dcop_start_ROI is a rendezvous of all agent threads. *)
THEOREM StartIsRendezvous == Spec => EntryIsRendezvous
BY IInvInit, IInvStep, EntryStep, RendezvousInit, PTL
DEF Spec, EntryIsRendezvous, Entry!Spec

(* dcop_stop_ROI is a rendezvous of all agent threads. *)
THEOREM StopIsRendezvous == Spec => ExitIsRendezvous
BY IInvInit, IInvStep, ExitStep, RendezvousInit, PTL
DEF Spec, ExitIsRendezvous, Exit!Spec
=============================================================================
