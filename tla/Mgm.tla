-------------------------------- MODULE Mgm --------------------------------
(***************************************************************************)
(* The MGM algorithm (mgm.c): agent threads that improve a common          *)
(* assignment of resources in rounds.  In the OK phase of a round every    *)
(* agent tells its neighbors its view of the assignment, in the IMPROVE    *)
(* phase it tells them by how much it could improve its own utility; the   *)
(* best one of a neighborhood moves.  The main thread starts the agents,   *)
(* joins them, and merges their views; a signal handler may end them.      *)
(*                                                                         *)
(* Mailboxes are the atomic queues of MessageQueue.tla, which Mailbox.tla  *)
(* implements; the region-of-interest barrier is RoiBarrier.tla.  What the *)
(* search for a better assignment finds is left open: any reassignment, or *)
(* none.                                                                   *)
(***************************************************************************)
EXTENDS MessageList, Views

CONSTANTS N,            \* the number of agents
          NeighborList, \* for each agent its list of neighbors
          MaxDistance,  \* max_distance, the option --distance
          MaxImprove,   \* bound: the largest finite improvement
          Evals,        \* the utilities that occur, a subset of {"finite", "INF"}
          InitialViews, \* the assignments to start from
          KillEnabled   \* may SIGINT arrive?

Agents == 1 .. N
Neighbors(a) == ToSet(NeighborList[a])

ASSUME NAssumption == N \in Nat \ {0}
(* agent_load_neighbors: symmetric, without repetition. *)
ASSUME NeighborAssumption ==
    /\ NeighborList \in [Agents -> Seq(Agents)]
    /\ \A a \in Agents : /\ a \notin Neighbors(a)
                         /\ Len(NeighborList[a]) = Cardinality(Neighbors(a))
    /\ \A a, b \in Agents : b \in Neighbors(a) <=> a \in Neighbors(b)
ASSUME DistanceAssumption == MaxDistance \in Nat \ {0}
ASSUME ImproveAssumption == MaxImprove \in Nat \ {0}
ASSUME EvalsAssumption == Evals \subseteq {"finite", "INF"} /\ Evals # {}
ASSUME InitialViewsAssumption == InitialViews \subseteq KnownViewsOver(Agents)
ASSUME KillAssumption == KillEnabled \in BOOLEAN
(* A hardware has at least one resource to assign. *)
ASSUME ResourcesAssumption == Resources # {}

VARIABLES queue,      \* the mailbox of each agent
          view,       \* a->view: its assignment
          agent_view, \* a->agent_view: what its neighbors told it
          mgm,        \* its mgm_agent_t
          mode,       \* thread-local: the phase it waits in
          counter,    \* thread-local: messages of this phase read so far
          stop,       \* thread-local: is the loop to end?
          out,        \* the messages it is still about to send
          why,        \* history: why its loop ended
          ready, roi, \* the ROI barrier
          main,       \* the main thread: what it does next, to which agent
          verdict,    \* static bool consistent
          warned,     \* did dcop_merge_view warn of an inconsistent view?
          kill        \* the agent to which the signal handler sends next

agentVars == <<queue, view, agent_view, mgm, mode, counter, stop, out, why>>
mainVars == <<main, verdict, warned>>
vars == <<agentVars, ready, roi, mainVars, kill>>

Barrier == INSTANCE RoiBarrier

-----------------------------------------------------------------------------
(* Messages; main and the signal handler send as NULL. *)
Null == 0
Infinite == MaxImprove + 1 \* the improvement from INF to a finite utility

OkMessages == [kind : {"OK"}, from : Agents, view : KnownViewsOver(Agents)]
ImproveMessages ==
    [kind : {"IMPROVE"}, from : Agents, eval : Evals,
     improve : 0 .. Infinite, term : 0 .. MaxDistance]
ControlMessages == [kind : {"START", "END"}, from : Agents \union {Null}]
Messages == OkMessages \union ImproveMessages \union ControlMessages

(* Names with an underscore are deliberately wrong variants: each of them   *)
(* breaks a property that the variant it is named after satisfies.  The    *)
(* first filter accepts everything, the second one never an MGM_END.       *)
Accepted_All(m) == {"START", "END", "OK", "IMPROVE"}
Accepted_NoEnd(m) == {"START"} \union (IF m = "WAIT_OK" THEN {"OK"} ELSE {"IMPROVE"})

(* filter_mgm_message *)
Accepted(m) ==
    {"START", "END"} \union (IF m = "WAIT_OK" THEN {"OK"} ELSE {"IMPROVE"})

MgmAgents ==
    [term : 0 .. MaxDistance, can_move : BOOLEAN, eval : {"finite", "INF"},
     improve : 0 .. Infinite, new_view : KnownViewsOver(Agents),
     consistent : BOOLEAN, stale : BOOLEAN, changed : BOOLEAN]

TypeOK ==
    /\ queue \in [Agents -> Seq(Messages)]
    /\ view \in [Agents -> KnownViewsOver(Agents)]
    /\ agent_view \in [Agents -> [Agents -> ViewsOver(Agents)]]
    /\ mgm \in [Agents -> MgmAgents]
    /\ mode \in [Agents -> {"WAIT_OK", "WAIT_IMPROVE"}]
    /\ counter \in [Agents -> 0 .. N]
    /\ stop \in [Agents -> BOOLEAN]
    /\ out \in [Agents -> Seq([to : Agents, msg : Messages])]
    /\ why \in [Agents -> {"", "distance", "stale", "overtaken", "end", "alone"}]
    /\ Barrier!TypeOK
    /\ main \in [phase : {"start", "join", "merge", "done"}, next : Agents]
    /\ verdict \in BOOLEAN
    /\ warned \in BOOLEAN
    /\ kill \in 1 .. N + 1

(* The assignments of lua/dcop.lua:387, mgm_init, and the first lines of   *)
(* mgm.  The utility and the optimum computed there are left open.         *)
Init ==
    /\ queue = [a \in Agents |-> <<>>]
    /\ \E v \in InitialViews :
          /\ view = [a \in Agents |-> v]
          /\ mgm = [a \in Agents |->
                [term |-> 0, can_move |-> FALSE, eval |-> "finite", improve |-> 0,
                 new_view |-> v, consistent |-> TRUE, stale |-> FALSE,
                 changed |-> TRUE]]
    /\ agent_view = [a \in Agents |-> [b \in Agents |-> Cleared]]
    /\ mode = [a \in Agents |-> "WAIT_OK"]
    /\ counter = [a \in Agents |-> 0]
    /\ stop = [a \in Agents |-> FALSE]
    /\ out = [a \in Agents |-> <<>>]
    /\ why = [a \in Agents |-> ""]
    /\ Barrier!Init
    /\ main = [phase |-> "start", next |-> 1]
    /\ verdict = TRUE
    /\ warned = FALSE
    /\ kill = 1

-----------------------------------------------------------------------------
(* agent_send to each neighbor, one after the other: the sends to come.    *)
ToNeighbors(a, msg) ==
    [i \in DOMAIN NeighborList[a] |-> [to |-> NeighborList[a][i], msg |-> msg]]

(* The message that an agent takes next: the first one its mode accepts. *)
Message(a) == Found(queue[a], Accepted(mode[a]))

(* send_ok: the agent stops at the distance limit or when the last round   *)
(* was stale, and otherwise moves if it may and tells its view.            *)
Halts_Late(s) == s.term = MaxDistance \/ s.stale
Halts(s) == s.term + 1 = MaxDistance \/ s.stale
Advanced(s) == [s EXCEPT !.term = @ + 1]
Moved(s, v) == IF ~Halts(s) /\ s.can_move THEN s.new_view ELSE v

Reason(a, s) ==
    CASE ~Halts(s)                    -> why[a]
      [] Halts(s) /\ ~s.stale         -> "distance"
      [] s.stale /\ Message(a).kind = "IMPROVE" -> "stale"
      [] s.stale /\ Message(a).kind = "START"   -> "overtaken"

SendOk(a, s) ==
    LET v == Moved(s, view[a])
    IN  /\ view' = [view EXCEPT ![a] = v]
        /\ stop' = [stop EXCEPT ![a] = Halts(s)]
        /\ why' = [why EXCEPT ![a] = Reason(a, s)]
        /\ out' = [out EXCEPT ![a] = ToNeighbors(a,
                      IF Halts(s) THEN [kind |-> "END", from |-> a]
                                  ELSE [kind |-> "OK", from |-> a, view |-> v])]

(* improve: the utility and the best reassignment that the search comes up *)
(* with for the assignment v.  It does not search when nothing concerns    *)
(* the agent that has changed or when it has just moved, and need not find *)
(* anything.  new_view is used only with an improvement.                   *)
Improvements(a, s, v) ==
    {o \in [eval : Evals, improve : 0 .. Infinite, new_view : Reassignments(a, v)] :
        IF o.improve = 0
           THEN o.new_view = v
           ELSE /\ o.new_view # v
                /\ (o.improve = Infinite) <=> (o.eval = "INF")
                /\ s.improve > 0 \/ s.changed
                /\ ~s.can_move}

Improved(s, o) ==
    [s EXCEPT !.eval = o.eval, !.improve = o.improve, !.new_view = o.new_view]

-----------------------------------------------------------------------------
(* The loop of an agent: it takes the next message that its mode accepts.  *)
Receives(a) ==
    /\ roi[a] = "inside"
    /\ ~stop[a]
    /\ out[a] = <<>>
    /\ Acceptable(queue[a], Accepted(mode[a])) # {}
    /\ queue' = [queue EXCEPT ![a] = Unlinked(@, Accepted(mode[a]))]
    /\ UNCHANGED <<ready, roi, mainVars, kill>>

Counted(a) == counter[a] + 1
IsLast(a) == Counted(a) = Len(NeighborList[a])

(* MGM_OK: another neighbor's view. *)
Told(a) == [agent_view[a] EXCEPT ![Message(a).from] = Message(a).view]

OkButNotLast(a) ==
    /\ Receives(a)
    /\ Message(a).kind = "OK"
    /\ ~IsLast(a)
    /\ counter' = [counter EXCEPT ![a] = Counted(a)]
    /\ agent_view' = [agent_view EXCEPT ![a] = Told(a)]
    /\ UNCHANGED <<view, mgm, mode, stop, out, why>>

(* With all views in, an agent that did not move adopts the first one that *)
(* differs from its own, and every agent looks for an improvement.         *)
Differing(a) == {i \in DOMAIN NeighborList[a] :
                    ~Compare(view[a], Told(a)[NeighborList[a][i]])}
Adopts_Never(a) == FALSE
Adopts(a) == ~mgm[a].can_move /\ Differing(a) # {}
Adopted_Own(a) == view[a]
Adopted(a) == IF Adopts(a) THEN Told(a)[NeighborList[a][Min(Differing(a))]]
                           ELSE view[a]
Changed(a) == \/ mgm[a].changed
              \/ mgm[a].can_move
              \/ Adopts(a) /\ IsAffected(view[a], a, Adopted(a))

LastOk(a) ==
    /\ Receives(a)
    /\ Message(a).kind = "OK"
    /\ IsLast(a)
    /\ agent_view' = [agent_view EXCEPT ![a] = Told(a)]
    /\ view' = [view EXCEPT ![a] = Adopted(a)]
    /\ LET s == [mgm[a] EXCEPT !.changed = Changed(a)]
       IN  \E o \in Improvements(a, s, Adopted(a)) :
              /\ mgm' = [mgm EXCEPT ![a] =
                    [Improved(s, o) EXCEPT !.can_move = o.improve > 0,
                                           !.consistent = TRUE,
                                           !.stale = TRUE]]
              /\ out' = [out EXCEPT ![a] = ToNeighbors(a,
                    [kind |-> "IMPROVE", from |-> a, eval |-> o.eval,
                     improve |-> o.improve, term |-> mgm[a].term])]
    /\ counter' = [counter EXCEPT ![a] = 0]
    /\ mode' = [mode EXCEPT ![a] = "WAIT_IMPROVE"]
    /\ UNCHANGED <<stop, why>>

(* MGM_IMPROVE: another neighbor's possible improvement; ties go to the    *)
(* agent with the smaller id.                                              *)
Beaten_NoTies(a) == Message(a).improve > mgm[a].improve
Beaten(a) ==
    \/ Message(a).improve > mgm[a].improve
    \/ Message(a).improve = mgm[a].improve /\ a > Message(a).from

Noted_WithoutEval(a) ==
    [mgm[a] EXCEPT
        !.term = IF Message(a).term < @ THEN Message(a).term ELSE @,
        !.can_move = @ /\ ~Beaten(a),
        !.stale = @ /\ ~(Message(a).improve > 0)]
Noted_AlwaysStale(a) ==
    [mgm[a] EXCEPT
        !.term = IF Message(a).term < @ THEN Message(a).term ELSE @,
        !.can_move = @ /\ ~Beaten(a),
        !.consistent = @ /\ Message(a).eval # "INF"]
Noted(a) ==
    [mgm[a] EXCEPT
        !.term = IF Message(a).term < @ THEN Message(a).term ELSE @,
        !.can_move = @ /\ ~Beaten(a),
        !.consistent = @ /\ Message(a).eval # "INF",
        !.stale = @ /\ ~(Message(a).improve > 0)]

ImproveButNotLast(a) ==
    /\ Receives(a)
    /\ Message(a).kind = "IMPROVE"
    /\ ~IsLast(a)
    /\ counter' = [counter EXCEPT ![a] = Counted(a)]
    /\ mgm' = [mgm EXCEPT ![a] = Noted(a)]
    /\ UNCHANGED <<view, agent_view, mode, stop, out, why>>

(* agent_clear_agent_view *)
Forgotten(a) == [b \in Agents |-> Cleared]

LastImprove(a) ==
    /\ Receives(a)
    /\ Message(a).kind = "IMPROVE"
    /\ IsLast(a)
    /\ LET s == [Noted(a) EXCEPT !.stale = @ /\ ~(mgm[a].improve > 0)]
       IN  /\ SendOk(a, s)
           /\ IF Halts(s)
                 THEN /\ mgm' = [mgm EXCEPT ![a] = Advanced(s)]
                      /\ counter' = [counter EXCEPT ![a] = Counted(a)]
                      /\ UNCHANGED <<agent_view, mode>>
                 ELSE /\ mgm' = [mgm EXCEPT ![a] =
                                    [Advanced(s) EXCEPT !.changed = FALSE]]
                      /\ counter' = [counter EXCEPT ![a] = 0]
                      /\ agent_view' = [agent_view EXCEPT ![a] = Forgotten(a)]
                      /\ mode' = [mode EXCEPT ![a] = "WAIT_OK"]

(* MGM_END *)
End(a) ==
    /\ Receives(a)
    /\ Message(a).kind = "END"
    /\ stop' = [stop EXCEPT ![a] = TRUE]
    /\ why' = [why EXCEPT ![a] = "end"]
    /\ UNCHANGED <<view, agent_view, mgm, mode, counter, out>>

(* MGM_START: the first round begins; an agent without neighbors just      *)
(* improves its assignment by itself.                                      *)
Start(a) ==
    /\ Receives(a)
    /\ Message(a).kind = "START"
    /\ NeighborList[a] # <<>>
    /\ SendOk(a, mgm[a])
    /\ mgm' = [mgm EXCEPT ![a] = Advanced(@)]
    /\ UNCHANGED <<agent_view, mode, counter>>

StartAlone(a) ==
    /\ Receives(a)
    /\ Message(a).kind = "START"
    /\ NeighborList[a] = <<>>
    /\ \E o \in Improvements(a, mgm[a], view[a]) :
          /\ mgm' = [mgm EXCEPT ![a] = Improved(@, o)]
          /\ view' = [view EXCEPT ![a] = o.new_view]
    /\ stop' = [stop EXCEPT ![a] = TRUE]
    /\ why' = [why EXCEPT ![a] = "alone"]
    /\ UNCHANGED <<agent_view, mode, counter, out>>

(* agent_send *)
SendNext(a) ==
    /\ out[a] # <<>>
    /\ queue' = [queue EXCEPT ![Head(out[a]).to] = Append(@, Head(out[a]).msg)]
    /\ out' = [out EXCEPT ![a] = Tail(@)]
    /\ UNCHANGED <<view, agent_view, mgm, mode, counter, stop, why,
                   ready, roi, mainVars, kill>>

(* The calls at both ends of the thread function. *)
EnterRegion(a) ==
    /\ Barrier!StartROI(a)
    /\ UNCHANGED <<agentVars, mainVars, kill>>

LeaveRegion(a) ==
    /\ stop[a] /\ out[a] = <<>>
    /\ Barrier!StopROI(a)
    /\ UNCHANGED <<agentVars, mainVars, kill>>

PassBarrier(a) ==
    /\ Barrier!Return(a)
    /\ UNCHANGED <<agentVars, mainVars, kill>>

AgentStep(a) ==
    \/ OkButNotLast(a) \/ LastOk(a)
    \/ ImproveButNotLast(a) \/ LastImprove(a)
    \/ End(a) \/ Start(a) \/ StartAlone(a)
    \/ SendNext(a)
    \/ EnterRegion(a) \/ LeaveRegion(a) \/ PassBarrier(a)

-----------------------------------------------------------------------------
(* mgm_run *)
SendStart ==
    /\ main.phase = "start"
    /\ queue' = [queue EXCEPT ![main.next] =
                    Append(@, [kind |-> "START", from |-> Null])]
    /\ main' = IF main.next = N THEN [phase |-> "join", next |-> 1]
                                ELSE [main EXCEPT !.next = @ + 1]
    /\ UNCHANGED <<view, agent_view, mgm, mode, counter, stop, out, why,
                   ready, roi, verdict, warned, kill>>

(* mgm_cleanup: join the threads in turn and collect their verdicts. *)
Join ==
    /\ main.phase = "join"
    /\ roi[main.next] = "outside"
    /\ verdict' = (verdict /\ mgm[main.next].consistent)
    /\ main' = IF main.next = N THEN [phase |-> "merge", next |-> 1]
                                ELSE [main EXCEPT !.next = @ + 1]
    /\ UNCHANGED <<agentVars, ready, roi, warned, kill>>

(* dcop_merge_view, one agent after the other: the hardware view is        *)
(* compared with each agent's view but the first before it is overridden.  *)
HardwareView[i \in 0 .. N] ==
    IF i = 0 THEN Cleared ELSE Merge(HardwareView[i - 1], view[i])

MergeViews ==
    /\ main.phase = "merge"
    /\ main' = [main EXCEPT !.phase = "done"]
    /\ warned' = \E i \in 2 .. N : ~Compare(HardwareView[i - 1], view[i])
    /\ UNCHANGED <<agentVars, ready, roi, verdict, kill>>

MainStep == SendStart \/ Join \/ MergeViews

(* mgm_kill, called by sigint_handler *)
SendKill ==
    /\ KillEnabled
    /\ kill <= N
    /\ main.phase # "done"
    /\ queue' = [queue EXCEPT ![kill] = Append(@, [kind |-> "END", from |-> Null])]
    /\ kill' = kill + 1
    /\ UNCHANGED <<view, agent_view, mgm, mode, counter, stop, out, why,
                   ready, roi, mainVars>>

Terminating == main.phase = "done" /\ UNCHANGED vars

Next ==
    \/ \E a \in Agents : AgentStep(a)
    \/ MainStep
    \/ SendKill
    \/ Terminating

(* As long as a thread can go on, the operating system lets some thread go *)
(* on, and a handler that has begun runs to its end; whether SIGINT        *)
(* arrives is open.                                                        *)
Progress ==
    \/ \E a \in Agents : AgentStep(a)
    \/ MainStep
    \/ kill > 1 /\ SendKill

Spec == Init /\ [][Next]_vars /\ WF_vars(Progress)

-----------------------------------------------------------------------------
(* Agents that have no more moves to decide: the IMPROVE phase of their    *)
(* round is over.                                                          *)
Decided(a) == mode[a] = "WAIT_OK" /\ mgm[a].term > 0

(* Two neighbors never change the assignment in the same round, whatever   *)
(* ties there are between their improvements and however their messages    *)
(* interleave: each would be improving an assignment that no longer exists.*)
NeighborsNeverMoveTogether ==
    \A a \in Agents : \A b \in Neighbors(a) :
        ~ /\ Decided(a) /\ Decided(b)
          /\ mgm[a].term = mgm[b].term
          /\ mgm[a].can_move /\ mgm[b].can_move

(* The handlers count messages and never look whose they are.  Still the   *)
(* counter of the OK phase is the number of neighbors whose view is in,    *)
(* and no mailbox ever holds two unread messages of one phase from one     *)
(* neighbor, though nothing but the alternation of the two filters keeps   *)
(* the rounds apart.                                                       *)
CounterCountsNeighbors ==
    \A a \in Agents : mode[a] = "WAIT_OK" =>
        counter[a] = Cardinality({b \in Neighbors(a) : agent_view[a][b] # Cleared})

OneMessagePerPhase ==
    \A a \in Agents : \A b \in Neighbors(a) : \A k \in {"OK", "IMPROVE"} :
        Cardinality({i \in DOMAIN queue[a] :
                        queue[a][i].from = b /\ queue[a][i].kind = k}) <= 1

RoundsStayApart == CounterCountsNeighbors /\ OneMessagePerPhase

(* In a complete graph all agents have the same assignment before their    *)
(* eyes while they compute and compare their improvements.                 *)
InImprovePhase(a) == mode[a] = "WAIT_IMPROVE" /\ ~stop[a]
ImprovingTheSameView ==
    \A a, b \in Agents :
        InImprovePhase(a) /\ InImprovePhase(b) /\ mgm[a].term = mgm[b].term
            => view[a] = view[b]

(* In a complete graph the final views are one assignment, so main has no  *)
(* reason to warn that they are inconsistent.                              *)
NoInconsistentView == ~warned

(* Unless an MGM_START was overtaken, the verdict that main prints says    *)
(* whether the utilities that the agents had last computed, for the final  *)
(* assignment, are all finite.                                             *)
Overtaken == \E a \in Agents : why[a] = "overtaken"
VerdictIsRight ==
    main.phase \in {"merge", "done"} /\ ~Overtaken =>
        (verdict <=> \A a \in Agents : mgm[a].eval = "finite")

(* "stop algorithm if no agent has changed its resource assignment"        *)
(* (mgm.c:105): when an agent stops for that reason, no agent has found an *)
(* improvement in this round.                                              *)
Quiet == \A a \in Agents : mgm[a].improve = 0
StaleStopIsQuiet == (\E a \in Agents : why[a] \in {"stale", "overtaken"}) => Quiet

(* In a complete graph nothing but a START that neighbors' views have       *)
(* overtaken makes an agent stop too early: the one that finds its round    *)
(* stale is right, even when others have stopped for the wrong reason.      *)
OnlyOvertakenStopsAreEarly == (\E a \in Agents : why[a] = "stale") => Quiet

(* Every agent stops, all leave the region, and main gets its result.      *)
Termination == <>(main.phase = "done")

(* SIGINT ends the program in whatever phases it finds the agents, also    *)
(* where they wait for each other forever.                                 *)
KillTerminates == kill > 1 ~> main.phase = "done"

(* The rounds of a complete graph are a sequence of moves by one agent at  *)
(* a time on one assignment.  That assignment is the view of an agent that *)
(* is ahead: one that has taken the last move in, or that made it.         *)
Connected == {a \in Agents : NeighborList[a] # <<>>}
LastTerm == Max({mgm[a].term : a \in Connected})
Ahead == {a \in Connected : mgm[a].term = LastTerm}
Movers == {a \in Ahead : Decided(a) /\ mgm[a].can_move}
UpToDate ==
    LET settled == {a \in Ahead : mode[a] = "WAIT_IMPROVE"}
    IN  IF settled # {} THEN settled ELSE IF Movers # {} THEN Movers ELSE Ahead

Search == INSTANCE AssignmentSearch WITH
             assignment <- view[CHOOSE a \in UpToDate : TRUE]
IsAssignmentSearch == Search!Spec
=============================================================================
