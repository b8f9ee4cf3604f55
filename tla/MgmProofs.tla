----------------------------- MODULE MgmProofs -----------------------------
(***************************************************************************)
(* Proofs about the rounds of MGM, for any number of agents, any symmetric *)
(* neighbors, any resources and any search, and with SIGINT or without:    *)
(* the two filters keep the rounds of neighbors apart, and two neighbors   *)
(* never move in the same round.  Then, about agents that are all          *)
(* neighbors of each other: they improve one assignment, what stops them,  *)
(* that they end with one assignment, that the verdict is on it, and that  *)
(* the rounds amount to a search that changes one assignment at a time.    *)
(***************************************************************************)
EXTENDS Mgm, MessageListProofs, FiniteSetTheorems

(* Messages of a kind from an agent: whether a mailbox holds one, whether  *)
(* it holds no two of them, and whether the agent is still to send one.    *)
IsFrom(m, b, k) == m.from = b /\ m.kind = k
Holds(list, b, k) == \E i \in DOMAIN list : IsFrom(list[i], b, k)
Once(list, b, k) ==
    \A i, j \in DOMAIN list : IsFrom(list[i], b, k) /\ IsFrom(list[j], b, k) => i = j
Sends(list, a, k) == \E i \in DOMAIN list : list[i].to = a /\ list[i].msg.kind = k

Phases == {"OK", "IMPROVE"}
Pending(b, a, k) == Holds(queue[a], b, k) \/ Sends(out[b], a, k)

(* An agent that has stopped in send_ok has counted one round more than it *)
(* has been in.  The phases of an agent are numbered: it waits for OK      *)
(* messages of round r in phase 2 * r, and for IMPROVE messages in the     *)
(* next.  Before its START it is in phase 0, and reads OK messages of the  *)
(* first round already; phase 1 is that of an agent with an overtaken one. *)
Halted(a) == why[a] \in {"distance", "stale", "overtaken"}
Improving(a) == mode[a] = "WAIT_IMPROVE"
Round(a) == IF Halted(a) THEN mgm[a].term - 1 ELSE mgm[a].term
Phase(a) == IF Improving(a) THEN 2 * Round(a) + 1 ELSE 2 * Round(a)
Reads(a) == IF Round(a) = 0 THEN 1 ELSE Round(a)

Heard(a, b) == agent_view[a][b] # Cleared
Compared(a, b) ==
    /\ Improving(a) /\ Round(a) > 0 /\ Phase(b) >= Phase(a)
    /\ ~Pending(b, a, "IMPROVE")

InStep(p, q) ==
    \/ p \in {0, 2} /\ q \in {0, 2}
    \/ p = 1 /\ q = 2
    \/ p = 2 /\ q = 1
    \/ p >= 2 /\ q >= 2 /\ p <= q + 1 /\ q <= p + 1

Beats(a, b) ==
    \/ mgm[a].improve > mgm[b].improve
    \/ mgm[a].improve = mgm[b].improve /\ a < b

(* What a knows of its neighbor b, and what is still on its way from b.    *)
OkLink(a, b) ==
    /\ Improving(a) => Heard(a, b)
    /\ Heard(a, b) => Round(b) > 0 /\ Round(b) >= Reads(a)
    /\ Pending(b, a, "OK") <=>
          Round(b) > 0 /\ (Round(b) > Reads(a) \/ (Round(b) = Reads(a) /\ ~Heard(a, b)))

ImproveLink(a, b) ==
    /\ ~Improving(a) => (Pending(b, a, "IMPROVE") <=>
                            Improving(b) /\ Phase(b) \in {Phase(a) + 1, 1})
    /\ Improving(a) /\ Pending(b, a, "IMPROVE") => Phase(b) >= Phase(a) /\ Round(a) > 0

MoveLink(a, b) ==
    /\ mgm[a].can_move
    /\ Compared(a, b) \/ (~Improving(a) /\ Phase(b) <= Phase(a))
    => Beats(a, b)

Link(a, b) == InStep(Phase(a), Phase(b)) /\ OkLink(a, b) /\ ImproveLink(a, b) /\ MoveLink(a, b)

(* A message of a phase tells what its sender has found out in that phase. *)
Searched(a) == IF Improving(a) THEN Round(a) ELSE Round(a) - 1
Truthful(m) ==
    m.kind = "IMPROVE" => m.improve = mgm[m.from].improve /\ m.term = Searched(m.from)

MailInv(a) ==
    /\ \A i \in DOMAIN queue[a] : queue[a][i].kind \in Phases =>
          queue[a][i].from \in Neighbors(a) /\ Truthful(queue[a][i])
    /\ \A i \in DOMAIN out[a] : /\ out[a][i].to \in Neighbors(a)
                                /\ out[a][i].msg.from = a
                                /\ out[a][i].msg.kind \in {"OK", "IMPROVE", "END"}
                                /\ Truthful(out[a][i].msg)
    /\ \A i, j \in DOMAIN out[a] : out[a][i].to = out[a][j].to => i = j
    /\ \A b \in Neighbors(a), k \in Phases :
          Once(queue[a], b, k) /\ ~ (Holds(queue[a], b, k) /\ Sends(out[b], a, k))

(* main sends every agent one START. *)
StartIsSent(a) == main.phase # "start" \/ main.next > a
StartInv(a) ==
    /\ Once(queue[a], Null, "START")
    /\ Holds(queue[a], Null, "START") => StartIsSent(a) /\ mgm[a].term = 0
    /\ ~StartIsSent(a) => mgm[a].term = 0
    /\ \A i \in DOMAIN queue[a] : queue[a][i].kind = "START" => queue[a][i].from = Null

HeardFrom(a) == {b \in Neighbors(a) : Heard(a, b)}
ComparedWith(a) == {b \in Neighbors(a) : Compared(a, b)}
CounterInv(a) ==
    /\ ~Improving(a) => counter[a] = Cardinality(HeardFrom(a))
    /\ Improving(a) /\ ~Halted(a) => counter[a] = Cardinality(ComparedWith(a))

AgentInv(a) ==
    /\ Halted(a) => stop[a] /\ mgm[a].term > 0
    /\ ~Halted(a) => mgm[a].term < MaxDistance
    /\ Phase(a) \in {0, 2} => ~mgm[a].can_move
    /\ Phase(a) = 1 /\ ~Halted(a) => mgm[a].stale
    /\ \A b \in Agents : Heard(a, b) => agent_view[a][b] \in KnownViewsOver(Agents)

IInv ==
    /\ TypeOK
    /\ \A a \in Agents : MailInv(a) /\ StartInv(a) /\ CounterInv(a) /\ AgentInv(a)
    /\ \A a \in Agents : \A b \in Neighbors(a) : Link(a, b)

-----------------------------------------------------------------------------
(* The agents are finitely many, and main is none of them. *)
LEMMA AgentFacts ==
    /\ N \in Nat /\ N > 0 /\ Agents \subseteq Nat
    /\ IsFiniteSet(Agents) /\ Cardinality(Agents) = N
    /\ Null \notin Agents
BY NAssumption, FS_Interval DEF Agents, Null

LEMMA ChosenCount ==
    ASSUME NEW S, S \subseteq Agents
    PROVE  IsFiniteSet(S) /\ Cardinality(S) \in 0 .. N
<1>1. IsFiniteSet(S) /\ Cardinality(S) <= N
  BY AgentFacts, FS_Subset
<1>. QED
  BY <1>1, AgentFacts, FS_CardinalityType

(* The list of an agent's neighbors names each of them once. *)
LEMMA NeighborFacts ==
    ASSUME NEW a \in Agents
    PROVE  /\ NeighborList[a] \in Seq(Agents)
           /\ Len(NeighborList[a]) = Cardinality(Neighbors(a))
           /\ Len(NeighborList[a]) \in 0 .. N
           /\ Neighbors(a) \subseteq Agents /\ IsFiniteSet(Neighbors(a))
           /\ a \notin Neighbors(a)
           /\ \A b \in Agents : b \in Neighbors(a) <=> a \in Neighbors(b)
           /\ \A i \in DOMAIN NeighborList[a] : NeighborList[a][i] \in Neighbors(a)
           /\ \A b \in Neighbors(a) : \E i \in DOMAIN NeighborList[a] : NeighborList[a][i] = b
           /\ NeighborList[a] = <<>> <=> Neighbors(a) = {}
<1>. DEFINE list == NeighborList[a]
<1>1. list \in Seq(Agents) /\ Len(list) = Cardinality(Neighbors(a))
  BY NeighborAssumption
<1>2. Neighbors(a) = {list[i] : i \in DOMAIN list}
  BY DEF Neighbors, ToSet
<1>3. DOMAIN list = 1 .. Len(list) /\ \A i \in 1 .. Len(list) : list[i] \in Agents
  BY <1>1
<1>4. Neighbors(a) \subseteq Agents
  BY <1>2, <1>3
<1>5. IsFiniteSet(Neighbors(a)) /\ Cardinality(Neighbors(a)) \in 0 .. N
  BY <1>4, ChosenCount
<1>6. /\ a \notin Neighbors(a)
      /\ \A b \in Agents : b \in Neighbors(a) <=> a \in Neighbors(b)
  BY NeighborAssumption
<1>7. list = <<>> <=> Neighbors(a) = {}
  <2>1. Cardinality(Neighbors(a)) = 0 <=> Neighbors(a) = {}
    BY <1>5, FS_EmptySet
  <2>2. list = <<>> <=> Len(list) = 0
    BY <1>1, EmptySeq
  <2>. QED
    BY <1>1, <2>1, <2>2
<1>. QED
  BY <1>1, <1>2, <1>4, <1>5, <1>6, <1>7

LEMMA NeighborsAreListedOnce ==
    ASSUME NEW a \in Agents, NEW i \in DOMAIN NeighborList[a],
           NEW j \in DOMAIN NeighborList[a], NeighborList[a][i] = NeighborList[a][j]
    PROVE  i = j
<1>. DEFINE list == NeighborList[a]
            D == 1 .. Len(list)
<1>1. list \in Seq(Agents) /\ DOMAIN list = D /\ Len(list) = Cardinality(Neighbors(a))
  BY NeighborFacts
<1>2. IsFiniteSet(D) /\ Cardinality(D) = Cardinality(Neighbors(a))
  <2>1. Len(list) \in Nat
    BY <1>1
  <2>. QED
    BY <1>1, <2>1, FS_Interval
<1>3. list \in Surjection(D, Neighbors(a))
  <2>1. list \in [D -> Agents] /\ \A k \in D : list[k] \in Neighbors(a)
    BY <1>1, NeighborFacts
  <2>2. \A b \in Neighbors(a) : \E k \in D : list[k] = b
    BY <1>1, NeighborFacts
  <2>. QED
    BY <2>1, <2>2 DEF Surjection
<1>4. list \in Injection(D, Neighbors(a))
  BY <1>2, <1>3, FS_SurjSameCardinalityImpliesInj
<1>5. \A k, l \in D : list[k] = list[l] => k = l
  <2>. HIDE DEF list, D
  <2>. QED
    BY <1>4 DEF Injection, IsInjective
<1>6. i \in D /\ j \in D /\ list[i] = list[j]
  BY <1>1
<1>. QED
  BY <1>5, <1>6

(* Counting chosen neighbors: one more, and all but one. *)
LEMMA OneMore ==
    ASSUME NEW a \in Agents, NEW S, S \subseteq Neighbors(a), NEW b \in Neighbors(a) \ S
    PROVE  Cardinality(S \union {b}) = Cardinality(S) + 1
BY NeighborFacts, FS_Subset, FS_AddElement

LEMMA TheLastOne ==
    ASSUME NEW a \in Agents, NEW S, S \subseteq Neighbors(a), NEW b \in Neighbors(a) \ S,
           Cardinality(S) + 1 = Cardinality(Neighbors(a))
    PROVE  S \union {b} = Neighbors(a)
<1>1. S \union {b} \subseteq Neighbors(a) /\ IsFiniteSet(Neighbors(a))
  BY NeighborFacts
<1>. QED
  BY <1>1, OneMore, FS_Subset

LEMMA NoneChosen == Cardinality({}) = 0
BY FS_EmptySet

(* A view that an agent sends is never the empty one. *)
LEMMA KnownViews ==
    /\ KnownViewsOver(Agents) \subseteq ViewsOver(Agents)
    /\ Cleared \in ViewsOver(Agents)
    /\ \A v \in KnownViewsOver(Agents) : v # Cleared
<1>1. Unknown \notin Agents \union {Free}
  BY DEF Unknown, Free, Agents
<1>2. ASSUME NEW v \in KnownViewsOver(Agents) PROVE v # Cleared
  <2>1. PICK r \in Resources : TRUE
    BY ResourcesAssumption
  <2>. QED
    BY <1>1, <2>1 DEF KnownViewsOver, Cleared
<1>. QED
  BY <1>2 DEF KnownViewsOver, ViewsOver, Cleared

-----------------------------------------------------------------------------
(* A mailbox to which a message is appended, and one from which the first  *)
(* acceptable message is taken.                                            *)
LEMMA Appended ==
    ASSUME NEW list \in Seq(Messages), NEW m \in Messages, NEW q, q = Append(list, m)
    PROVE  /\ q \in Seq(Messages)
           /\ \A i \in DOMAIN q : q[i] = m \/ \E j \in DOMAIN list : q[i] = list[j]
           /\ \A b, k : Holds(q, b, k) <=> Holds(list, b, k) \/ IsFrom(m, b, k)
           /\ \A b, k : Once(list, b, k) /\ ~ (Holds(list, b, k) /\ IsFrom(m, b, k))
                            => Once(q, b, k)
<1>1. /\ q \in Seq(Messages) /\ Len(list) \in Nat
      /\ DOMAIN list = 1 .. Len(list) /\ DOMAIN q = 1 .. Len(list) + 1
      /\ \A i \in 1 .. Len(list) : q[i] = list[i]
      /\ q[Len(list) + 1] = m
  OBVIOUS
<1>2. \A i \in DOMAIN q : i \in DOMAIN list \/ i = Len(list) + 1
  BY <1>1
<1>3. Len(list) + 1 \in DOMAIN q /\ DOMAIN list \subseteq DOMAIN q
  BY <1>1
<1>4. ASSUME NEW b, NEW k PROVE Holds(q, b, k) <=> Holds(list, b, k) \/ IsFrom(m, b, k)
  BY <1>1, <1>2, <1>3 DEF Holds
<1>5. ASSUME NEW b, NEW k, Once(list, b, k), ~ (Holds(list, b, k) /\ IsFrom(m, b, k))
      PROVE  Once(q, b, k)
  BY <1>1, <1>2, <1>5 DEF Holds, Once
<1>. QED
  BY <1>1, <1>2, <1>4, <1>5

LEMMA Taken ==
    ASSUME NEW list \in Seq(Messages), NEW kinds, Acceptable(list, kinds) # {},
           NEW m, m = Found(list, kinds), NEW q, q = Unlinked(list, kinds)
    PROVE  /\ m \in Messages /\ m.kind \in kinds /\ \E j \in DOMAIN list : m = list[j]
           /\ q \in Seq(Messages)
           /\ \A i \in DOMAIN q : \E j \in DOMAIN list : q[i] = list[j]
           /\ \A b, k : Holds(q, b, k) => Holds(list, b, k)
           /\ \A b, k : Once(list, b, k) =>
                 /\ Once(q, b, k)
                 /\ Holds(q, b, k) <=> Holds(list, b, k) /\ ~ IsFrom(m, b, k)
<1>. DEFINE f == FirstAcceptable(list, kinds)
            Old(i) == IF i < f THEN i ELSE i + 1
<1>1. m \in Messages /\ m.kind \in kinds
  BY FoundType
<1>2. f \in 1 .. Len(list) /\ m = list[f]
  BY FirstAcceptableProperties DEF Found
<1>3. /\ q \in Seq(Messages) /\ Len(q) = Len(list) - 1
      /\ \A i \in 1 .. Len(list) - 1 : q[i] = IF i < f THEN list[i] ELSE list[i + 1]
  BY <1>2, RemoveAtType DEF Unlinked
<1>4. DOMAIN list = 1 .. Len(list) /\ DOMAIN q = 1 .. Len(list) - 1 /\ Len(list) \in Nat
  BY <1>3
<1>. HIDE DEF f
<1>5. \A i \in DOMAIN q : Old(i) \in DOMAIN list /\ Old(i) # f /\ q[i] = list[Old(i)]
  BY <1>2, <1>3, <1>4
<1>6. \A i, j \in DOMAIN q : Old(i) = Old(j) => i = j
  BY <1>2, <1>4
<1>7. \A j \in DOMAIN list : j # f => \E i \in DOMAIN q : Old(i) = j
  <2>. SUFFICES ASSUME NEW j \in DOMAIN list, j # f
                PROVE  \E i \in DOMAIN q : Old(i) = j
    OBVIOUS
  <2>1. CASE j < f
    BY <1>2, <1>4, <2>1
  <2>2. CASE j > f
    <3>1. j - 1 \in DOMAIN q /\ Old(j - 1) = j
      BY <1>2, <1>4, <2>2
    <3>. QED
      BY <3>1
  <2>. QED
    BY <1>2, <1>4, <2>1, <2>2
<1>. HIDE DEF Old
<1>8. ASSUME NEW b, NEW k PROVE Holds(q, b, k) => Holds(list, b, k)
  BY <1>5 DEF Holds
<1>9. ASSUME NEW b, NEW k, Once(list, b, k)
      PROVE  /\ Once(q, b, k)
             /\ Holds(q, b, k) <=> Holds(list, b, k) /\ ~ IsFrom(m, b, k)
  <2>1. Once(q, b, k)
    BY <1>5, <1>6, <1>9 DEF Once
  <2>2. ASSUME Holds(q, b, k) PROVE ~ IsFrom(m, b, k)
    BY <1>2, <1>4, <1>5, <1>9, <2>2 DEF Holds, Once
  <2>3. ASSUME Holds(list, b, k), ~ IsFrom(m, b, k) PROVE Holds(q, b, k)
    <3>1. PICK j \in DOMAIN list : IsFrom(list[j], b, k)
      BY <2>3 DEF Holds
    <3>2. j # f
      BY <1>2, <2>3, <3>1
    <3>3. PICK i \in DOMAIN q : Old(i) = j
      BY <1>7, <3>2
    <3>. QED
      BY <1>5, <3>1, <3>3 DEF Holds
  <2>. QED
    BY <1>8, <2>1, <2>2, <2>3
<1>10. \E j \in DOMAIN list : m = list[j]
  BY <1>2, <1>4
<1>11. \A i \in DOMAIN q : \E j \in DOMAIN list : q[i] = list[j]
  BY <1>5
<1>. QED
  BY <1>1, <1>3, <1>8, <1>9, <1>10, <1>11

-----------------------------------------------------------------------------
(* What the types of the variables say of one agent and of one message.    *)
LEMMA AgentTypes ==
    ASSUME TypeOK, NEW a \in Agents
    PROVE  /\ queue[a] \in Seq(Messages)
           /\ out[a] \in Seq([to : Agents, msg : Messages])
           /\ view[a] \in KnownViewsOver(Agents)
           /\ agent_view[a] \in [Agents -> ViewsOver(Agents)]
           /\ mgm[a] \in MgmAgents /\ mgm[a].new_view \in KnownViewsOver(Agents)
           /\ mgm[a].term \in Nat /\ mgm[a].term <= MaxDistance
           /\ mgm[a].improve \in Nat /\ mgm[a].improve <= Infinite
           /\ mgm[a].can_move \in BOOLEAN /\ mgm[a].consistent \in BOOLEAN
           /\ mgm[a].stale \in BOOLEAN /\ mgm[a].changed \in BOOLEAN
           /\ mgm[a].eval \in {"finite", "INF"}
           /\ mode[a] \in {"WAIT_OK", "WAIT_IMPROVE"}
           /\ counter[a] \in Nat /\ stop[a] \in BOOLEAN
           /\ Improving(a) \in BOOLEAN /\ Halted(a) \in BOOLEAN
<1>1. MaxDistance \in Nat /\ Infinite \in Nat
  BY DistanceAssumption, ImproveAssumption DEF Infinite
<1>2. mgm[a] \in MgmAgents
  BY DEF TypeOK
<1>3. /\ mgm[a].term \in 0 .. MaxDistance /\ mgm[a].improve \in 0 .. Infinite
      /\ mgm[a].can_move \in BOOLEAN /\ mgm[a].consistent \in BOOLEAN
      /\ mgm[a].stale \in BOOLEAN /\ mgm[a].changed \in BOOLEAN
      /\ mgm[a].eval \in {"finite", "INF"}
      /\ mgm[a].new_view \in KnownViewsOver(Agents)
  BY <1>2 DEF MgmAgents
<1>4. /\ mgm[a].term \in Nat /\ mgm[a].term <= MaxDistance
      /\ mgm[a].improve \in Nat /\ mgm[a].improve <= Infinite
  BY <1>1, <1>3
<1>5. /\ queue[a] \in Seq(Messages)
      /\ out[a] \in Seq([to : Agents, msg : Messages])
      /\ view[a] \in KnownViewsOver(Agents)
      /\ agent_view[a] \in [Agents -> ViewsOver(Agents)]
      /\ mode[a] \in {"WAIT_OK", "WAIT_IMPROVE"} /\ stop[a] \in BOOLEAN
  BY DEF TypeOK
<1>6. counter[a] \in Nat
  <2>1. counter[a] \in 0 .. N
    BY DEF TypeOK
  <2>. QED
    BY <2>1, AgentFacts
<1>. QED
  BY <1>2, <1>3, <1>4, <1>5, <1>6 DEF Improving, Halted

LEMMA PhaseFacts ==
    ASSUME TypeOK, NEW a \in Agents, AgentInv(a)
    PROVE  /\ Round(a) \in Nat /\ Round(a) <= MaxDistance
           /\ Phase(a) = IF Improving(a) THEN 2 * Round(a) + 1 ELSE 2 * Round(a)
           /\ Reads(a) = IF Round(a) = 0 THEN 1 ELSE Round(a)
           /\ Searched(a) = IF Improving(a) THEN Round(a) ELSE Round(a) - 1
BY AgentTypes, DistanceAssumption DEF Round, Phase, Reads, Searched, AgentInv

LEMMA MessageTypes ==
    ASSUME NEW m \in Messages
    PROVE  /\ m.from \in Agents \union {Null}
           /\ m.kind \in {"OK", "IMPROVE", "START", "END"}
           /\ m.kind = "OK" => m.from \in Agents /\ m.view \in KnownViewsOver(Agents)
           /\ m.kind = "IMPROVE" =>
                 /\ m.from \in Agents /\ m.eval \in Evals
                 /\ m.improve \in Nat /\ m.improve <= Infinite
                 /\ m.term \in Nat /\ m.term <= MaxDistance
<1>1. MaxDistance \in Nat /\ Infinite \in Nat
  BY DistanceAssumption, ImproveAssumption DEF Infinite
<1>2. CASE m \in OkMessages
  BY <1>2 DEF OkMessages
<1>3. CASE m \in ImproveMessages
  <2>1. /\ m.kind = "IMPROVE" /\ m.from \in Agents /\ m.eval \in Evals
        /\ m.improve \in 0 .. Infinite /\ m.term \in 0 .. MaxDistance
    BY <1>3 DEF ImproveMessages
  <2>. QED
    BY <1>1, <2>1
<1>4. CASE m \in ControlMessages
  BY <1>4 DEF ControlMessages
<1>. QED
  BY <1>2, <1>3, <1>4 DEF Messages

LEMMA EntryOfList ==
    ASSUME NEW S, NEW list \in Seq(S), NEW i \in DOMAIN list
    PROVE  list[i] \in S
OBVIOUS

LEMMA OutTypes ==
    ASSUME TypeOK, NEW a \in Agents, NEW i \in DOMAIN out[a]
    PROVE  out[a][i].to \in Agents /\ out[a][i].msg \in Messages
<1>. DEFINE S == [to : Agents, msg : Messages]
<1>1. out[a] \in Seq(S)
  BY AgentTypes
<1>2. out[a][i] \in S
  <2>. HIDE DEF S
  <2>. QED
    BY <1>1, EntryOfList
<1>. QED
  BY <1>2

(* The messages to all neighbors: one for each, all the same.              *)
LEMMA ToNeighborsFacts ==
    ASSUME NEW a \in Agents, NEW msg \in Messages, NEW o, o = ToNeighbors(a, msg)
    PROVE  /\ o \in Seq([to : Agents, msg : Messages])
           /\ \A i \in DOMAIN o : o[i].to \in Neighbors(a) /\ o[i].msg = msg
           /\ \A i, j \in DOMAIN o : o[i].to = o[j].to => i = j
           /\ \A b \in Neighbors(a) : \A k : Sends(o, b, k) <=> msg.kind = k
<1>1. /\ DOMAIN NeighborList[a] = 1 .. Len(NeighborList[a])
      /\ Len(NeighborList[a]) \in Nat
      /\ DOMAIN o = DOMAIN NeighborList[a]
      /\ \A i \in DOMAIN o : o[i] = [to |-> NeighborList[a][i], msg |-> msg]
  BY NeighborFacts DEF ToNeighbors
<1>2. \A i \in DOMAIN o : NeighborList[a][i] \in Neighbors(a) /\ NeighborList[a][i] \in Agents
  BY <1>1, NeighborFacts
<1>3. ASSUME NEW i \in DOMAIN o
      PROVE  /\ o[i] \in [to : Agents, msg : Messages]
             /\ o[i].to = NeighborList[a][i] /\ o[i].msg = msg
  <2>1. o[i] = [to |-> NeighborList[a][i], msg |-> msg] /\ NeighborList[a][i] \in Agents
    BY <1>1, <1>2
  <2>. QED
    BY <2>1
<1>4. o = [i \in 1 .. Len(NeighborList[a]) |-> [to |-> NeighborList[a][i], msg |-> msg]]
  BY <1>1 DEF ToNeighbors
<1>5. o \in Seq([to : Agents, msg : Messages])
  <2>. DEFINE n == Len(NeighborList[a])
              F(i) == o[i]
  <2>1. n \in Nat /\ \A i \in 1 .. n : F(i) \in [to : Agents, msg : Messages]
    BY <1>1, <1>3
  <2>2. o = [i \in 1 .. n |-> F(i)]
    BY <1>4
  <2>. HIDE DEF n, F
  <2>. QED
    BY <2>1, <2>2
<1>6. \A i \in DOMAIN o : o[i].to = NeighborList[a][i] /\ o[i].msg = msg
  BY <1>3
<1>7. \A i, j \in DOMAIN o : o[i].to = o[j].to => i = j
  BY <1>1, <1>6, NeighborsAreListedOnce
<1>8. ASSUME NEW b \in Neighbors(a), NEW k PROVE Sends(o, b, k) <=> msg.kind = k
  <2>1. PICK i \in DOMAIN NeighborList[a] : NeighborList[a][i] = b
    BY NeighborFacts
  <2>2. i \in DOMAIN o /\ o[i].to = b
    BY <1>1, <1>6, <2>1
  <2>. QED
    BY <1>6, <2>2 DEF Sends
<1>. QED
  BY <1>2, <1>5, <1>6, <1>7, <1>8

-----------------------------------------------------------------------------
(* Steps that leave what the links speak of as it is.                      *)
Same(a) ==
    /\ mgm'[a] = mgm[a] /\ mode'[a] = mode[a] /\ why'[a] = why[a]
    /\ stop'[a] = stop[a] /\ counter'[a] = counter[a]
    /\ agent_view'[a] = agent_view[a]

SamePending(b, a) == \A k \in Phases : Pending(b, a, k)' <=> Pending(b, a, k)

(* Phases alone: what a knows of others may change.                        *)
SamePhase(a) ==
    /\ Improving(a)' <=> Improving(a)
    /\ Round(a)' = Round(a) /\ Phase(a)' = Phase(a) /\ Reads(a)' = Reads(a)
    /\ Searched(a)' = Searched(a)

LEMMA PhaseKept ==
    ASSUME NEW a, mode'[a] = mode[a], Round(a)' = Round(a)
    PROVE  SamePhase(a)
<1>1. Improving(a)' <=> Improving(a)
  BY DEF Improving
<1>2. Round(a)' = Round(a)
  OBVIOUS
<1>3. Phase(a)' = Phase(a) /\ Reads(a)' = Reads(a) /\ Searched(a)' = Searched(a)
  BY <1>1, <1>2 DEF Phase, Reads, Searched
<1>. QED
  BY <1>1, <1>2, <1>3 DEF SamePhase

LEMMA SameFacts ==
    ASSUME NEW a, Same(a)
    PROVE  /\ Improving(a)' <=> Improving(a)
           /\ Halted(a)' <=> Halted(a)
           /\ Round(a)' = Round(a) /\ Phase(a)' = Phase(a) /\ Reads(a)' = Reads(a)
           /\ Searched(a)' = Searched(a)
           /\ SamePhase(a)
           /\ \A b : Heard(a, b)' <=> Heard(a, b)
           /\ AgentInv(a) => AgentInv(a)'
<1>1. Halted(a)' <=> Halted(a)
  BY DEF Same, Halted
<1>2. SamePhase(a)
  <2>1. Round(a)' = Round(a)
    BY <1>1 DEF Same, Round
  <2>. QED
    BY <2>1, PhaseKept DEF Same
<1>3. \A b : Heard(a, b)' <=> Heard(a, b)
  BY DEF Same, Heard, Cleared
<1>4. AgentInv(a) => AgentInv(a)'
  BY <1>1, <1>2, <1>3 DEF Same, SamePhase, AgentInv
<1>. QED
  BY <1>1, <1>2, <1>3, <1>4 DEF SamePhase

LEMMA ComparedKept ==
    ASSUME NEW a, NEW b, SamePhase(a), SamePhase(b), SamePending(b, a)
    PROVE  Compared(a, b)' <=> Compared(a, b)
BY DEF Compared, SamePhase, SamePending, Phases

LEMMA LinkKept ==
    ASSUME NEW a, NEW b, SamePhase(a), SamePhase(b), SamePending(b, a),
           Heard(a, b)' <=> Heard(a, b), mgm'[a].can_move = mgm[a].can_move,
           mgm'[a].improve = mgm[a].improve, mgm'[b].improve = mgm[b].improve,
           Link(a, b)
    PROVE  Link(a, b)'
<1>1. InStep(Phase(a), Phase(b))'
  BY DEF Link, InStep, SamePhase
<1>2. OkLink(a, b)'
  BY DEF Link, OkLink, SamePhase, SamePending, Phases
<1>3. ImproveLink(a, b)'
  BY DEF Link, ImproveLink, SamePhase, SamePending, Phases
<1>4. MoveLink(a, b)'
  BY ComparedKept DEF Link, MoveLink, Beats, SamePhase
<1>. QED
  BY <1>1, <1>2, <1>3, <1>4 DEF Link

LEMMA CounterKept ==
    ASSUME NEW a \in Agents, Same(a), CounterInv(a),
           \A b \in Neighbors(a) : Compared(a, b)' <=> Compared(a, b)
    PROVE  CounterInv(a)'
<1>1. HeardFrom(a)' = HeardFrom(a)
  BY SameFacts DEF HeardFrom
<1>2. ComparedWith(a)' = ComparedWith(a)
  BY DEF ComparedWith
<1>3. counter'[a] = counter[a]
  BY DEF Same
<1>. QED
  BY <1>1, <1>2, <1>3, SameFacts DEF CounterInv

LEMMA LinksKept ==
    ASSUME IInv, \A a \in Agents : Same(a),
           \A a \in Agents : \A b \in Neighbors(a) : SamePending(b, a)
    PROVE  \A a \in Agents : /\ CounterInv(a)' /\ AgentInv(a)'
                             /\ \A b \in Neighbors(a) : Link(a, b)'
<1>. SUFFICES ASSUME NEW a \in Agents
              PROVE  CounterInv(a)' /\ AgentInv(a)' /\ \A b \in Neighbors(a) : Link(a, b)'
  OBVIOUS
<1>1. \A b \in Neighbors(a) : b \in Agents
  BY NeighborFacts
<1>2. CounterInv(a)'
  BY <1>1, CounterKept, ComparedKept, SameFacts DEF IInv
<1>3. AgentInv(a)'
  BY SameFacts DEF IInv
<1>4. ASSUME NEW b \in Neighbors(a) PROVE Link(a, b)'
  BY <1>1, LinkKept, SameFacts DEF IInv, Same
<1>. QED
  BY <1>2, <1>3, <1>4

-----------------------------------------------------------------------------
(* A message that is put into the mailbox of agent c.                      *)
LEMMA Posted ==
    ASSUME TypeOK, NEW c \in Agents, NEW m \in Messages,
           queue' = [queue EXCEPT ![c] = Append(@, m)]
    PROVE  /\ queue' \in [Agents -> Seq(Messages)]
           /\ \A a \in Agents : \A i \in DOMAIN queue'[a] :
                 (a = c /\ queue'[a][i] = m) \/ \E j \in DOMAIN queue[a] : queue'[a][i] = queue[a][j]
           /\ \A a \in Agents : \A b, k :
                 Holds(queue'[a], b, k) <=> Holds(queue[a], b, k) \/ (a = c /\ IsFrom(m, b, k))
           /\ \A a \in Agents : \A b, k :
                 Once(queue[a], b, k) /\ ~ (a = c /\ Holds(queue[a], b, k) /\ IsFrom(m, b, k))
                    => Once(queue'[a], b, k)
<1>1. queue \in [Agents -> Seq(Messages)]
  BY DEF TypeOK
<1>2. queue'[c] = Append(queue[c], m) /\ \A a \in Agents \ {c} : queue'[a] = queue[a]
  BY <1>1
<1>3. queue' \in [Agents -> Seq(Messages)]
  BY <1>1
<1>4. queue[c] \in Seq(Messages)
  BY <1>1
<1>5. /\ \A i \in DOMAIN queue'[c] :
            queue'[c][i] = m \/ \E j \in DOMAIN queue[c] : queue'[c][i] = queue[c][j]
      /\ \A b, k : Holds(queue'[c], b, k) <=> Holds(queue[c], b, k) \/ IsFrom(m, b, k)
      /\ \A b, k : Once(queue[c], b, k) /\ ~ (Holds(queue[c], b, k) /\ IsFrom(m, b, k))
                       => Once(queue'[c], b, k)
  <2>. DEFINE list == queue[c]
              q == queue'[c]
  <2>1. list \in Seq(Messages) /\ q = Append(list, m)
    BY <1>2, <1>4
  <2>. HIDE DEF list, q
  <2>2. \A i \in DOMAIN q : q[i] = m \/ \E j \in DOMAIN list : q[i] = list[j]
    BY <2>1, Appended
  <2>3. \A b, k : Holds(q, b, k) <=> Holds(list, b, k) \/ IsFrom(m, b, k)
    BY <2>1, Appended
  <2>4. \A b, k : Once(list, b, k) /\ ~ (Holds(list, b, k) /\ IsFrom(m, b, k))
                      => Once(q, b, k)
    BY <2>1, Appended
  <2>. QED
    BY <2>2, <2>3, <2>4 DEF list, q
<1>. QED
  BY <1>2, <1>3, <1>5

(* main and the signal handler: no message of a phase comes from them.     *)
LEMMA ControlPosted ==
    ASSUME IInv, NEW c \in Agents, NEW m \in ControlMessages, m.from = Null,
           queue' = [queue EXCEPT ![c] = Append(@, m)], out' = out,
           \A a \in Agents : Same(a)
    PROVE  /\ \A a \in Agents : MailInv(a)'
           /\ \A a \in Agents : \A b \in Neighbors(a) : SamePending(b, a)
<1>0. TypeOK /\ m \in Messages
  BY DEF IInv, Messages
<1>1. m.kind \notin Phases
  BY DEF ControlMessages, Phases
<1>2. ASSUME NEW a \in Agents, NEW b, NEW k \in Phases
      PROVE  /\ Holds(queue'[a], b, k) <=> Holds(queue[a], b, k)
             /\ Once(queue[a], b, k) => Once(queue'[a], b, k)
  <2>1. ~ IsFrom(m, b, k)
    BY <1>1 DEF IsFrom
  <2>. QED
    BY <1>0, <2>1, Posted
<1>3. ASSUME NEW a \in Agents, NEW b \in Neighbors(a) PROVE SamePending(b, a)
  <2>1. \A k \in Phases : Holds(queue[a], b, k)' <=> Holds(queue[a], b, k)
    BY <1>2
  <2>2. \A k \in Phases : Sends(out[b], a, k)' <=> Sends(out[b], a, k)
    OBVIOUS
  <2>. QED
    BY <2>1, <2>2 DEF SamePending, Pending
<1>4. \A x \in Messages : Truthful(x) => Truthful(x)'
  BY SameFacts, MessageTypes DEF Truthful, Same
<1>5. ASSUME NEW a \in Agents PROVE MailInv(a)'
  <2>0. MailInv(a) /\ queue[a] \in Seq(Messages)
        /\ out[a] \in Seq([to : Agents, msg : Messages])
    BY <1>0, AgentTypes DEF IInv
  <2>1. ASSUME NEW i \in DOMAIN queue'[a], queue'[a][i].kind \in Phases
        PROVE  (queue[a][i].from \in Neighbors(a) /\ Truthful(queue[a][i]))'
    <3>1. PICK j \in DOMAIN queue[a] : queue'[a][i] = queue[a][j]
      BY <1>0, <1>1, <2>1, Posted
    <3>2. queue[a][j] \in Messages
      BY <2>0
    <3>. QED
      BY <1>4, <2>0, <2>1, <3>1, <3>2 DEF MailInv
  <2>2. \A i \in DOMAIN out[a] : out[a][i].msg \in Messages
    BY <1>0, OutTypes
  <2>3. (\A i \in DOMAIN out[a] : /\ out[a][i].to \in Neighbors(a)
                                 /\ out[a][i].msg.from = a
                                 /\ out[a][i].msg.kind \in {"OK", "IMPROVE", "END"}
                                 /\ Truthful(out[a][i].msg))'
    BY <1>4, <2>0, <2>2 DEF MailInv
  <2>4. \A i, j \in DOMAIN out'[a] : out'[a][i].to = out'[a][j].to => i = j
    BY <2>0 DEF MailInv
  <2>5. \A b \in Neighbors(a), k \in Phases :
            /\ Once(queue'[a], b, k)
            /\ ~ (Holds(queue'[a], b, k) /\ Sends(out'[b], a, k))
    BY <1>2, <2>0 DEF MailInv
  <2>. QED
    BY <2>1, <2>3, <2>4, <2>5 DEF MailInv
<1>. QED
  BY <1>3, <1>5

(* The first of the messages to send, and those that follow it.            *)
LEMMA HeadAndTail ==
    ASSUME NEW S, NEW o \in Seq(S), o # <<>>,
           \A i, j \in DOMAIN o : o[i].to = o[j].to => i = j,
           NEW h, h = Head(o), NEW t, t = Tail(o)
    PROVE  /\ h \in S /\ t \in Seq(S)
           /\ 1 \in DOMAIN o /\ h = o[1]
           /\ \A i \in DOMAIN t : i + 1 \in DOMAIN o /\ t[i] = o[i + 1]
           /\ \A i, j \in DOMAIN t : t[i].to = t[j].to => i = j
           /\ \A k : ~ Sends(t, h.to, k)
<1>1. /\ Len(o) \in Nat /\ Len(o) > 0 /\ DOMAIN o = 1 .. Len(o)
      /\ h = o[1] /\ t \in Seq(S) /\ DOMAIN t = 1 .. Len(o) - 1
      /\ \A i \in DOMAIN t : t[i] = o[i + 1]
  BY EmptySeq, HeadTailProperties
<1>2. 1 \in DOMAIN o /\ h \in S
  BY <1>1
<1>3. \A i \in DOMAIN t : i + 1 \in DOMAIN o /\ t[i] = o[i + 1] /\ i + 1 # 1
  BY <1>1
<1>5. ASSUME NEW i \in DOMAIN t, NEW j \in DOMAIN t, t[i].to = t[j].to PROVE i = j
  <2>1. i + 1 = j + 1
    BY <1>3, <1>5
  <2>. QED
    BY <1>1, <2>1
<1>6. ASSUME NEW k PROVE ~ Sends(t, h.to, k)
  BY <1>1, <1>2, <1>3 DEF Sends
<1>. QED
  BY <1>1, <1>2, <1>3, <1>5, <1>6

LEMMA HeadOrTail ==
    ASSUME NEW S, NEW o \in Seq(S), o # <<>>, NEW h, h = Head(o), NEW t, t = Tail(o),
           NEW b, NEW k
    PROVE  Sends(o, b, k) <=> (h.to = b /\ h.msg.kind = k) \/ Sends(t, b, k)
<1>1. /\ Len(o) \in Nat /\ Len(o) > 0 /\ DOMAIN o = 1 .. Len(o)
      /\ h = o[1] /\ DOMAIN t = 1 .. Len(o) - 1
      /\ \A i \in DOMAIN t : t[i] = o[i + 1]
  BY EmptySeq, HeadTailProperties
<1>2. \A i \in DOMAIN t : i + 1 \in DOMAIN o /\ t[i] = o[i + 1]
  BY <1>1
<1>3. \A i \in DOMAIN o : i = 1 \/ (i - 1 \in DOMAIN t /\ t[i - 1] = o[i])
  BY <1>1
<1>4. ASSUME Sends(o, b, k) PROVE (h.to = b /\ h.msg.kind = k) \/ Sends(t, b, k)
  <2>1. PICK i \in DOMAIN o : o[i].to = b /\ o[i].msg.kind = k
    BY <1>4 DEF Sends
  <2>. QED
    BY <1>1, <1>3, <2>1 DEF Sends
<1>5. ASSUME Sends(t, b, k) PROVE Sends(o, b, k)
  <2>1. PICK i \in DOMAIN t : t[i].to = b /\ t[i].msg.kind = k
    BY <1>5 DEF Sends
  <2>. QED
    BY <1>2, <2>1 DEF Sends
<1>6. h.to = b /\ h.msg.kind = k => Sends(o, b, k)
  <2>1. 1 \in DOMAIN o
    BY <1>1
  <2>. QED
    BY <1>1, <2>1 DEF Sends
<1>. QED
  BY <1>4, <1>5, <1>6

(* An agent sends its next message: what was on its way to a neighbor      *)
(* still is.                                                               *)
LEMMA SendNextFacts ==
    ASSUME IInv, NEW a \in Agents, SendNext(a)
    PROVE  \E c \in Neighbors(a), m \in Messages :
              /\ c \in Agents /\ m.from = a /\ m.kind \in {"OK", "IMPROVE", "END"}
              /\ Truthful(m)
              /\ queue' = [queue EXCEPT ![c] = Append(@, m)]
              /\ out' = [out EXCEPT ![a] = out'[a]]
              /\ out'[a] \in Seq([to : Agents, msg : Messages])
              /\ \A i \in DOMAIN out'[a] : i + 1 \in DOMAIN out[a] /\ out'[a][i] = out[a][i + 1]
              /\ \A i, j \in DOMAIN out'[a] : out'[a][i].to = out'[a][j].to => i = j
              /\ \A b, k : Sends(out[a], b, k) <=> (c = b /\ m.kind = k) \/ Sends(out'[a], b, k)
              /\ \A k : ~ Sends(out'[a], c, k)
<1>. DEFINE S == [to : Agents, msg : Messages]
            h == Head(out[a])
<1>0. TypeOK /\ MailInv(a) /\ out[a] # <<>>
  BY DEF IInv, SendNext
<1>1. out[a] \in Seq(S)
  BY <1>0, AgentTypes
<1>2. out' = [out EXCEPT ![a] = Tail(out[a])] /\ out'[a] = Tail(out[a])
  <2>1. out \in [Agents -> Seq(S)]
    BY <1>0 DEF TypeOK
  <2>. HIDE DEF S
  <2>. QED
    BY <2>1 DEF SendNext
<1>3. /\ h \in S /\ out'[a] \in Seq(S)
      /\ 1 \in DOMAIN out[a] /\ h = out[a][1]
      /\ \A i \in DOMAIN out'[a] : i + 1 \in DOMAIN out[a] /\ out'[a][i] = out[a][i + 1]
      /\ \A i, j \in DOMAIN out'[a] : out'[a][i].to = out'[a][j].to => i = j
      /\ \A b, k : Sends(out[a], b, k) <=> (h.to = b /\ h.msg.kind = k) \/ Sends(out'[a], b, k)
      /\ \A k : ~ Sends(out'[a], h.to, k)
  <2>0. \A i, j \in DOMAIN out[a] : out[a][i].to = out[a][j].to => i = j
    BY <1>0 DEF MailInv
  <2>. DEFINE o == out[a]
              t == out'[a]
  <2>1. /\ o \in Seq(S) /\ o # <<>> /\ h = Head(o) /\ t = Tail(o)
        /\ \A i, j \in DOMAIN o : o[i].to = o[j].to => i = j
    BY <1>0, <1>1, <1>2, <2>0
  <2>. HIDE DEF S, h, o, t
  <2>2. /\ h \in S /\ t \in Seq(S) /\ 1 \in DOMAIN o /\ h = o[1]
        /\ \A k : ~ Sends(t, h.to, k)
    BY <2>1, HeadAndTail
  <2>3. \A i \in DOMAIN t : i + 1 \in DOMAIN o /\ t[i] = o[i + 1]
    BY <2>1, HeadAndTail
  <2>4. \A i, j \in DOMAIN t : t[i].to = t[j].to => i = j
    BY <2>1, HeadAndTail
  <2>5. ASSUME NEW b, NEW k
        PROVE  Sends(o, b, k) <=> (h.to = b /\ h.msg.kind = k) \/ Sends(t, b, k)
    BY <2>1, HeadOrTail
  <2>. QED
    BY <2>2, <2>3, <2>4, <2>5 DEF o, t
<1>4. h.to \in Neighbors(a) /\ h.to \in Agents /\ h.msg \in Messages
  BY <1>0, <1>3 DEF MailInv
<1>5. h.msg.from = a /\ h.msg.kind \in {"OK", "IMPROVE", "END"} /\ Truthful(h.msg)
  BY <1>0, <1>3 DEF MailInv
<1>6. queue' = [queue EXCEPT ![h.to] = Append(@, h.msg)]
  BY DEF SendNext
<1>. HIDE DEF h
<1>. QED
  BY <1>2, <1>3, <1>4, <1>5, <1>6

LEMMA SendNextStep ==
    ASSUME IInv, NEW a \in Agents, SendNext(a)
    PROVE  IInv'
<1>0. TypeOK
  BY DEF IInv
<1>1. PICK c \in Neighbors(a), m \in Messages :
              /\ c \in Agents /\ m.from = a /\ m.kind \in {"OK", "IMPROVE", "END"}
              /\ Truthful(m)
              /\ queue' = [queue EXCEPT ![c] = Append(@, m)]
              /\ out' = [out EXCEPT ![a] = out'[a]]
              /\ out'[a] \in Seq([to : Agents, msg : Messages])
              /\ \A i \in DOMAIN out'[a] : i + 1 \in DOMAIN out[a] /\ out'[a][i] = out[a][i + 1]
              /\ \A i, j \in DOMAIN out'[a] : out'[a][i].to = out'[a][j].to => i = j
              /\ \A b, k : Sends(out[a], b, k) <=> (c = b /\ m.kind = k) \/ Sends(out'[a], b, k)
              /\ \A k : ~ Sends(out'[a], c, k)
  BY SendNextFacts
<1>2. \A p \in Agents : Same(p)
  BY DEF SendNext, Same
<1>3. /\ queue' \in [Agents -> Seq(Messages)]
      /\ \A p \in Agents : \A i \in DOMAIN queue'[p] :
            (p = c /\ queue'[p][i] = m) \/ \E j \in DOMAIN queue[p] : queue'[p][i] = queue[p][j]
      /\ \A p \in Agents : \A b, k :
            Holds(queue'[p], b, k) <=> Holds(queue[p], b, k) \/ (p = c /\ IsFrom(m, b, k))
      /\ \A p \in Agents : \A b, k :
            Once(queue[p], b, k) /\ ~ (p = c /\ Holds(queue[p], b, k) /\ IsFrom(m, b, k))
               => Once(queue'[p], b, k)
  BY <1>0, <1>1, Posted
<1>4. \A p \in Agents \ {a} : out'[p] = out[p]
  BY <1>0, <1>1 DEF TypeOK
<1>5. TypeOK'
  <2>1. out' \in [Agents -> Seq([to : Agents, msg : Messages])]
    <3>. DEFINE S == [to : Agents, msg : Messages]
    <3>1. out \in [Agents -> Seq(S)] /\ out'[a] \in Seq(S)
      BY <1>0, <1>1 DEF TypeOK
    <3>. HIDE DEF S
    <3>2. out' \in [Agents -> Seq(S)]
      BY <1>1, <3>1
    <3>. QED
      BY <3>2 DEF S
  <2>2. UNCHANGED <<view, agent_view, mgm, mode, counter, stop, why,
                    ready, roi, main, verdict, warned, kill>>
    BY DEF SendNext, mainVars
  <2>3. Barrier!TypeOK'
    BY <1>0, <2>2 DEF TypeOK, Barrier!TypeOK
  <2>4. (/\ view \in [Agents -> KnownViewsOver(Agents)]
         /\ agent_view \in [Agents -> [Agents -> ViewsOver(Agents)]]
         /\ mgm \in [Agents -> MgmAgents])'
    BY <1>0, <2>2 DEF TypeOK
  <2>5. (/\ mode \in [Agents -> {"WAIT_OK", "WAIT_IMPROVE"}]
         /\ counter \in [Agents -> 0 .. N]
         /\ stop \in [Agents -> BOOLEAN]
         /\ why \in [Agents -> {"", "distance", "stale", "overtaken", "end", "alone"}])'
    BY <1>0, <2>2 DEF TypeOK
  <2>6. (/\ main \in [phase : {"start", "join", "merge", "done"}, next : Agents]
         /\ verdict \in BOOLEAN
         /\ warned \in BOOLEAN
         /\ kill \in 1 .. N + 1)'
    BY <1>0, <2>2 DEF TypeOK
  <2>7. queue' \in [Agents -> Seq(Messages)]
    BY <1>3
  <2>. QED
    BY <2>1, <2>3, <2>4, <2>5, <2>6, <2>7 DEF TypeOK
<1>6. ASSUME NEW p \in Agents, NEW q \in Neighbors(p) PROVE SamePending(q, p)
  <2>0. q \in Agents
    BY NeighborFacts
  <2>1. CASE q = a
    BY <1>1, <1>3, <2>1 DEF SamePending, Pending, IsFrom
  <2>2. CASE q # a
    BY <1>1, <1>3, <1>4, <2>0, <2>2 DEF SamePending, Pending, IsFrom
  <2>. QED
    BY <2>1, <2>2
<1>7. \A x \in Messages : Truthful(x) => Truthful(x)'
  BY <1>2, SameFacts, MessageTypes DEF Truthful, Same
<1>8. ASSUME NEW p \in Agents PROVE MailInv(p)'
  <2>0. MailInv(p) /\ queue[p] \in Seq(Messages)
    BY <1>0, AgentTypes DEF IInv
  <2>1. ASSUME NEW i \in DOMAIN queue'[p], queue'[p][i].kind \in Phases
        PROVE  (queue[p][i].from \in Neighbors(p) /\ Truthful(queue[p][i]))'
    <3>1. CASE p = c /\ queue'[p][i] = m
      <4>1. a \in Neighbors(c)
        BY <1>1, NeighborFacts
      <4>. QED
        BY <1>1, <1>7, <3>1, <4>1
    <3>2. CASE \E j \in DOMAIN queue[p] : queue'[p][i] = queue[p][j]
      <4>1. PICK j \in DOMAIN queue[p] : queue'[p][i] = queue[p][j]
        BY <3>2
      <4>2. queue[p][j] \in Messages
        BY <2>0
      <4>. QED
        BY <1>7, <2>0, <2>1, <4>1, <4>2 DEF MailInv
    <3>. QED
      BY <1>3, <3>1, <3>2
  <2>2. \A i \in DOMAIN out[p] : out[p][i].msg \in Messages
    BY <1>0, OutTypes
  <2>3. ASSUME NEW i \in DOMAIN out'[p]
        PROVE  (/\ out[p][i].to \in Neighbors(p)
                /\ out[p][i].msg.from = p
                /\ out[p][i].msg.kind \in {"OK", "IMPROVE", "END"}
                /\ Truthful(out[p][i].msg))'
    <3>1. PICK j \in DOMAIN out[p] : out'[p][i] = out[p][j]
      BY <1>1, <1>4
    <3>. QED
      BY <1>7, <2>0, <2>2, <3>1 DEF MailInv
  <2>4. \A i, j \in DOMAIN out'[p] : out'[p][i].to = out'[p][j].to => i = j
    BY <1>1, <1>4, <2>0 DEF MailInv
  <2>5. ASSUME NEW b \in Neighbors(p), NEW k \in Phases
        PROVE  /\ Once(queue'[p], b, k)
               /\ ~ (Holds(queue'[p], b, k) /\ Sends(out'[b], p, k))
    <3>0. b \in Agents
      BY NeighborFacts
    <3>1. Once(queue[p], b, k) /\ ~ (Holds(queue[p], b, k) /\ Sends(out[b], p, k))
      BY <2>0 DEF MailInv
    <3>2. CASE p = c /\ b = a
      <4>1. IsFrom(m, b, k) => ~ Holds(queue[p], b, k)
        BY <1>1, <3>1, <3>2 DEF IsFrom
      <4>. QED
        BY <1>1, <1>3, <3>1, <3>2, <4>1
    <3>3. CASE p = c /\ b # a
      <4>1. ~ IsFrom(m, b, k)
        BY <1>1, <3>3 DEF IsFrom
      <4>. QED
        BY <1>3, <1>4, <3>0, <3>1, <3>3, <4>1
    <3>4. CASE p # c
      <4>1. Sends(out'[b], p, k) => Sends(out[b], p, k)
        BY <1>1, <1>4, <3>0
      <4>. QED
        BY <1>3, <3>1, <3>4, <4>1
    <3>. QED
      BY <3>2, <3>3, <3>4
  <2>. QED
    BY <2>1, <2>3, <2>4, <2>5 DEF MailInv
<1>9. ASSUME NEW p \in Agents PROVE StartInv(p)'
  <2>0. StartInv(p) /\ main' = main /\ mgm' = mgm
    BY DEF IInv, SendNext, mainVars
  <2>1. ~ IsFrom(m, Null, "START") /\ m.kind # "START"
    BY <1>1 DEF IsFrom
  <2>2. /\ Holds(queue'[p], Null, "START") <=> Holds(queue[p], Null, "START")
        /\ Once(queue[p], Null, "START") => Once(queue'[p], Null, "START")
    BY <1>3, <2>1
  <2>3. \A i \in DOMAIN queue'[p] : queue'[p][i].kind = "START" => queue'[p][i].from = Null
    BY <1>3, <2>0, <2>1 DEF StartInv
  <2>. QED
    BY <2>0, <2>2, <2>3 DEF StartInv, StartIsSent
<1>. QED
  BY <1>2, <1>5, <1>6, <1>8, <1>9, LinksKept DEF IInv

-----------------------------------------------------------------------------
(* The main thread and the signal handler.                                 *)
LEMMA StartKept ==
    ASSUME NEW a \in Agents, StartInv(a), Same(a), StartIsSent(a) => StartIsSent(a)',
           Once(queue[a], Null, "START")', Holds(queue[a], Null, "START")' => StartIsSent(a)',
           Holds(queue[a], Null, "START")' => Holds(queue[a], Null, "START") \/ ~ StartIsSent(a),
           \A i \in DOMAIN queue'[a] : queue'[a][i].kind = "START" => queue'[a][i].from = Null
    PROVE  StartInv(a)'
BY DEF StartInv, Same

LEMMA SendStartStep ==
    ASSUME IInv, SendStart
    PROVE  IInv'
<1>. DEFINE c == main.next
            m == [kind |-> "START", from |-> Null]
<1>0. TypeOK
  BY DEF IInv
<1>1. c \in Agents /\ main.phase = "start"
  BY <1>0 DEF TypeOK, SendStart
<1>2. m \in ControlMessages /\ m \in Messages /\ m.from = Null /\ m.kind = "START"
  BY DEF ControlMessages, Messages
<1>3. queue' = [queue EXCEPT ![c] = Append(@, m)] /\ out' = out
  BY DEF SendStart
<1>4. \A p \in Agents : Same(p)
  BY DEF SendStart, Same
<1>. HIDE DEF m
<1>5. /\ \A a \in Agents : MailInv(a)'
      /\ \A a \in Agents : \A b \in Neighbors(a) : SamePending(b, a)
  <2>. HIDE DEF c
  <2>. QED
    BY <1>1, <1>2, <1>3, <1>4, ControlPosted
<1>6. /\ queue' \in [Agents -> Seq(Messages)]
      /\ \A p \in Agents : \A i \in DOMAIN queue'[p] :
            (p = c /\ queue'[p][i] = m) \/ \E j \in DOMAIN queue[p] : queue'[p][i] = queue[p][j]
      /\ \A p \in Agents : \A b, k :
            Holds(queue'[p], b, k) <=> Holds(queue[p], b, k) \/ (p = c /\ IsFrom(m, b, k))
      /\ \A p \in Agents : \A b, k :
            Once(queue[p], b, k) /\ ~ (p = c /\ Holds(queue[p], b, k) /\ IsFrom(m, b, k))
               => Once(queue'[p], b, k)
  <2>. HIDE DEF c
  <2>. QED
    BY <1>0, <1>1, <1>2, <1>3, Posted
<1>7. main' \in [phase : {"start", "join", "merge", "done"}, next : Agents]
  <2>1. CASE main.next = N
    BY <2>1, AgentFacts DEF SendStart, Agents
  <2>2. CASE main.next # N
    <3>1. main.next + 1 \in Agents
      BY <1>1, <2>2, AgentFacts DEF Agents
    <3>. QED
      BY <1>0, <2>2, <3>1 DEF SendStart, TypeOK
  <2>. QED
    BY <2>1, <2>2
<1>8. TypeOK'
  <2>1. UNCHANGED <<view, agent_view, mgm, mode, counter, stop, out, why,
                    ready, roi, verdict, warned, kill>>
    BY DEF SendStart
  <2>2. Barrier!TypeOK'
    BY <1>0, <2>1 DEF TypeOK, Barrier!TypeOK
  <2>. QED
    BY <1>0, <1>6, <1>7, <2>1, <2>2 DEF TypeOK
<1>9. ASSUME NEW p \in Agents PROVE /\ StartIsSent(p) => StartIsSent(p)'
                                    /\ p = c => StartIsSent(p)' /\ ~ StartIsSent(p)
  <2>1. CASE main.next = N
    BY <1>1, <2>1 DEF SendStart, StartIsSent, Agents
  <2>2. CASE main.next # N
    <3>1. main' = [main EXCEPT !.next = @ + 1]
      BY <2>2 DEF SendStart
    <3>2. main'.phase = "start" /\ main'.next = main.next + 1
      BY <1>0, <1>1, <3>1 DEF TypeOK
    <3>. QED
      BY <1>1, <3>2 DEF StartIsSent, Agents
  <2>. QED
    BY <2>1, <2>2
<1>10. ASSUME NEW p \in Agents PROVE StartInv(p)'
  <2>0. StartInv(p)
    BY DEF IInv
  <2>1. p = c => ~ Holds(queue[p], Null, "START")
    BY <1>9, <2>0 DEF StartInv
  <2>. HIDE DEF c
  <2>2. Once(queue[p], Null, "START")'
    BY <1>6, <2>0, <2>1 DEF StartInv
  <2>3. /\ Holds(queue[p], Null, "START")' => StartIsSent(p)'
        /\ Holds(queue[p], Null, "START")' => Holds(queue[p], Null, "START") \/ ~ StartIsSent(p)
    BY <1>6, <1>9, <2>0 DEF StartInv
  <2>4. \A i \in DOMAIN queue'[p] : queue'[p][i].kind = "START" => queue'[p][i].from = Null
    BY <1>2, <1>6, <2>0 DEF StartInv
  <2>. QED
    BY <1>4, <1>9, <2>0, <2>2, <2>3, <2>4, StartKept
<1>. QED
  BY <1>4, <1>5, <1>8, <1>10, LinksKept DEF IInv

LEMMA SendKillStep ==
    ASSUME IInv, SendKill
    PROVE  IInv'
<1>. DEFINE c == kill
            m == [kind |-> "END", from |-> Null]
<1>0. TypeOK
  BY DEF IInv
<1>1. c \in Agents /\ kill' \in 1 .. N + 1
  <2>1. kill \in 1 .. N + 1
    BY <1>0 DEF TypeOK
  <2>2. kill <= N /\ kill' = kill + 1
    BY DEF SendKill
  <2>. QED
    BY <2>1, <2>2, AgentFacts DEF Agents
<1>2. m \in ControlMessages /\ m \in Messages /\ m.from = Null /\ m.kind = "END"
  BY DEF ControlMessages, Messages
<1>3. queue' = [queue EXCEPT ![c] = Append(@, m)] /\ out' = out
  BY DEF SendKill
<1>4. \A p \in Agents : Same(p)
  BY DEF SendKill, Same
<1>. HIDE DEF m
<1>5. /\ \A a \in Agents : MailInv(a)'
      /\ \A a \in Agents : \A b \in Neighbors(a) : SamePending(b, a)
  <2>. HIDE DEF c
  <2>. QED
    BY <1>1, <1>2, <1>3, <1>4, ControlPosted
<1>6. /\ queue' \in [Agents -> Seq(Messages)]
      /\ \A p \in Agents : \A i \in DOMAIN queue'[p] :
            (p = c /\ queue'[p][i] = m) \/ \E j \in DOMAIN queue[p] : queue'[p][i] = queue[p][j]
      /\ \A p \in Agents : \A b, k :
            Holds(queue'[p], b, k) <=> Holds(queue[p], b, k) \/ (p = c /\ IsFrom(m, b, k))
      /\ \A p \in Agents : \A b, k :
            Once(queue[p], b, k) /\ ~ (p = c /\ Holds(queue[p], b, k) /\ IsFrom(m, b, k))
               => Once(queue'[p], b, k)
  <2>. HIDE DEF c
  <2>. QED
    BY <1>0, <1>1, <1>2, <1>3, Posted
<1>7. TypeOK'
  <2>1. UNCHANGED <<view, agent_view, mgm, mode, counter, stop, out, why,
                    ready, roi, main, verdict, warned>>
    BY DEF SendKill, mainVars
  <2>2. Barrier!TypeOK'
    BY <1>0, <2>1 DEF TypeOK, Barrier!TypeOK
  <2>. QED
    BY <1>0, <1>1, <1>6, <2>1, <2>2 DEF TypeOK
<1>8. ASSUME NEW p \in Agents PROVE StartInv(p)'
  <2>0. StartInv(p) /\ main' = main
    BY DEF IInv, SendKill, mainVars
  <2>1. ~ IsFrom(m, Null, "START")
    BY <1>2 DEF IsFrom
  <2>2. StartIsSent(p)' <=> StartIsSent(p)
    BY <2>0 DEF StartIsSent
  <2>3. /\ Holds(queue[p], Null, "START")' <=> Holds(queue[p], Null, "START")
        /\ Once(queue[p], Null, "START")'
    BY <1>6, <2>0, <2>1 DEF StartInv
  <2>4. \A i \in DOMAIN queue'[p] : queue'[p][i].kind = "START" => queue'[p][i].from = Null
    BY <1>2, <1>6, <2>0 DEF StartInv
  <2>. QED
    BY <1>4, <2>0, <2>2, <2>3, <2>4, StartKept DEF StartInv
<1>. QED
  BY <1>4, <1>5, <1>7, <1>8, LinksKept DEF IInv

(* Steps that touch no agent and no mailbox: those of the barrier, of main *)
(* that joins and merges, and none at all.                                 *)
LEMMA QuietStep ==
    ASSUME IInv, UNCHANGED agentVars, \A a \in Agents : StartIsSent(a) <=> StartIsSent(a)',
           Barrier!TypeOK',
           main' \in [phase : {"start", "join", "merge", "done"}, next : Agents],
           verdict' \in BOOLEAN, warned' \in BOOLEAN, kill' = kill
    PROVE  IInv'
<1>0. TypeOK
  BY DEF IInv
<1>1. UNCHANGED <<queue, view, agent_view, mgm, mode, counter, stop, out, why>>
  BY DEF agentVars
<1>2. \A p \in Agents : Same(p)
  BY <1>1 DEF Same
<1>3. TypeOK'
  BY <1>0, <1>1 DEF TypeOK
<1>4. ASSUME NEW p \in Agents, NEW q \in Neighbors(p) PROVE SamePending(q, p)
  BY <1>1 DEF SamePending, Pending, Holds, Sends
<1>5. \A x \in Messages : Truthful(x) => Truthful(x)'
  BY <1>2, SameFacts, MessageTypes DEF Truthful, Same
<1>6. ASSUME NEW p \in Agents PROVE MailInv(p)'
  <2>1. \A i \in DOMAIN queue[p] : queue[p][i] \in Messages
    BY <1>0, AgentTypes
  <2>2. \A i \in DOMAIN out[p] : out[p][i].msg \in Messages
    BY <1>0, OutTypes
  <2>. QED
    BY <1>1, <1>5, <2>1, <2>2 DEF IInv, MailInv
<1>7. ASSUME NEW p \in Agents PROVE StartInv(p)'
  BY <1>1 DEF IInv, StartInv
<1>. QED
  BY <1>2, <1>3, <1>4, <1>6, <1>7, LinksKept DEF IInv

LEMMA BarrierTypes ==
    ASSUME Barrier!TypeOK, NEW a \in Agents,
           Barrier!StartROI(a) \/ Barrier!StopROI(a) \/ Barrier!Return(a)
    PROVE  Barrier!TypeOK'
<1>1. ready \in Nat /\ roi \in [Agents -> Barrier!Stages]
  BY DEF Barrier!TypeOK
<1>2. Barrier!Broadcast \in [Agents -> Barrier!Stages]
  BY <1>1 DEF Barrier!Broadcast, Barrier!Stages
<1>3. CASE Barrier!StartROI(a)
  BY <1>1, <1>2, <1>3 DEF Barrier!StartROI, Barrier!TypeOK, Barrier!Stages
<1>4. CASE Barrier!StopROI(a)
  BY <1>1, <1>2, <1>4 DEF Barrier!StopROI, Barrier!TypeOK, Barrier!Stages
<1>5. CASE Barrier!Return(a)
  BY <1>1, <1>5 DEF Barrier!Return, Barrier!TypeOK, Barrier!Stages
<1>. QED
  BY <1>3, <1>4, <1>5

LEMMA RegionStep ==
    ASSUME IInv, NEW a \in Agents, EnterRegion(a) \/ LeaveRegion(a) \/ PassBarrier(a)
    PROVE  IInv'
<1>0. TypeOK
  BY DEF IInv
<1>1. UNCHANGED <<agentVars, mainVars, kill>>
  BY DEF EnterRegion, LeaveRegion, PassBarrier
<1>2. Barrier!TypeOK'
  BY <1>0, BarrierTypes DEF EnterRegion, LeaveRegion, PassBarrier, TypeOK
<1>3. UNCHANGED agentVars /\ UNCHANGED <<main, verdict, warned, kill>>
  BY <1>1 DEF mainVars
<1>4. \A p \in Agents : StartIsSent(p) <=> StartIsSent(p)'
  BY <1>3 DEF StartIsSent
<1>. QED
  BY <1>0, <1>2, <1>3, <1>4, QuietStep DEF TypeOK

LEMMA JoinStep ==
    ASSUME IInv, Join
    PROVE  IInv'
<1>0. TypeOK
  BY DEF IInv
<1>1. main.next \in Agents /\ main.phase = "join"
  BY <1>0 DEF TypeOK, Join
<1>2. UNCHANGED agentVars /\ UNCHANGED <<ready, roi, warned, kill>>
  BY DEF Join
<1>3. main' \in [phase : {"start", "join", "merge", "done"}, next : Agents]
      /\ main'.phase # "start"
  <2>1. CASE main.next = N
    BY <2>1, AgentFacts DEF Join, Agents
  <2>2. CASE main.next # N
    <3>1. main.next + 1 \in Agents
      BY <1>1, <2>2, AgentFacts DEF Agents
    <3>. QED
      BY <1>0, <1>1, <2>2, <3>1 DEF Join, TypeOK
  <2>. QED
    BY <2>1, <2>2
<1>4. Barrier!TypeOK'
  BY <1>0, <1>2 DEF TypeOK, Barrier!TypeOK
<1>5. \A p \in Agents : StartIsSent(p) <=> StartIsSent(p)'
  BY <1>1, <1>3 DEF StartIsSent
<1>6. verdict' \in BOOLEAN /\ warned' \in BOOLEAN
  BY <1>0, <1>2 DEF TypeOK, Join
<1>. QED
  BY <1>2, <1>3, <1>4, <1>5, <1>6, QuietStep

LEMMA MergeStep ==
    ASSUME IInv, MergeViews
    PROVE  IInv'
<1>0. TypeOK
  BY DEF IInv
<1>1. main.phase = "merge" /\ main' = [main EXCEPT !.phase = "done"]
  BY DEF MergeViews
<1>2. UNCHANGED agentVars /\ UNCHANGED <<ready, roi, verdict, kill>>
  BY DEF MergeViews
<1>3. main' \in [phase : {"start", "join", "merge", "done"}, next : Agents]
      /\ main'.phase # "start"
  BY <1>0, <1>1 DEF TypeOK
<1>4. Barrier!TypeOK'
  BY <1>0, <1>2 DEF TypeOK, Barrier!TypeOK
<1>5. \A p \in Agents : StartIsSent(p) <=> StartIsSent(p)'
  BY <1>1, <1>3 DEF StartIsSent
<1>6. verdict' \in BOOLEAN /\ warned' \in BOOLEAN
  BY <1>0, <1>2 DEF TypeOK, MergeViews
<1>. QED
  BY <1>2, <1>3, <1>4, <1>5, <1>6, QuietStep

LEMMA StutterStep ==
    ASSUME IInv, UNCHANGED vars
    PROVE  IInv'
<1>1. UNCHANGED agentVars /\ UNCHANGED <<ready, roi, main, verdict, warned, kill>>
  BY DEF vars, mainVars
<1>2. TypeOK
  BY DEF IInv
<1>3. Barrier!TypeOK'
  BY <1>1, <1>2 DEF TypeOK, Barrier!TypeOK
<1>4. \A p \in Agents : StartIsSent(p) <=> StartIsSent(p)'
  BY <1>1 DEF StartIsSent
<1>. QED
  BY <1>1, <1>2, <1>3, <1>4, QuietStep DEF TypeOK

-----------------------------------------------------------------------------
(* An agent that takes message m from its mailbox.                         *)
Takes(a, m) ==
    /\ m \in Messages /\ m.kind \in Accepted(mode[a])
    /\ queue' \in [Agents -> Seq(Messages)]
    /\ \A b \in Agents \ {a} : queue'[b] = queue[b]
    /\ \A i \in DOMAIN queue'[a] : \E j \in DOMAIN queue[a] : queue'[a][i] = queue[a][j]
    /\ m.kind \in Phases => /\ m.from \in Neighbors(a) /\ Truthful(m)
                            /\ Holds(queue[a], m.from, m.kind)
    /\ m.kind = "START" => m.from = Null /\ Holds(queue[a], Null, "START")
    /\ \A b \in Neighbors(a), k \in Phases :
          /\ Once(queue'[a], b, k)
          /\ Holds(queue'[a], b, k) <=> Holds(queue[a], b, k) /\ ~ IsFrom(m, b, k)
    /\ Once(queue'[a], Null, "START")
    /\ Holds(queue'[a], Null, "START") <=>
          Holds(queue[a], Null, "START") /\ ~ IsFrom(m, Null, "START")

LEMMA ReceivesTakes ==
    ASSUME IInv, NEW a \in Agents, Receives(a), NEW m, m = Message(a)
    PROVE  /\ Takes(a, m)
           /\ ~ stop[a] /\ ~ Halted(a) /\ out[a] = <<>>
           /\ UNCHANGED <<ready, roi, main, verdict, warned, kill>>
<1>. DEFINE list == queue[a]
            kinds == Accepted(mode[a])
            q == queue'[a]
<1>0. TypeOK /\ MailInv(a) /\ StartInv(a) /\ AgentInv(a)
  BY DEF IInv
<1>1. queue \in [Agents -> Seq(Messages)] /\ list \in Seq(Messages)
  BY <1>0 DEF TypeOK
<1>2. /\ Acceptable(list, kinds) # {}
      /\ m = Found(list, kinds) /\ q = Unlinked(list, kinds)
      /\ queue' = [queue EXCEPT ![a] = q]
  BY <1>1 DEF Receives, Message
<1>3. /\ m \in Messages /\ m.kind \in kinds /\ q \in Seq(Messages)
      /\ \E j \in DOMAIN list : m = list[j]
  <2>. HIDE DEF list, kinds, q
  <2>. QED
    BY <1>1, <1>2, Taken
<1>4. \A i \in DOMAIN q : \E j \in DOMAIN list : q[i] = list[j]
  <2>. HIDE DEF list, kinds, q
  <2>. QED
    BY <1>1, <1>2, Taken
<1>5. ASSUME NEW b, NEW k, Once(list, b, k)
      PROVE  /\ Once(q, b, k)
             /\ Holds(q, b, k) <=> Holds(list, b, k) /\ ~ IsFrom(m, b, k)
  <2>. HIDE DEF list, kinds, q
  <2>. QED
    BY <1>1, <1>2, <1>5, Taken
<1>6. PICK j \in DOMAIN list : m = list[j]
  BY <1>3
<1>7. Holds(list, m.from, m.kind)
  BY <1>6 DEF Holds, IsFrom
<1>8. m.kind \in Phases => m.from \in Neighbors(a) /\ Truthful(m)
  BY <1>0, <1>6 DEF MailInv
<1>9. m.kind = "START" => m.from = Null
  BY <1>0, <1>6 DEF StartInv
<1>10. \A b \in Neighbors(a), k \in Phases :
          /\ Once(q, b, k)
          /\ Holds(q, b, k) <=> Holds(list, b, k) /\ ~ IsFrom(m, b, k)
  BY <1>0, <1>5 DEF MailInv
<1>11. /\ Once(q, Null, "START")
       /\ Holds(q, Null, "START") <=>
             Holds(list, Null, "START") /\ ~ IsFrom(m, Null, "START")
  BY <1>0, <1>5 DEF StartInv
<1>12. ~ stop[a] /\ ~ Halted(a) /\ out[a] = <<>>
  BY <1>0 DEF Receives, AgentInv
<1>13. UNCHANGED <<ready, roi, main, verdict, warned, kill>>
  BY DEF Receives, mainVars
<1>14. queue' \in [Agents -> Seq(Messages)] /\ \A b \in Agents \ {a} : queue'[b] = queue[b]
  <2>. HIDE DEF q
  <2>. QED
    BY <1>1, <1>2, <1>3
<1>15. Takes(a, m)
  BY <1>3, <1>4, <1>7, <1>8, <1>9, <1>10, <1>11, <1>14 DEF Takes
<1>. QED
  BY <1>12, <1>13, <1>15

(* Its answer: a message of kind k to each neighbor, or with "" silence.   *)
Answers(a, k) ==
    /\ k \in {"", "OK", "IMPROVE", "END"}
    /\ out' \in [Agents -> Seq([to : Agents, msg : Messages])]
    /\ \A b \in Agents \ {a} : out'[b] = out[b]
    /\ \A i \in DOMAIN out'[a] : /\ out'[a][i].to \in Neighbors(a)
                                 /\ out'[a][i].msg.from = a
                                 /\ out'[a][i].msg.kind \in {"OK", "IMPROVE", "END"}
    /\ (\A i \in DOMAIN out[a] : Truthful(out[a][i].msg))'
    /\ \A i, j \in DOMAIN out'[a] : out'[a][i].to = out'[a][j].to => i = j
    /\ \A b \in Neighbors(a), j \in Phases : Sends(out'[a], b, j) <=> j = k

LEMMA Silence ==
    ASSUME TypeOK, NEW a \in Agents, out[a] = <<>>, out' = out
    PROVE  Answers(a, "")
<1>1. out \in [Agents -> Seq([to : Agents, msg : Messages])]
  BY DEF TypeOK
<1>2. DOMAIN out'[a] = {}
  OBVIOUS
<1>. QED
  BY <1>1, <1>2 DEF Answers, Sends, Phases

LEMMA Answer ==
    ASSUME TypeOK, NEW a \in Agents, NEW msg \in Messages, msg.from = a,
           msg.kind \in {"OK", "IMPROVE", "END"}, Truthful(msg)',
           out' = [out EXCEPT ![a] = ToNeighbors(a, msg)]
    PROVE  Answers(a, msg.kind)
<1>. DEFINE S == [to : Agents, msg : Messages]
            o == ToNeighbors(a, msg)
<1>1. out \in [Agents -> Seq(S)]
  BY DEF TypeOK
<1>2. /\ o \in Seq(S)
      /\ \A i \in DOMAIN o : o[i].to \in Neighbors(a) /\ o[i].msg = msg
      /\ \A i, j \in DOMAIN o : o[i].to = o[j].to => i = j
      /\ \A b \in Neighbors(a) : \A k : Sends(o, b, k) <=> msg.kind = k
  <2>. HIDE DEF o
  <2>. o = ToNeighbors(a, msg)
    BY DEF o
  <2>0. o \in Seq(S)
    BY ToNeighborsFacts
  <2>1. \A i \in DOMAIN o : o[i].to \in Neighbors(a) /\ o[i].msg = msg
    BY ToNeighborsFacts
  <2>2. \A i, j \in DOMAIN o : o[i].to = o[j].to => i = j
    BY ToNeighborsFacts
  <2>3. \A b \in Neighbors(a) : \A k : Sends(o, b, k) <=> msg.kind = k
    BY ToNeighborsFacts
  <2>. QED
    BY <2>0, <2>1, <2>2, <2>3
<1>. HIDE DEF S, o
<1>3. out' \in [Agents -> Seq(S)] /\ out'[a] = o /\ \A b \in Agents \ {a} : out'[b] = out[b]
  BY <1>1, <1>2 DEF o
<1>4. \A i \in DOMAIN out'[a] : /\ out'[a][i].to \in Neighbors(a)
                                /\ out'[a][i].msg.from = a
                                /\ out'[a][i].msg.kind \in {"OK", "IMPROVE", "END"}
  BY <1>2, <1>3
<1>5. (\A i \in DOMAIN out[a] : Truthful(out[a][i].msg))'
  BY <1>2, <1>3
<1>6. out' \in [Agents -> Seq([to : Agents, msg : Messages])]
  BY <1>3 DEF S
<1>7. \A b \in Neighbors(a), j \in Phases : Sends(out'[a], b, j) <=> j = msg.kind
  BY <1>2, <1>3
<1>8. \A i, j \in DOMAIN out'[a] : out'[a][i].to = out'[a][j].to => i = j
  BY <1>2, <1>3
<1>. QED
  BY <1>3, <1>4, <1>5, <1>6, <1>7, <1>8 DEF Answers

(* What is on its way to the agent, and from it, after such a step.        *)
LEMMA PendingToTaker ==
    ASSUME NEW a \in Agents, NEW m, Takes(a, m), NEW k, Answers(a, k), MailInv(a),
           NEW b \in Neighbors(a)
    PROVE  /\ \A j \in Phases : Pending(b, a, j)' <=> Pending(b, a, j) /\ ~ IsFrom(m, b, j)
           /\ \A j \in Phases : IsFrom(m, b, j) => Pending(b, a, j)
<1>1. b \in Agents \ {a}
  BY NeighborFacts
<1>2. out'[b] = out[b]
  BY <1>1 DEF Answers
<1>3. ASSUME NEW j \in Phases
      PROVE  /\ Holds(queue'[a], b, j) <=> Holds(queue[a], b, j) /\ ~ IsFrom(m, b, j)
             /\ IsFrom(m, b, j) => Holds(queue[a], b, j)
             /\ ~ (Holds(queue[a], b, j) /\ Sends(out[b], a, j))
  BY DEF Takes, MailInv, IsFrom
<1>. QED
  BY <1>2, <1>3 DEF Pending

LEMMA PendingFromTaker ==
    ASSUME NEW a \in Agents, NEW m, Takes(a, m), NEW k, Answers(a, k), out[a] = <<>>,
           NEW c \in Neighbors(a)
    PROVE  \A j \in Phases : Pending(a, c, j)' <=> Pending(a, c, j) \/ j = k
<1>1. c \in Agents \ {a}
  BY NeighborFacts
<1>2. queue'[c] = queue[c]
  BY <1>1 DEF Takes
<1>3. \A j \in Phases : ~ Sends(out[a], c, j)
  BY DEF Sends
<1>4. \A j \in Phases : Sends(out'[a], c, j) <=> j = k
  BY DEF Answers
<1>. QED
  BY <1>2, <1>3, <1>4 DEF Pending

LEMMA PendingFromSilent ==
    ASSUME NEW a \in Agents, NEW m, Takes(a, m), Answers(a, "") \/ Answers(a, "END"),
           out[a] = <<>>, NEW c \in Neighbors(a)
    PROVE  SamePending(a, c)
<1>1. PICK k \in {"", "END"} : Answers(a, k)
  OBVIOUS
<1>2. \A j \in Phases : Pending(a, c, j)' <=> Pending(a, c, j) \/ j = k
  BY <1>1, PendingFromTaker
<1>3. \A j \in Phases : j # k
  BY DEF Phases
<1>. QED
  BY <1>2, <1>3 DEF SamePending

LEMMA PendingElsewhere ==
    ASSUME NEW a \in Agents, NEW m, Takes(a, m), NEW k, Answers(a, k),
           NEW p \in Agents \ {a}, NEW q \in Agents \ {a}
    PROVE  SamePending(q, p)
<1>1. queue'[p] = queue[p] /\ out'[q] = out[q]
  BY DEF Takes, Answers
<1>. QED
  BY <1>1 DEF SamePending, Pending

(* The mailboxes are in order after it if no message of the same kind was  *)
(* still on its way, and what other messages of the agent say still holds. *)
LEMMA TakerMail ==
    ASSUME IInv, NEW a \in Agents, NEW m, Takes(a, m), NEW k, Answers(a, k),
           \A p \in Agents \ {a} : Same(p),
           k \in Phases => \A c \in Neighbors(a) : ~ Pending(a, c, k),
           \/ \A c \in Neighbors(a) : ~ Pending(a, c, "IMPROVE")
           \/ mgm'[a].improve = mgm[a].improve /\ Searched(a)' = Searched(a)
    PROVE  \A p \in Agents : MailInv(p)'
<1>0. TypeOK
  BY DEF IInv
<1>1. \A x \in Messages : x.from \in Agents \ {a} /\ Truthful(x) => Truthful(x)'
  BY SameFacts DEF Truthful, Same
<1>. SUFFICES ASSUME NEW p \in Agents PROVE MailInv(p)'
  OBVIOUS
<1>2. MailInv(p)
  BY DEF IInv
<1>3. \A i \in DOMAIN queue'[p] : \E j \in DOMAIN queue[p] : queue'[p][i] = queue[p][j]
  BY DEF Takes
<1>4. ASSUME NEW i \in DOMAIN queue'[p], queue'[p][i].kind \in Phases
      PROVE  (queue[p][i].from \in Neighbors(p) /\ Truthful(queue[p][i]))'
  <2>1. PICK j \in DOMAIN queue[p] : queue'[p][i] = queue[p][j]
    BY <1>3
  <2>. DEFINE x == queue[p][j]
  <2>2. x \in Messages /\ x.kind \in Phases /\ x.from \in Neighbors(p) /\ Truthful(x)
    BY <1>0, <1>2, <1>4, <2>1, AgentTypes DEF MailInv
  <2>3. CASE x.from # a
    BY <1>1, <2>1, <2>2, <2>3, NeighborFacts
  <2>4. CASE x.from = a
    <3>1. p \in Neighbors(a) /\ p # a
      BY <2>2, <2>4, NeighborFacts
    <3>2. x.kind = "IMPROVE" => Pending(a, p, "IMPROVE")
      BY <2>4 DEF Pending, Holds, IsFrom
    <3>3. x.kind = "IMPROVE" => mgm'[a].improve = mgm[a].improve /\ Searched(a)' = Searched(a)
      BY <3>1, <3>2
    <3>4. Truthful(x) => (x.kind = "IMPROVE" => x.improve = mgm[a].improve /\ x.term = Searched(a))
      BY <2>4 DEF Truthful
    <3>5. (queue'[p][i].kind = "IMPROVE" => queue'[p][i].improve = mgm'[a].improve
                                            /\ queue'[p][i].term = Searched(a)')
      BY <2>1, <2>2, <3>3, <3>4
    <3>6. Truthful(queue[p][i])'
      BY <2>1, <2>4, <3>5 DEF Truthful
    <3>. QED
      BY <2>1, <2>2, <3>6
  <2>. QED
    BY <2>3, <2>4
<1>5. ASSUME NEW i \in DOMAIN out'[p]
      PROVE  (/\ out[p][i].to \in Neighbors(p)
              /\ out[p][i].msg.from = p
              /\ out[p][i].msg.kind \in {"OK", "IMPROVE", "END"}
              /\ Truthful(out[p][i].msg))'
  <2>1. CASE p = a
    BY <2>1 DEF Answers
  <2>2. CASE p # a
    <3>1. out'[p] = out[p]
      BY <2>2 DEF Answers
    <3>2. out[p][i].msg \in Messages
      BY <1>0, <3>1, OutTypes
    <3>3. /\ out[p][i].to \in Neighbors(p) /\ out[p][i].msg.from = p
          /\ out[p][i].msg.kind \in {"OK", "IMPROVE", "END"} /\ Truthful(out[p][i].msg)
      BY <1>2, <3>1 DEF MailInv
    <3>. DEFINE x == out[p][i].msg
    <3>4. Truthful(x) => (x.kind = "IMPROVE" => x.improve = mgm[p].improve /\ x.term = Searched(p))
      BY <3>3 DEF Truthful
    <3>5. mgm'[p] = mgm[p] /\ Searched(p)' = Searched(p)
      BY <2>2, SameFacts DEF Same
    <3>6. Truthful(out[p][i].msg)'
      BY <3>1, <3>3, <3>4, <3>5 DEF Truthful
    <3>. QED
      BY <3>1, <3>3, <3>6
  <2>. QED
    BY <2>1, <2>2
<1>6. \A i, j \in DOMAIN out'[p] : out'[p][i].to = out'[p][j].to => i = j
  BY <1>2 DEF Answers, MailInv
<1>7. ASSUME NEW b \in Neighbors(p), NEW j \in Phases
      PROVE  Once(queue'[p], b, j) /\ ~ (Holds(queue'[p], b, j) /\ Sends(out'[b], p, j))
  <2>0. b \in Agents /\ b # p /\ p \in Neighbors(b)
    BY NeighborFacts
  <2>1. Once(queue[p], b, j) /\ ~ (Holds(queue[p], b, j) /\ Sends(out[b], p, j))
    BY <1>2 DEF MailInv
  <2>2. CASE p = a
    <3>1. Once(queue'[p], b, j) /\ (Holds(queue'[p], b, j) => Holds(queue[p], b, j))
      BY <2>2 DEF Takes
    <3>2. out'[b] = out[b]
      BY <2>0, <2>2 DEF Answers
    <3>. QED
      BY <2>1, <3>1, <3>2
  <2>3. CASE p # a
    <3>1. queue'[p] = queue[p]
      BY <2>3 DEF Takes
    <3>2. CASE b = a
      <4>1. Sends(out'[a], p, j) => j = k
        BY <2>0, <3>2 DEF Answers
      <4>2. j = k => ~ Holds(queue[p], a, j)
        BY <2>0, <3>2 DEF Pending
      <4>. QED
        BY <2>1, <3>1, <3>2, <4>1, <4>2
    <3>3. CASE b # a
      <4>1. out'[b] = out[b]
        BY <2>0, <3>3 DEF Answers
      <4>. QED
        BY <2>1, <3>1, <4>1
    <3>. QED
      BY <3>2, <3>3
  <2>. QED
    BY <2>2, <2>3
<1>. QED
  BY <1>4, <1>5, <1>6, <1>7 DEF MailInv

(* It is enough to look at the agent itself and at its links.              *)
Settles(a) ==
    /\ \A p \in Agents \ {a} : Same(p)
    /\ main' = main /\ TypeOK'
    /\ mgm'[a].term = mgm[a].term
         \/ (StartIsSent(a) /\ ~ Holds(queue'[a], Null, "START"))
    /\ CounterInv(a)' /\ AgentInv(a)'
    /\ \A b \in Neighbors(a) : /\ Link(a, b)' /\ Link(b, a)'
                               /\ Compared(b, a)' <=> Compared(b, a)

LEMMA TakerStep ==
    ASSUME IInv, NEW a \in Agents, NEW m, Takes(a, m), NEW k, Answers(a, k), Settles(a),
           k \in Phases => \A c \in Neighbors(a) : ~ Pending(a, c, k),
           \/ \A c \in Neighbors(a) : ~ Pending(a, c, "IMPROVE")
           \/ mgm'[a].improve = mgm[a].improve /\ Searched(a)' = Searched(a)
    PROVE  IInv'
<1>1. \A p \in Agents \ {a} : Same(p)
  BY DEF Settles
<1>2. \A p \in Agents : MailInv(p)'
  BY <1>1, TakerMail
<1>3. ASSUME NEW p \in Agents PROVE StartInv(p)'
  <2>0. StartInv(p) /\ (StartIsSent(p)' <=> StartIsSent(p))
    BY DEF IInv, Settles, StartIsSent
  <2>1. CASE p = a
    <3>1. /\ Once(queue'[p], Null, "START")
          /\ Holds(queue'[p], Null, "START") => Holds(queue[p], Null, "START")
      BY <2>1 DEF Takes
    <3>2. \A i \in DOMAIN queue'[p] : queue'[p][i].kind = "START" => queue'[p][i].from = Null
      BY <2>0, <2>1 DEF Takes, StartInv
    <3>. QED
      BY <2>0, <2>1, <3>1, <3>2 DEF StartInv, Settles
  <2>2. CASE p # a
    <3>1. queue'[p] = queue[p] /\ mgm'[p] = mgm[p]
      BY <1>1, <2>2 DEF Takes, Same
    <3>. QED
      BY <2>0, <3>1 DEF StartInv
  <2>. QED
    BY <2>1, <2>2
<1>4. ASSUME NEW p \in Agents
      PROVE  CounterInv(p)' /\ AgentInv(p)' /\ \A b \in Neighbors(p) : Link(p, b)'
  <2>1. CASE p = a
    BY <2>1 DEF Settles
  <2>2. CASE p # a
    <3>0. Same(p) /\ CounterInv(p) /\ AgentInv(p)
      BY <1>1, <2>2 DEF IInv
    <3>1. ASSUME NEW b \in Neighbors(p)
          PROVE  (Compared(p, b)' <=> Compared(p, b)) /\ Link(p, b)'
      <4>0. b \in Agents /\ p \in Neighbors(b)
        BY NeighborFacts
      <4>1. CASE b = a
        BY <4>0, <4>1 DEF Settles
      <4>2. CASE b # a
        <5>1. Same(b) /\ SamePending(b, p)
          BY <1>1, <2>2, <4>0, <4>2, PendingElsewhere
        <5>2. Link(p, b)
          BY DEF IInv
        <5>. QED
          BY <3>0, <5>1, <5>2, ComparedKept, LinkKept, SameFacts DEF Same
      <4>. QED
        BY <4>1, <4>2
    <3>. QED
      BY <3>0, <3>1, CounterKept, SameFacts
  <2>. QED
    BY <2>1, <2>2
<1>5. TypeOK'
  BY DEF Settles
<1>. QED
  BY <1>2, <1>3, <1>4, <1>5 DEF IInv

-----------------------------------------------------------------------------
(* The facts about a link in which the numbers of rounds and phases are    *)
(* kept apart from what they are made of.                                  *)
LEMMA LinkFacts ==
    ASSUME IInv, NEW a \in Agents, NEW b \in Neighbors(a)
    PROVE  /\ b \in Agents /\ b # a /\ a \in Neighbors(b)
           /\ Round(a) \in Nat /\ Round(b) \in Nat
           /\ Phase(a) = IF Improving(a) THEN 2 * Round(a) + 1 ELSE 2 * Round(a)
           /\ Phase(b) = IF Improving(b) THEN 2 * Round(b) + 1 ELSE 2 * Round(b)
           /\ Reads(a) = IF Round(a) = 0 THEN 1 ELSE Round(a)
           /\ Reads(b) = IF Round(b) = 0 THEN 1 ELSE Round(b)
           /\ Searched(b) = IF Improving(b) THEN Round(b) ELSE Round(b) - 1
           /\ InStep(Phase(a), Phase(b)) /\ InStep(Phase(b), Phase(a))
           /\ OkLink(a, b) /\ OkLink(b, a)
           /\ ImproveLink(a, b) /\ ImproveLink(b, a)
           /\ MoveLink(a, b) /\ MoveLink(b, a)
<1>1. b \in Agents /\ b # a /\ a \in Neighbors(b)
  BY NeighborFacts
<1>2. TypeOK /\ AgentInv(a) /\ AgentInv(b) /\ Link(a, b) /\ Link(b, a)
  BY <1>1 DEF IInv
<1>. QED
  BY <1>1, <1>2, PhaseFacts DEF Link

(* Reading an OK message: it is the view of a neighbor that has not been   *)
(* heard of in this round, and that is in the very round which is read.    *)
LEMMA OkRead ==
    ASSUME IInv, NEW a \in Agents, NEW m, Takes(a, m), m.kind = "OK"
    PROVE  /\ ~ Improving(a) /\ m.from \in Neighbors(a)
           /\ Pending(m.from, a, "OK") /\ ~ Heard(a, m.from)
           /\ Round(m.from) = Reads(a)
<1>1. ~ Improving(a)
  BY DEF Takes, Accepted, Improving
<1>2. m.from \in Neighbors(a) /\ Pending(m.from, a, "OK")
  BY DEF Takes, Phases, Pending
<1>. DEFINE b == m.from
<1>. HIDE DEF b
<1>3. b \in Neighbors(a) /\ Pending(b, a, "OK")
  BY <1>2 DEF b
<1>4. ~ Heard(a, b) /\ Round(b) = Reads(a)
  BY <1>1, <1>3, LinkFacts DEF InStep, OkLink
<1>. QED
  BY <1>1, <1>2, <1>4 DEF b

LEMMA TheView ==
    ASSUME IInv, NEW a \in Agents, NEW m, Takes(a, m), m.kind = "OK", m = Message(a)
    PROVE  /\ Told(a) \in [Agents -> ViewsOver(Agents)]
           /\ \A c \in Agents : Told(a)[c] # Cleared <=> Heard(a, c) \/ c = m.from
           /\ \A c \in Agents : Told(a)[c] # Cleared => Told(a)[c] \in KnownViewsOver(Agents)
<1>1. m.from \in Agents /\ m.view \in KnownViewsOver(Agents)
  BY MessageTypes DEF Takes
<1>2. agent_view[a] \in [Agents -> ViewsOver(Agents)]
  BY AgentTypes DEF IInv
<1>3. Told(a) = [agent_view[a] EXCEPT ![m.from] = m.view]
  BY DEF Told
<1>4. m.view \in ViewsOver(Agents) /\ m.view # Cleared
  BY <1>1, KnownViews
<1>5. Told(a) \in [Agents -> ViewsOver(Agents)]
  BY <1>1, <1>2, <1>3, <1>4
<1>6. \A c \in Agents : Told(a)[c] # Cleared <=> Heard(a, c) \/ c = m.from
  BY <1>1, <1>2, <1>3, <1>4 DEF Heard
<1>7. \A c \in Agents : Heard(a, c) => agent_view[a][c] \in KnownViewsOver(Agents)
  BY DEF IInv, AgentInv
<1>8. ASSUME NEW c \in Agents, Told(a)[c] # Cleared PROVE Told(a)[c] \in KnownViewsOver(Agents)
  BY <1>1, <1>2, <1>3, <1>6, <1>7, <1>8
<1>. QED
  BY <1>5, <1>6, <1>8

LEMMA CountTheView ==
    ASSUME IInv, NEW a \in Agents, NEW m, Takes(a, m), m.kind = "OK"
    PROVE  /\ Counted(a) = Cardinality(HeardFrom(a) \union {m.from})
           /\ HeardFrom(a) \union {m.from} \subseteq Neighbors(a)
           /\ Counted(a) \in 0 .. N
           /\ IsLast(a) => HeardFrom(a) \union {m.from} = Neighbors(a)
<1>1. m.from \in Neighbors(a) \ HeardFrom(a) /\ ~ Improving(a)
  BY OkRead DEF HeardFrom
<1>2. HeardFrom(a) \subseteq Neighbors(a) /\ counter[a] = Cardinality(HeardFrom(a))
  BY <1>1 DEF IInv, CounterInv, HeardFrom
<1>3. Counted(a) = Cardinality(HeardFrom(a) \union {m.from})
  BY <1>1, <1>2, OneMore DEF Counted
<1>4. HeardFrom(a) \union {m.from} \subseteq Agents
  BY <1>1, <1>2, NeighborFacts
<1>5. Counted(a) \in 0 .. N
  BY <1>3, <1>4, ChosenCount
<1>6. ASSUME IsLast(a) PROVE HeardFrom(a) \union {m.from} = Neighbors(a)
  <2>1. Cardinality(HeardFrom(a)) + 1 = Cardinality(Neighbors(a))
    BY <1>2, <1>6, NeighborFacts DEF IsLast, Counted
  <2>. QED
    BY <1>1, <1>2, <2>1, TheLastOne
<1>. QED
  BY <1>1, <1>2, <1>3, <1>5, <1>6

LEMMA OkButNotLastStep ==
    ASSUME IInv, NEW a \in Agents, OkButNotLast(a)
    PROVE  IInv'
<1>. DEFINE m == Message(a)
<1>0. TypeOK /\ AgentInv(a) /\ MailInv(a)
  BY DEF IInv
<1>1. /\ Takes(a, m) /\ m.kind = "OK" /\ out[a] = <<>>
      /\ UNCHANGED <<ready, roi, main, verdict, warned, kill>>
  BY ReceivesTakes DEF OkButNotLast
<1>2. /\ counter' = [counter EXCEPT ![a] = Counted(a)]
      /\ agent_view' = [agent_view EXCEPT ![a] = Told(a)]
      /\ UNCHANGED <<view, mgm, mode, stop, out, why>>
  BY DEF OkButNotLast
<1>. HIDE DEF m
<1>3. Answers(a, "")
  BY <1>0, <1>1, <1>2, Silence
<1>4. \A p \in Agents \ {a} : Same(p)
  BY <1>0, <1>2 DEF TypeOK, Same
<1>6. /\ Told(a) \in [Agents -> ViewsOver(Agents)]
      /\ \A c \in Agents : Told(a)[c] # Cleared <=> Heard(a, c) \/ c = m.from
      /\ \A c \in Agents : Told(a)[c] # Cleared => Told(a)[c] \in KnownViewsOver(Agents)
  <2>1. m = Message(a)
    BY DEF m
  <2>. QED
    BY <1>1, <2>1, TheView
<1>7. /\ \A c \in Agents : Heard(a, c)' <=> Heard(a, c) \/ c = m.from
      /\ agent_view'[a] = Told(a)
  <2>1. agent_view'[a] = Told(a)
    BY <1>0, <1>2 DEF TypeOK
  <2>2. Cleared' = Cleared
    BY DEF Cleared
  <2>. QED
    BY <1>6, <2>1, <2>2 DEF Heard
<1>5. SamePhase(a) /\ AgentInv(a)'
  <2>0. (Halted(a)' <=> Halted(a)) /\ Round(a)' = Round(a)
    BY <1>2 DEF Halted, Round
  <2>1. SamePhase(a)
    BY <1>2, <2>0, PhaseKept
  <2>2. \A b \in Agents : Heard(a, b)' => agent_view'[a][b] \in KnownViewsOver(Agents)
    BY <1>6, <1>7
  <2>. QED
    BY <1>0, <1>2, <2>0, <2>1, <2>2 DEF SamePhase, AgentInv
<1>8. ~ Improving(a) /\ m.from \in Neighbors(a) /\ Pending(m.from, a, "OK")
      /\ ~ Heard(a, m.from) /\ Round(m.from) = Reads(a)
  BY <1>1, OkRead
<1>9. TypeOK'
  <2>1. counter' \in [Agents -> 0 .. N]
    BY <1>0, <1>1, <1>2, CountTheView DEF TypeOK
  <2>2. agent_view' \in [Agents -> [Agents -> ViewsOver(Agents)]]
    BY <1>0, <1>2, <1>6 DEF TypeOK
  <2>3. Barrier!TypeOK'
    BY <1>0, <1>1 DEF TypeOK, Barrier!TypeOK
  <2>. QED
    BY <1>0, <1>1, <1>2, <2>1, <2>2, <2>3 DEF TypeOK, Takes
<1>10. CounterInv(a)'
  <2>1. HeardFrom(a)' = HeardFrom(a) \union {m.from}
    BY <1>7, <1>8, NeighborFacts DEF HeardFrom
  <2>2. counter'[a] = Counted(a)
    BY <1>0, <1>2 DEF TypeOK
  <2>3. Counted(a) = Cardinality(HeardFrom(a) \union {m.from})
    BY <1>1, CountTheView
  <2>. QED
    BY <1>5, <1>8, <2>1, <2>2, <2>3 DEF CounterInv, SamePhase
<1>11. ASSUME NEW b \in Neighbors(a)
       PROVE  Link(a, b)' /\ Link(b, a)' /\ (Compared(b, a)' <=> Compared(b, a))
  <2>0. b \in Agents \ {a} /\ Link(a, b) /\ Link(b, a)
    BY NeighborFacts DEF IInv
  <2>1. SamePhase(b) /\ mgm'[b] = mgm[b] /\ mgm'[a] = mgm[a]
        /\ (\A c : Heard(b, c)' <=> Heard(b, c))
    BY <1>2, <1>4, <2>0, SameFacts
  <2>2. SamePending(a, b)
    BY <1>1, <1>3, PendingFromSilent
  <2>3. Link(b, a)' /\ (Compared(b, a)' <=> Compared(b, a))
    BY <1>5, <2>0, <2>1, <2>2, LinkKept, ComparedKept
  <2>4. /\ Pending(b, a, "OK")' <=> Pending(b, a, "OK") /\ m.from # b
        /\ Pending(b, a, "IMPROVE")' <=> Pending(b, a, "IMPROVE")
    BY <1>0, <1>1, <1>3, PendingToTaker DEF IsFrom, Phases
  <2>5. Link(a, b)'
    <3>1. CASE b # m.from
      <4>1. Heard(a, b)' <=> Heard(a, b)
        BY <1>7, <2>0, <3>1
      <4>2. SamePending(b, a)
        BY <2>4, <3>1 DEF SamePending, Phases
      <4>. QED
        BY <1>5, <2>0, <2>1, <4>1, <4>2, LinkKept
    <3>2. CASE b = m.from
      <4>0. Heard(a, b)' /\ ~ Pending(b, a, "OK")' /\ ~ Improving(a)
            /\ Round(b) = Reads(a) /\ Pending(b, a, "OK")
        BY <1>7, <1>8, <2>0, <2>4, <3>2
      <4>1. OkLink(a, b)'
        BY <1>5, <2>1, <4>0, LinkFacts DEF OkLink, SamePhase
      <4>2. InStep(Phase(a), Phase(b))'
        BY <1>5, <2>0, <2>1 DEF Link, InStep, SamePhase
      <4>3. ImproveLink(a, b)'
        BY <1>5, <2>0, <2>1, <2>4 DEF Link, ImproveLink, SamePhase
      <4>4. MoveLink(a, b)'
        BY <1>5, <2>0, <2>1, <2>4, <4>0 DEF Link, MoveLink, Beats, Compared, SamePhase
      <4>. QED
        BY <4>1, <4>2, <4>3, <4>4 DEF Link
    <3>. QED
      BY <3>1, <3>2
  <2>. QED
    BY <2>3, <2>5
<1>12. Settles(a)
  BY <1>1, <1>2, <1>4, <1>5, <1>9, <1>10, <1>11 DEF Settles
<1>. QED
  BY <1>1, <1>2, <1>3, <1>5, <1>12, TakerStep DEF SamePhase, Phases

-----------------------------------------------------------------------------
(* What the search finds is a known view, and so is what an agent adopts.  *)
LEMMA ReassignmentsAreKnown ==
    ASSUME NEW a \in Agents, NEW v \in KnownViewsOver(Agents), NEW w \in Reassignments(a, v)
    PROVE  w \in KnownViewsOver(Agents)
<1>1. v \in [Resources -> Agents \union {Free}]
  BY DEF KnownViewsOver
<1>2. {v[r] : r \in Resources} \union {a, Free} \subseteq Agents \union {Free}
  BY <1>1
<1>3. w \in [Resources -> {v[r] : r \in Resources} \union {a, Free}]
  BY DEF Reassignments
<1>. QED
  BY <1>2, <1>3 DEF KnownViewsOver

LEMMA ImprovedType ==
    ASSUME NEW s \in MgmAgents, NEW o, o.eval \in {"finite", "INF"},
           o.improve \in 0 .. Infinite, o.new_view \in KnownViewsOver(Agents)
    PROVE  Improved(s, o) \in MgmAgents
BY DEF MgmAgents, Improved

LEMMA LeastIndex ==
    ASSUME NEW T, T \subseteq Nat, T # {}
    PROVE  Min(T) \in T
BY LeastNatural DEF Min

LEMMA AdoptedIsKnown ==
    ASSUME IInv, NEW a \in Agents,
           \A c \in Neighbors(a) : Told(a)[c] \in KnownViewsOver(Agents)
    PROVE  Adopted(a) \in KnownViewsOver(Agents)
<1>1. CASE Adopts(a)
  <2>1. Differing(a) \subseteq DOMAIN NeighborList[a] /\ Differing(a) # {}
    BY <1>1 DEF Adopts, Differing
  <2>2. DOMAIN NeighborList[a] = 1 .. Len(NeighborList[a]) /\ Len(NeighborList[a]) \in Nat
    BY NeighborFacts
  <2>3. Differing(a) \subseteq Nat
    BY <2>1, <2>2
  <2>4. Min(Differing(a)) \in DOMAIN NeighborList[a]
    BY <2>1, <2>3, LeastIndex
  <2>5. NeighborList[a][Min(Differing(a))] \in Neighbors(a)
    BY <2>4, NeighborFacts
  <2>. QED
    BY <1>1, <2>5 DEF Adopted
<1>2. CASE ~ Adopts(a)
  <2>1. view[a] \in KnownViewsOver(Agents)
    BY AgentTypes DEF IInv
  <2>. QED
    BY <1>2, <2>1 DEF Adopted
<1>. QED
  BY <1>1, <1>2

(* The last OK message of a round: all neighbors are in this round or in   *)
(* its IMPROVE phase already, and no IMPROVE message of the agent is left. *)
LEMMA AllHeard ==
    ASSUME IInv, NEW a \in Agents, NEW b \in Neighbors(a), ~ Improving(a),
           Heard(a, b) \/ Round(b) = Reads(a)
    PROVE  /\ Round(b) = Reads(a)
           /\ Round(a) = 0 => Phase(b) = 2
           /\ ~ Pending(a, b, "IMPROVE")
BY LinkFacts DEF InStep, OkLink, ImproveLink

LEMMA LastOkEffect ==
    ASSUME IInv, NEW a \in Agents, LastOk(a)
    PROVE  \E g \in MgmAgents, x \in Messages :
              /\ g.term = mgm[a].term /\ g.can_move = (g.improve > 0) /\ g.stale = TRUE
              /\ g.consistent = TRUE /\ x.eval = g.eval
              /\ x.from = a /\ x.kind = "IMPROVE"
              /\ x.improve = g.improve /\ x.term = mgm[a].term
              /\ mgm' = [mgm EXCEPT ![a] = g]
              /\ out' = [out EXCEPT ![a] = ToNeighbors(a, x)]
              /\ view' = [view EXCEPT ![a] = Adopted(a)]
              /\ Adopted(a) \in KnownViewsOver(Agents)
<1>. DEFINE m == Message(a)
            s == [mgm[a] EXCEPT !.changed = Changed(a)]
<1>0. TypeOK /\ Takes(a, m) /\ m.kind = "OK" /\ IsLast(a)
  BY ReceivesTakes DEF IInv, LastOk
<1>1. \A c \in Neighbors(a) : Told(a)[c] \in KnownViewsOver(Agents)
  <2>. HIDE DEF m
  <2>1. HeardFrom(a) \union {m.from} = Neighbors(a)
    BY <1>0, CountTheView
  <2>2. m = Message(a)
    BY DEF m
  <2>3. /\ \A c \in Agents : Told(a)[c] # Cleared <=> Heard(a, c) \/ c = m.from
        /\ \A c \in Agents : Told(a)[c] # Cleared => Told(a)[c] \in KnownViewsOver(Agents)
    BY <1>0, <2>2, TheView
  <2>. QED
    BY <2>1, <2>3, NeighborFacts DEF HeardFrom
<1>2. Adopted(a) \in KnownViewsOver(Agents)
  BY <1>1, AdoptedIsKnown
<1>3. PICK o \in Improvements(a, s, Adopted(a)) :
              /\ mgm' = [mgm EXCEPT ![a] =
                    [Improved(s, o) EXCEPT !.can_move = o.improve > 0,
                                           !.consistent = TRUE,
                                           !.stale = TRUE]]
              /\ out' = [out EXCEPT ![a] = ToNeighbors(a,
                    [kind |-> "IMPROVE", from |-> a, eval |-> o.eval,
                     improve |-> o.improve, term |-> mgm[a].term])]
  BY DEF LastOk
<1>4. /\ o.eval \in Evals /\ o.improve \in 0 .. Infinite
      /\ o.new_view \in Reassignments(a, Adopted(a))
  BY <1>3 DEF Improvements
<1>5. o.new_view \in KnownViewsOver(Agents) /\ o.eval \in {"finite", "INF"}
  BY <1>2, <1>4, ReassignmentsAreKnown, EvalsAssumption
<1>. DEFINE g == [Improved(s, o) EXCEPT !.can_move = o.improve > 0,
                                        !.consistent = TRUE,
                                        !.stale = TRUE]
            x == [kind |-> "IMPROVE", from |-> a, eval |-> o.eval,
                  improve |-> o.improve, term |-> mgm[a].term]
<1>6. mgm[a] \in MgmAgents /\ mgm[a].term \in 0 .. MaxDistance
  BY <1>0, AgentTypes, DistanceAssumption
<1>7. Changed(a) \in BOOLEAN
  BY <1>0, AgentTypes DEF Changed
<1>8. g \in MgmAgents
  <2>1. s \in MgmAgents
    BY <1>6, <1>7 DEF MgmAgents
  <2>2. Improved(s, o) \in MgmAgents
    BY <1>4, <1>5, <2>1, ImprovedType
  <2>. DEFINE r == Improved(s, o)
              q == (o.improve > 0)
  <2>3. r \in MgmAgents /\ q \in BOOLEAN /\ TRUE \in BOOLEAN
    BY <2>2
  <2>. HIDE DEF r, q
  <2>4. [r EXCEPT !.can_move = q, !.consistent = TRUE, !.stale = TRUE] \in MgmAgents
    BY <2>3 DEF MgmAgents
  <2>. QED
    BY <2>4 DEF r, q
<1>9. g.term = mgm[a].term /\ g.improve = o.improve /\ g.eval = o.eval
      /\ g.can_move = (o.improve > 0) /\ g.stale = TRUE /\ g.consistent = TRUE
  BY <1>6 DEF MgmAgents, Improved
<1>10. x \in Messages
  BY <1>4, <1>6 DEF Messages, ImproveMessages
<1>11. /\ x.from = a /\ x.kind = "IMPROVE" /\ x.eval = o.eval
       /\ x.improve = o.improve /\ x.term = mgm[a].term
  OBVIOUS
<1>12. view' = [view EXCEPT ![a] = Adopted(a)]
  BY DEF LastOk
<1>13. mgm' = [mgm EXCEPT ![a] = g] /\ out' = [out EXCEPT ![a] = ToNeighbors(a, x)]
  BY <1>3
<1>. HIDE DEF g, x
<1>. QED
  BY <1>2, <1>8, <1>9, <1>10, <1>11, <1>12, <1>13

(* A link after the agent at one end of it has gone on to compare          *)
(* improvements in round r, or has opened round r + 1.                     *)
LEMMA LinkAfterLastOk ==
    ASSUME IInv, NEW a \in Agents, NEW b \in Neighbors(a),
           ~ Improving(a), Improving(a)', Round(a)' = Round(a), Reads(a)' = Reads(a),
           Phase(a)' = 2 * Round(a) + 1, SamePhase(b), Heard(a, b)',
           Round(b) = Reads(a), Round(a) = 0 => Phase(b) = 2,
           ~ Pending(a, b, "IMPROVE"), AgentInv(b),
           Heard(b, a)' <=> Heard(b, a), mgm'[b].can_move = mgm[b].can_move,
           mgm'[b].improve = mgm[b].improve,
           ~ Pending(b, a, "OK")',
           Pending(b, a, "IMPROVE")' <=> Pending(b, a, "IMPROVE"),
           Pending(a, b, "OK")' <=> Pending(a, b, "OK"),
           Pending(a, b, "IMPROVE")'
    PROVE  /\ Link(a, b)' /\ Link(b, a)'
           /\ ~ Compared(a, b)' /\ ~ Compared(b, a)' /\ ~ Compared(b, a)
<1>1. /\ Improving(b)' <=> Improving(b)
      /\ Round(b)' = Round(b) /\ Phase(b)' = Phase(b) /\ Reads(b)' = Reads(b)
  BY DEF SamePhase
<1>2. InStep(Phase(a), Phase(b))' /\ InStep(Phase(b), Phase(a))'
  BY <1>1, LinkFacts DEF InStep
<1>3. OkLink(a, b)'
  <2>1. Round(b) > 0 /\ Round(b) \in Nat
    BY LinkFacts
  <2>2. Round(b)' > 0 /\ Round(b)' = Reads(a)' /\ ~ (Round(b)' > Reads(a)')
        /\ Round(b)' >= Reads(a)'
    BY <1>1, <2>1
  <2>. QED
    BY <2>2 DEF OkLink
<1>4. OkLink(b, a)'
  BY <1>1, LinkFacts DEF OkLink
<1>5. ImproveLink(a, b)'
  BY <1>1, LinkFacts DEF ImproveLink, InStep
<1>6. ImproveLink(b, a)'
  BY <1>1, LinkFacts DEF ImproveLink, InStep
<1>7. ~ Compared(a, b)'
  BY <1>1, LinkFacts DEF Compared, ImproveLink, InStep
<1>8. ~ Compared(b, a)' /\ ~ Compared(b, a)
  BY <1>1, LinkFacts DEF Compared, InStep
<1>9. MoveLink(a, b)'
  BY <1>7 DEF MoveLink
<1>10. MoveLink(b, a)'
  <2>1. mgm[b].can_move => Phase(b) # 2
    BY DEF AgentInv
  <2>. QED
    BY <1>1, <1>8, <2>1, LinkFacts DEF MoveLink, InStep
<1>. QED
  BY <1>2, <1>3, <1>4, <1>5, <1>6, <1>7, <1>8, <1>9, <1>10 DEF Link

LEMMA LastOkStep ==
    ASSUME IInv, NEW a \in Agents, LastOk(a)
    PROVE  IInv'
<1>. DEFINE m == Message(a)
<1>0. TypeOK /\ AgentInv(a) /\ MailInv(a)
  BY DEF IInv
<1>1. /\ Takes(a, m) /\ m.kind = "OK" /\ out[a] = <<>> /\ IsLast(a) /\ ~ Halted(a)
      /\ UNCHANGED <<ready, roi, main, verdict, warned, kill>>
  BY ReceivesTakes DEF LastOk
<1>2. PICK g \in MgmAgents, x \in Messages :
              /\ g.term = mgm[a].term /\ g.can_move = (g.improve > 0) /\ g.stale = TRUE
              /\ g.consistent = TRUE /\ x.eval = g.eval
              /\ x.from = a /\ x.kind = "IMPROVE"
              /\ x.improve = g.improve /\ x.term = mgm[a].term
              /\ mgm' = [mgm EXCEPT ![a] = g]
              /\ out' = [out EXCEPT ![a] = ToNeighbors(a, x)]
              /\ view' = [view EXCEPT ![a] = Adopted(a)]
              /\ Adopted(a) \in KnownViewsOver(Agents)
  BY LastOkEffect
<1>3. /\ counter' = [counter EXCEPT ![a] = 0]
      /\ mode' = [mode EXCEPT ![a] = "WAIT_IMPROVE"]
      /\ agent_view' = [agent_view EXCEPT ![a] = Told(a)]
      /\ UNCHANGED <<stop, why>>
  BY DEF LastOk
<1>4. ~ Improving(a) /\ m.from \in Neighbors(a) /\ Pending(m.from, a, "OK")
      /\ ~ Heard(a, m.from) /\ Round(m.from) = Reads(a)
  BY <1>1, OkRead
<1>5. /\ Told(a) \in [Agents -> ViewsOver(Agents)]
      /\ \A c \in Agents : Told(a)[c] # Cleared <=> Heard(a, c) \/ c = m.from
      /\ \A c \in Agents : Told(a)[c] # Cleared => Told(a)[c] \in KnownViewsOver(Agents)
  BY <1>1, TheView
<1>6. HeardFrom(a) \union {m.from} = Neighbors(a)
  BY <1>1, CountTheView
<1>. HIDE DEF m
<1>7. /\ mgm'[a] = g /\ mode'[a] = "WAIT_IMPROVE" /\ counter'[a] = 0
      /\ agent_view'[a] = Told(a) /\ why' = why /\ stop' = stop
  BY <1>0, <1>2, <1>3 DEF TypeOK
<1>8. \A p \in Agents \ {a} : Same(p)
  BY <1>0, <1>2, <1>3 DEF TypeOK, Same
<1>9. \A c \in Agents : Heard(a, c)' <=> Heard(a, c) \/ c = m.from
  <2>1. Cleared' = Cleared
    BY DEF Cleared
  <2>. QED
    BY <1>5, <1>7, <2>1 DEF Heard
<1>10. /\ Improving(a)' /\ ~ Halted(a)' /\ Round(a)' = Round(a)
       /\ Reads(a)' = Reads(a) /\ Phase(a)' = 2 * Round(a) + 1 /\ Searched(a)' = Round(a)
  <2>1. Improving(a)' /\ ~ Halted(a)'
    BY <1>1, <1>7 DEF Improving, Halted
  <2>2. Round(a)' = Round(a)
    BY <1>1, <1>2, <1>7, <2>1 DEF Round
  <2>. QED
    BY <2>1, <2>2 DEF Reads, Phase, Searched
<1>11. Answers(a, "IMPROVE")
  <2>1. Round(a) = mgm[a].term
    BY <1>1 DEF Round
  <2>2. Truthful(x)'
    BY <1>2, <1>7, <1>10, <2>1 DEF Truthful
  <2>. QED
    BY <1>0, <1>2, <2>2, Answer
<1>12. ASSUME NEW b \in Neighbors(a)
       PROVE  /\ Heard(a, b)' /\ (Heard(a, b) \/ Round(b) = Reads(a))
              /\ Round(b) = Reads(a) /\ (Round(a) = 0 => Phase(b) = 2)
              /\ ~ Pending(a, b, "IMPROVE")
  <2>1. b \in Agents /\ (Heard(a, b) \/ b = m.from)
    BY <1>6, NeighborFacts DEF HeardFrom
  <2>2. Heard(a, b) \/ Round(b) = Reads(a)
    BY <1>4, <2>1
  <2>. QED
    BY <1>4, <1>9, <2>1, <2>2, AllHeard
<1>13. ASSUME NEW b \in Neighbors(a)
       PROVE  Link(a, b)' /\ Link(b, a)' /\ ~ Compared(a, b)' /\ (Compared(b, a)' <=> Compared(b, a))
  <2>0. b \in Agents \ {a} /\ Link(a, b) /\ AgentInv(b)
    BY NeighborFacts DEF IInv
  <2>1. /\ SamePhase(b) /\ mgm'[b] = mgm[b]
        /\ Heard(b, a)' <=> Heard(b, a)
    BY <1>8, <2>0, SameFacts DEF Same
  <2>2. /\ Pending(b, a, "OK")' <=> Pending(b, a, "OK") /\ ~ IsFrom(m, b, "OK")
        /\ Pending(b, a, "IMPROVE")' <=> Pending(b, a, "IMPROVE") /\ ~ IsFrom(m, b, "IMPROVE")
    BY <1>0, <1>1, <1>11, PendingToTaker DEF Phases
  <2>3. /\ Pending(a, b, "OK")' <=> Pending(a, b, "OK") \/ "OK" = "IMPROVE"
        /\ Pending(a, b, "IMPROVE")' <=> Pending(a, b, "IMPROVE") \/ "IMPROVE" = "IMPROVE"
    BY <1>1, <1>11, PendingFromTaker DEF Phases
  <2>4. ~ Pending(b, a, "OK")'
    <3>1. CASE b = m.from
      BY <1>1, <2>2, <3>1 DEF IsFrom
    <3>2. CASE b # m.from
      <4>1. Heard(a, b) /\ Round(b) = Reads(a)
        BY <1>6, <1>12, <3>2 DEF HeardFrom
      <4>2. ~ Pending(b, a, "OK")
        BY <4>1, LinkFacts DEF OkLink
      <4>. QED
        BY <2>2, <4>2
    <3>. QED
      BY <3>1, <3>2
  <2>5. Pending(b, a, "IMPROVE")' <=> Pending(b, a, "IMPROVE")
    BY <1>1, <2>2 DEF IsFrom
  <2>. QED
    BY <1>4, <1>10, <1>12, <2>0, <2>1, <2>3, <2>4, <2>5, LinkAfterLastOk
<1>14. TypeOK'
  <2>1. agent_view' \in [Agents -> [Agents -> ViewsOver(Agents)]]
    BY <1>0, <1>3, <1>5 DEF TypeOK
  <2>2. counter' \in [Agents -> 0 .. N]
    <3>1. 0 \in 0 .. N
      BY AgentFacts
    <3>. QED
      BY <1>0, <1>3, <3>1 DEF TypeOK
  <2>3. mgm' \in [Agents -> MgmAgents] /\ view' \in [Agents -> KnownViewsOver(Agents)]
    BY <1>0, <1>2 DEF TypeOK
  <2>4. mode' \in [Agents -> {"WAIT_OK", "WAIT_IMPROVE"}]
    BY <1>0, <1>3 DEF TypeOK
  <2>5. Barrier!TypeOK'
    BY <1>0, <1>1 DEF TypeOK, Barrier!TypeOK
  <2>6. out' \in [Agents -> Seq([to : Agents, msg : Messages])]
        /\ queue' \in [Agents -> Seq(Messages)]
    BY <1>1, <1>11 DEF Answers, Takes
  <2>. QED
    BY <1>0, <1>1, <1>3, <2>1, <2>2, <2>3, <2>4, <2>5, <2>6 DEF TypeOK
<1>15. CounterInv(a)'
  <2>1. ComparedWith(a)' = {}
    BY <1>13 DEF ComparedWith
  <2>. QED
    BY <1>7, <1>10, <2>1, NoneChosen DEF CounterInv
<1>16. AgentInv(a)'
  <2>1. Phase(a)' \notin {0, 2}
    BY <1>0, <1>10, PhaseFacts
  <2>2. \A b \in Agents : Heard(a, b)' => agent_view'[a][b] \in KnownViewsOver(Agents)
    BY <1>5, <1>7, <1>9
  <2>3. mgm'[a].term < MaxDistance /\ mgm'[a].stale
    BY <1>0, <1>1, <1>2, <1>7 DEF AgentInv
  <2>. QED
    BY <1>10, <2>1, <2>2, <2>3 DEF AgentInv
<1>17. mgm'[a].term = mgm[a].term
  BY <1>2, <1>7
<1>18. Settles(a)
  BY <1>1, <1>8, <1>13, <1>14, <1>15, <1>16, <1>17 DEF Settles
<1>19. \A c \in Neighbors(a) : ~ Pending(a, c, "IMPROVE")
  BY <1>12
<1>. QED
  BY <1>1, <1>11, <1>18, <1>19, TakerStep

-----------------------------------------------------------------------------
(* Reading an IMPROVE message: it is from a neighbor that has not been     *)
(* compared with in this round, and says what that one has just found.     *)
LEMMA ImproveRead ==
    ASSUME IInv, NEW a \in Agents, NEW m, Takes(a, m), m.kind = "IMPROVE", ~ Halted(a)
    PROVE  /\ Improving(a) /\ m.from \in Neighbors(a) /\ Round(a) > 0
           /\ Pending(m.from, a, "IMPROVE") /\ ~ Compared(a, m.from)
           /\ Phase(m.from) >= Phase(a)
           /\ m.improve = mgm[m.from].improve /\ m.term = mgm[a].term
<1>1. Improving(a)
  <2>1. mode[a] \in {"WAIT_OK", "WAIT_IMPROVE"}
    BY AgentTypes DEF IInv
  <2>. QED
    BY <2>1 DEF Takes, Accepted, Improving
<1>2. m.from \in Neighbors(a) /\ Pending(m.from, a, "IMPROVE") /\ Truthful(m)
  BY DEF Takes, Phases, Pending
<1>3. m.improve = mgm[m.from].improve /\ m.term = Searched(m.from)
  BY <1>2 DEF Truthful
<1>. DEFINE b == m.from
<1>. HIDE DEF b
<1>4. b \in Neighbors(a) /\ Pending(b, a, "IMPROVE")
  BY <1>2 DEF b
<1>5. Round(a) > 0 /\ Phase(b) >= Phase(a) /\ ~ Compared(a, b)
  BY <1>1, <1>4, LinkFacts DEF ImproveLink, Compared
<1>6. Searched(b) = Round(a)
  BY <1>1, <1>4, <1>5, LinkFacts DEF InStep
<1>7. Round(a) = mgm[a].term
  BY DEF Round
<1>. QED
  BY <1>1, <1>2, <1>3, <1>5, <1>6, <1>7 DEF b

LEMMA CountTheImprovement ==
    ASSUME IInv, NEW a \in Agents, NEW m, Takes(a, m), m.kind = "IMPROVE", ~ Halted(a)
    PROVE  /\ Counted(a) = Cardinality(ComparedWith(a) \union {m.from})
           /\ ComparedWith(a) \union {m.from} \subseteq Neighbors(a)
           /\ Counted(a) \in 0 .. N
           /\ IsLast(a) => ComparedWith(a) \union {m.from} = Neighbors(a)
<1>1. m.from \in Neighbors(a) \ ComparedWith(a) /\ Improving(a)
  BY ImproveRead DEF ComparedWith
<1>2. ComparedWith(a) \subseteq Neighbors(a) /\ counter[a] = Cardinality(ComparedWith(a))
  BY <1>1 DEF IInv, CounterInv, ComparedWith
<1>3. Counted(a) = Cardinality(ComparedWith(a) \union {m.from})
  BY <1>1, <1>2, OneMore DEF Counted
<1>4. ComparedWith(a) \union {m.from} \subseteq Agents
  BY <1>1, <1>2, NeighborFacts
<1>5. Counted(a) \in 0 .. N
  BY <1>3, <1>4, ChosenCount
<1>6. ASSUME IsLast(a) PROVE ComparedWith(a) \union {m.from} = Neighbors(a)
  <2>1. Cardinality(ComparedWith(a)) + 1 = Cardinality(Neighbors(a))
    BY <1>2, <1>6, NeighborFacts DEF IsLast, Counted
  <2>. QED
    BY <1>1, <1>2, <2>1, TheLastOne
<1>. QED
  BY <1>1, <1>2, <1>3, <1>5, <1>6

LEMMA NotedFacts ==
    ASSUME IInv, NEW a \in Agents, NEW m, Takes(a, m), m.kind = "IMPROVE", ~ Halted(a),
           m = Message(a)
    PROVE  /\ Noted(a) \in MgmAgents /\ Noted(a).term = mgm[a].term
           /\ Noted(a).improve = mgm[a].improve
           /\ Noted(a).can_move => mgm[a].can_move /\ Beats(a, m.from)
<1>1. TypeOK /\ m \in Messages
  BY DEF IInv, Takes
<1>2. /\ m.improve = mgm[m.from].improve /\ m.term = mgm[a].term /\ m.from \in Agents
      /\ m.improve \in Nat
  BY <1>1, ImproveRead, MessageTypes
<1>3. mgm[a] \in MgmAgents /\ mgm[a].term \in Nat /\ mgm[a].improve \in Nat
  BY <1>1, AgentTypes
<1>. DEFINE t == IF m.term < mgm[a].term THEN m.term ELSE mgm[a].term
            mo == mgm[a].can_move /\ ~ Beaten(a)
            co == mgm[a].consistent /\ m.eval # "INF"
            st == mgm[a].stale /\ ~ (m.improve > 0)
<1>4. Noted(a) = [mgm[a] EXCEPT !.term = t, !.can_move = mo, !.consistent = co, !.stale = st]
  BY DEF Noted
<1>5. t = mgm[a].term
  BY <1>2
<1>6. mo \in BOOLEAN /\ co \in BOOLEAN /\ st \in BOOLEAN
  OBVIOUS
<1>7. mo => mgm[a].can_move /\ Beats(a, m.from)
  <2>1. a \in Nat /\ m.from \in Nat /\ m.from # a
    BY <1>2, AgentFacts, ImproveRead, NeighborFacts
  <2>2. mgm[m.from].improve \in Nat
    BY <1>2
  <2>3. ~ Beaten(a) => Beats(a, m.from)
    BY <1>2, <1>3, <2>1, <2>2 DEF Beaten, Beats
  <2>. QED
    BY <2>3
<1>. HIDE DEF t, mo, co, st
<1>8. Noted(a) \in MgmAgents
  BY <1>3, <1>4, <1>5, <1>6 DEF MgmAgents
<1>9. /\ Noted(a).term = t /\ Noted(a).improve = mgm[a].improve /\ Noted(a).can_move = mo
  BY <1>3, <1>4 DEF MgmAgents
<1>. QED
  BY <1>5, <1>7, <1>8, <1>9

(* send_ok: what the agent with state s does, with v as its view then and  *)
(* x as its message.                                                       *)
SentOk(a, s, v, x) ==
    /\ view' = [view EXCEPT ![a] = v]
    /\ out' = [out EXCEPT ![a] = ToNeighbors(a, x)]
    /\ x.from = a /\ x.kind = IF Halts(s) THEN "END" ELSE "OK"
    /\ stop' = [stop EXCEPT ![a] = Halts(s)] /\ Halts(s) \in BOOLEAN
    /\ why' \in [Agents -> {"", "distance", "stale", "overtaken", "end", "alone"}]
    /\ \A b \in Agents \ {a} : why'[b] = why[b]
    /\ ~ Halts(s) => why'[a] = why[a] /\ s.term + 1 < MaxDistance
    /\ Halts(s) => why'[a] \in {"distance", "stale", "overtaken"}
    /\ Advanced(s) \in MgmAgents /\ Advanced(s).term = s.term + 1
    /\ Advanced(s).can_move = s.can_move /\ Advanced(s).improve = s.improve
    /\ [Advanced(s) EXCEPT !.changed = FALSE] \in MgmAgents

LEMMA SendOkEffect ==
    ASSUME TypeOK, NEW a \in Agents, NEW s \in MgmAgents, SendOk(a, s), s.term < MaxDistance,
           Message(a).kind \in {"IMPROVE", "START"}
    PROVE  \E v \in KnownViewsOver(Agents), x \in Messages : SentOk(a, s, v, x)
<1>. DEFINE v == Moved(s, view[a])
            x == IF Halts(s) THEN [kind |-> "END", from |-> a]
                             ELSE [kind |-> "OK", from |-> a, view |-> v]
            y == Reason(a, s)
            Whys == {"", "distance", "stale", "overtaken", "end", "alone"}
<1>1. /\ s.term \in Nat /\ s.stale \in BOOLEAN /\ s.can_move \in BOOLEAN
      /\ s.new_view \in KnownViewsOver(Agents) /\ MaxDistance \in Nat
  <2>1. MaxDistance \in Nat
    BY DistanceAssumption
  <2>2. s.term \in 0 .. MaxDistance /\ s.stale \in BOOLEAN /\ s.can_move \in BOOLEAN
        /\ s.new_view \in KnownViewsOver(Agents)
    BY DEF MgmAgents
  <2>. QED
    BY <2>1, <2>2
<1>2. view[a] \in KnownViewsOver(Agents)
  BY AgentTypes
<1>3. Halts(s) \in BOOLEAN /\ (~ Halts(s) => s.term + 1 < MaxDistance)
  BY <1>1 DEF Halts
<1>4. v \in KnownViewsOver(Agents)
  BY <1>1, <1>2 DEF Moved
<1>5. x \in Messages /\ x.from = a /\ x.kind = IF Halts(s) THEN "END" ELSE "OK"
  <2>. HIDE DEF v
  <2>1. CASE Halts(s)
    BY <2>1 DEF Messages, ControlMessages
  <2>2. CASE ~ Halts(s)
    BY <1>4, <2>2 DEF Messages, OkMessages
  <2>. QED
    BY <2>1, <2>2
<1>6. /\ ~ Halts(s) => y = why[a]
      /\ Halts(s) => y \in {"distance", "stale", "overtaken"}
  <2>1. CASE ~ Halts(s)
    <3>1. y = why[a]
      BY <1>1, <1>3, <2>1 DEF Reason, Halts
    <3>. QED
      BY <2>1, <3>1
  <2>2. CASE Halts(s) /\ ~ s.stale
    BY <2>2 DEF Reason
  <2>3. CASE Halts(s) /\ s.stale /\ Message(a).kind = "IMPROVE"
    BY <2>3 DEF Reason
  <2>4. CASE Halts(s) /\ s.stale /\ Message(a).kind = "START"
    BY <2>4 DEF Reason
  <2>. QED
    BY <2>1, <2>2, <2>3, <2>4
<1>7. why \in [Agents -> Whys]
  BY DEF TypeOK
<1>8. y \in Whys
  BY <1>6, <1>7
<1>9. /\ view' = [view EXCEPT ![a] = v]
      /\ stop' = [stop EXCEPT ![a] = Halts(s)]
      /\ why' = [why EXCEPT ![a] = y]
      /\ out' = [out EXCEPT ![a] = ToNeighbors(a, x)]
  <2>1. /\ view' = [view EXCEPT ![a] = v]
        /\ stop' = [stop EXCEPT ![a] = Halts(s)]
        /\ why' = [why EXCEPT ![a] = y]
    BY DEF SendOk
  <2>2. out' = [out EXCEPT ![a] = ToNeighbors(a, x)]
    BY DEF SendOk
  <2>. QED
    BY <2>1, <2>2
<1>. HIDE DEF v, x, y
<1>10. why' \in [Agents -> Whys] /\ why'[a] = y /\ \A b \in Agents \ {a} : why'[b] = why[b]
  BY <1>7, <1>8, <1>9
<1>11. s.term + 1 \in 0 .. MaxDistance
  BY <1>1
<1>12. /\ Advanced(s) \in MgmAgents /\ Advanced(s).term = s.term + 1
       /\ Advanced(s).can_move = s.can_move /\ Advanced(s).improve = s.improve
  BY <1>11 DEF Advanced, MgmAgents
<1>13. [Advanced(s) EXCEPT !.changed = FALSE] \in MgmAgents
  BY <1>12 DEF MgmAgents
<1>. QED
  BY <1>3, <1>4, <1>5, <1>6, <1>9, <1>10, <1>12, <1>13 DEF SentOk

(* A link after the agent at one end of it has taken note of an IMPROVE    *)
(* message, and stays in its phase.                                        *)
LEMMA LinksAfterImprove ==
    ASSUME IInv, NEW a \in Agents, NEW m, Takes(a, m), m.kind = "IMPROVE", ~ Halted(a),
           Answers(a, "") \/ Answers(a, "END"), out[a] = <<>>,
           \A p \in Agents \ {a} : Same(p), SamePhase(a),
           \A b \in Agents : Heard(a, b)' <=> Heard(a, b),
           mgm'[a].improve = mgm[a].improve,
           mgm'[a].can_move => mgm[a].can_move /\ Beats(a, m.from)
    PROVE  /\ \A b \in Neighbors(a) : /\ Link(a, b)' /\ Link(b, a)'
                                      /\ Compared(b, a)' <=> Compared(b, a)
           /\ ComparedWith(a)' = ComparedWith(a) \union {m.from}
<1>0. MailInv(a)
  BY DEF IInv
<1>1. /\ Improving(a) /\ m.from \in Neighbors(a) /\ Round(a) > 0
      /\ Pending(m.from, a, "IMPROVE") /\ Phase(m.from) >= Phase(a)
  BY ImproveRead
<1>2. ASSUME NEW b \in Neighbors(a)
      PROVE  /\ Link(a, b)' /\ Link(b, a)'
             /\ Compared(b, a)' <=> Compared(b, a)
             /\ Compared(a, b)' <=> Compared(a, b) \/ b = m.from
  <2>0. b \in Agents \ {a} /\ Link(a, b) /\ Link(b, a)
    BY NeighborFacts DEF IInv
  <2>1. /\ SamePhase(b) /\ mgm'[b] = mgm[b]
        /\ Heard(b, a)' <=> Heard(b, a)
    BY <2>0, SameFacts DEF Same
  <2>2. SamePending(a, b)
    BY PendingFromSilent
  <2>3. Link(b, a)' /\ (Compared(b, a)' <=> Compared(b, a))
    BY <2>0, <2>1, <2>2, LinkKept, ComparedKept
  <2>4. PICK k \in {"", "END"} : Answers(a, k)
    OBVIOUS
  <2>5. /\ Pending(b, a, "OK")' <=> Pending(b, a, "OK") /\ ~ IsFrom(m, b, "OK")
        /\ Pending(b, a, "IMPROVE")' <=> Pending(b, a, "IMPROVE") /\ ~ IsFrom(m, b, "IMPROVE")
    BY <1>0, <2>4, PendingToTaker DEF Phases
  <2>6. /\ Pending(b, a, "OK")' <=> Pending(b, a, "OK")
        /\ Pending(b, a, "IMPROVE")' <=> Pending(b, a, "IMPROVE") /\ b # m.from
    BY <2>5 DEF IsFrom
  <2>7. /\ Improving(a)' /\ Round(a)' = Round(a) /\ Phase(a)' = Phase(a)
        /\ Reads(a)' = Reads(a) /\ Phase(b)' = Phase(b) /\ Round(b)' = Round(b)
        /\ Improving(b)' <=> Improving(b)
    BY <1>1, <2>1 DEF SamePhase
  <2>8. Compared(a, b)' <=> Compared(a, b) \/ b = m.from
    BY <1>1, <2>6, <2>7 DEF Compared
  <2>9. InStep(Phase(a), Phase(b))'
    BY <2>0, <2>7 DEF Link, InStep
  <2>10. OkLink(a, b)'
    <3>1. Heard(a, b)' <=> Heard(a, b)
      BY <2>0
    <3>2. OkLink(a, b) /\ (Pending(b, a, "OK")' <=> Pending(b, a, "OK"))
      BY <2>0, <2>6 DEF Link
    <3>. QED
      BY <1>1, <2>7, <3>1, <3>2 DEF OkLink
  <2>11. ImproveLink(a, b)'
    BY <1>1, <2>0, <2>6, <2>7 DEF Link, ImproveLink
  <2>12. Beats(a, b) => Beats(a, b)'
    BY <2>1 DEF Beats
  <2>13. MoveLink(a, b)'
    BY <1>1, <2>0, <2>7, <2>8, <2>12 DEF Link, MoveLink
  <2>. QED
    BY <2>3, <2>8, <2>9, <2>10, <2>11, <2>13 DEF Link
<1>3. ComparedWith(a)' = ComparedWith(a) \union {m.from}
  BY <1>1, <1>2 DEF ComparedWith
<1>. QED
  BY <1>2, <1>3

LEMMA ImproveButNotLastStep ==
    ASSUME IInv, NEW a \in Agents, ImproveButNotLast(a)
    PROVE  IInv'
<1>. DEFINE m == Message(a)
<1>0. TypeOK /\ AgentInv(a) /\ MailInv(a)
  BY DEF IInv
<1>1. /\ Takes(a, m) /\ m.kind = "IMPROVE" /\ out[a] = <<>> /\ ~ Halted(a)
      /\ UNCHANGED <<ready, roi, main, verdict, warned, kill>>
  BY ReceivesTakes DEF ImproveButNotLast
<1>2. /\ counter' = [counter EXCEPT ![a] = Counted(a)]
      /\ mgm' = [mgm EXCEPT ![a] = Noted(a)]
      /\ UNCHANGED <<view, agent_view, mode, stop, out, why>>
  BY DEF ImproveButNotLast
<1>3. /\ Noted(a) \in MgmAgents /\ Noted(a).term = mgm[a].term
      /\ Noted(a).improve = mgm[a].improve
      /\ Noted(a).can_move => mgm[a].can_move /\ Beats(a, m.from)
  BY <1>1, NotedFacts
<1>. HIDE DEF m
<1>4. Improving(a) /\ Round(a) > 0
  BY <1>1, ImproveRead
<1>5. Answers(a, "")
  BY <1>0, <1>1, <1>2, Silence
<1>6. \A p \in Agents \ {a} : Same(p)
  BY <1>0, <1>2 DEF TypeOK, Same
<1>7. mgm'[a] = Noted(a) /\ counter'[a] = Counted(a)
  BY <1>0, <1>2 DEF TypeOK
<1>8. SamePhase(a) /\ (Halted(a)' <=> Halted(a))
  <2>1. Halted(a)' <=> Halted(a)
    BY <1>2 DEF Halted
  <2>2. Round(a)' = Round(a)
    BY <1>3, <1>7, <2>1 DEF Round
  <2>. QED
    BY <1>2, <2>1, <2>2, PhaseKept
<1>9. \A b : Heard(a, b)' <=> Heard(a, b)
  BY <1>2 DEF Heard, Cleared
<1>10. /\ \A b \in Neighbors(a) : /\ Link(a, b)' /\ Link(b, a)'
                                  /\ Compared(b, a)' <=> Compared(b, a)
       /\ ComparedWith(a)' = ComparedWith(a) \union {m.from}
  BY <1>1, <1>3, <1>5, <1>6, <1>7, <1>8, <1>9, LinksAfterImprove
<1>11. CounterInv(a)'
  BY <1>1, <1>4, <1>7, <1>8, <1>10, CountTheImprovement DEF CounterInv, SamePhase
<1>12. AgentInv(a)'
  <2>1. Phase(a)' \notin {0, 1, 2}
    BY <1>0, <1>4, <1>8, PhaseFacts DEF SamePhase
  <2>2. \A b \in Agents : Heard(a, b)' => agent_view'[a][b] \in KnownViewsOver(Agents)
    BY <1>0, <1>2, <1>9 DEF AgentInv
  <2>3. mgm'[a].term < MaxDistance
    BY <1>0, <1>1, <1>3, <1>7 DEF AgentInv
  <2>. QED
    BY <1>1, <1>8, <2>1, <2>2, <2>3 DEF AgentInv
<1>13. TypeOK'
  <2>1. counter' \in [Agents -> 0 .. N]
    BY <1>0, <1>1, <1>2, CountTheImprovement DEF TypeOK
  <2>2. mgm' \in [Agents -> MgmAgents]
    BY <1>0, <1>2, <1>3 DEF TypeOK
  <2>3. Barrier!TypeOK'
    BY <1>0, <1>1 DEF TypeOK, Barrier!TypeOK
  <2>. QED
    BY <1>0, <1>1, <1>2, <2>1, <2>2, <2>3 DEF TypeOK, Takes
<1>14. Settles(a)
  BY <1>1, <1>3, <1>6, <1>7, <1>10, <1>11, <1>12, <1>13 DEF Settles
<1>15. mgm'[a].improve = mgm[a].improve /\ Searched(a)' = Searched(a)
  BY <1>3, <1>7, <1>8 DEF SamePhase
<1>16. "" \notin Phases
  BY DEF Phases
<1>. QED
  BY <1>1, <1>5, <1>14, <1>15, <1>16, TakerStep

(* The last IMPROVE message of a round: the agent has compared itself with *)
(* all its neighbors, and they have all told it of this round.             *)
NotedAll(a) == [Noted(a) EXCEPT !.stale = @ /\ ~(mgm[a].improve > 0)]

LEMMA LastImproveFacts ==
    ASSUME IInv, NEW a \in Agents, LastImprove(a), NEW m, m = Message(a),
           NEW s, s = NotedAll(a)
    PROVE  /\ Takes(a, m) /\ m.kind = "IMPROVE" /\ out[a] = <<>> /\ ~ Halted(a) /\ IsLast(a)
           /\ UNCHANGED <<ready, roi, main, verdict, warned, kill>>
           /\ s \in MgmAgents /\ s.term = mgm[a].term /\ s.improve = mgm[a].improve
           /\ s.can_move => mgm[a].can_move /\ Beats(a, m.from)
           /\ SendOk(a, s) /\ s.term < MaxDistance
           /\ Improving(a) /\ Round(a) > 0 /\ Round(a) = mgm[a].term
           /\ m.from \in Neighbors(a) /\ Phase(m.from) >= Phase(a)
           /\ Pending(m.from, a, "IMPROVE")
           /\ ComparedWith(a) \union {m.from} = Neighbors(a)
           /\ StartIsSent(a) /\ ~ Holds(queue'[a], Null, "START")
<1>1. /\ Takes(a, m) /\ m.kind = "IMPROVE" /\ out[a] = <<>> /\ ~ Halted(a) /\ IsLast(a)
      /\ UNCHANGED <<ready, roi, main, verdict, warned, kill>>
  BY ReceivesTakes DEF LastImprove
<1>2. /\ Noted(a) \in MgmAgents /\ Noted(a).term = mgm[a].term
      /\ Noted(a).improve = mgm[a].improve
      /\ Noted(a).can_move => mgm[a].can_move /\ Beats(a, m.from)
  BY <1>1, NotedFacts
<1>3. SendOk(a, s)
  BY DEF LastImprove, NotedAll
<1>. DEFINE n == Noted(a)
            st == n.stale /\ ~(mgm[a].improve > 0)
<1>4. s = [n EXCEPT !.stale = st] /\ st \in BOOLEAN
  BY DEF NotedAll
<1>. HIDE DEF n, st
<1>5. /\ s \in MgmAgents /\ s.term = n.term /\ s.improve = n.improve
      /\ s.can_move = n.can_move
  <2>1. n \in MgmAgents
    BY <1>2 DEF n
  <2>. QED
    BY <1>4, <2>1 DEF MgmAgents
<1>6. /\ s \in MgmAgents /\ s.term = mgm[a].term /\ s.improve = mgm[a].improve
      /\ s.can_move => mgm[a].can_move /\ Beats(a, m.from)
  BY <1>2, <1>5 DEF n
<1>7. /\ Improving(a) /\ Round(a) > 0 /\ m.from \in Neighbors(a)
      /\ Phase(m.from) >= Phase(a) /\ Pending(m.from, a, "IMPROVE")
  BY <1>1, ImproveRead
<1>8. Round(a) = mgm[a].term
  BY <1>1 DEF Round
<1>9. s.term < MaxDistance
  BY <1>1, <1>6 DEF IInv, AgentInv
<1>10. ComparedWith(a) \union {m.from} = Neighbors(a)
  BY <1>1, CountTheImprovement
<1>11. StartIsSent(a) /\ ~ Holds(queue'[a], Null, "START")
  <2>1. mgm[a].term # 0
    BY <1>7, <1>8
  <2>2. StartIsSent(a) /\ ~ Holds(queue[a], Null, "START")
    BY <2>1 DEF IInv, StartInv
  <2>. QED
    BY <1>1, <2>2 DEF Takes
<1>. QED
  BY <1>1, <1>3, <1>6, <1>7, <1>8, <1>9, <1>10, <1>11

LEMMA LastImproveHaltsStep ==
    ASSUME IInv, NEW a \in Agents, LastImprove(a), NEW s,
           s = NotedAll(a), Halts(s)
    PROVE  IInv'
<1>. DEFINE m == Message(a)
<1>0. TypeOK /\ AgentInv(a) /\ MailInv(a)
  BY DEF IInv
<1>1. /\ Takes(a, m) /\ m.kind = "IMPROVE" /\ out[a] = <<>> /\ ~ Halted(a)
      /\ UNCHANGED <<ready, roi, main, verdict, warned, kill>>
      /\ s \in MgmAgents /\ s.term = mgm[a].term /\ s.improve = mgm[a].improve
      /\ s.can_move => mgm[a].can_move /\ Beats(a, m.from)
      /\ SendOk(a, s) /\ s.term < MaxDistance
      /\ Improving(a) /\ Round(a) > 0 /\ Round(a) = mgm[a].term
      /\ StartIsSent(a) /\ ~ Holds(queue'[a], Null, "START")
  BY LastImproveFacts
<1>2a. PICK v \in KnownViewsOver(Agents), x \in Messages : SentOk(a, s, v, x)
  <2>1. Message(a).kind \in {"IMPROVE", "START"} /\ SendOk(a, s)
    BY <1>1
  <2>2. s \in MgmAgents /\ s.term < MaxDistance
    BY <1>1
  <2>. QED
    BY <1>0, <2>1, <2>2, SendOkEffect
<1>2. /\ view' = [view EXCEPT ![a] = v]
      /\ out' = [out EXCEPT ![a] = ToNeighbors(a, x)]
      /\ x.from = a /\ x.kind = IF Halts(s) THEN "END" ELSE "OK"
      /\ stop' = [stop EXCEPT ![a] = Halts(s)] /\ Halts(s) \in BOOLEAN
      /\ why' \in [Agents -> {"", "distance", "stale", "overtaken", "end", "alone"}]
      /\ \A b \in Agents \ {a} : why'[b] = why[b]
      /\ ~ Halts(s) => why'[a] = why[a] /\ s.term + 1 < MaxDistance
      /\ Halts(s) => why'[a] \in {"distance", "stale", "overtaken"}
      /\ Advanced(s) \in MgmAgents /\ Advanced(s).term = s.term + 1
      /\ Advanced(s).can_move = s.can_move /\ Advanced(s).improve = s.improve
      /\ [Advanced(s) EXCEPT !.changed = FALSE] \in MgmAgents
  BY <1>2a DEF SentOk
<1>3. /\ mgm' = [mgm EXCEPT ![a] = Advanced(s)]
      /\ counter' = [counter EXCEPT ![a] = Counted(a)]
      /\ UNCHANGED <<agent_view, mode>>
  BY DEF LastImprove, NotedAll
<1>. HIDE DEF m
<1>4. /\ mgm'[a] = Advanced(s) /\ counter'[a] = Counted(a) /\ stop'[a] = TRUE
      /\ stop' \in [Agents -> BOOLEAN]
      /\ mgm'[a].term = mgm[a].term + 1
  <2>1. mgm'[a] = Advanced(s) /\ Advanced(s).term = mgm[a].term + 1
    BY <1>0, <1>1, <1>2, <1>3 DEF TypeOK
  <2>. QED
    BY <1>0, <1>2, <1>3, <2>1 DEF TypeOK
<1>5. Halted(a)'
  BY <1>2 DEF Halted
<1>6. SamePhase(a)
  <2>1. Round(a)' = mgm'[a].term - 1
    BY <1>5 DEF Round
  <2>2. mgm[a].term \in Nat /\ Round(a) \in Nat
    BY <1>0, AgentTypes, PhaseFacts
  <2>3. Round(a)' = Round(a)
    BY <1>1, <1>4, <2>1, <2>2
  <2>. QED
    BY <1>3, <2>3, PhaseKept
<1>7. Answers(a, "END")
  <2>1. x.kind = "END" /\ Truthful(x)'
    BY <1>2 DEF Truthful
  <2>. QED
    BY <1>0, <1>2, <2>1, Answer
<1>8. \A p \in Agents \ {a} : Same(p)
  BY <1>0, <1>2, <1>3 DEF TypeOK, Same
<1>9. \A b : Heard(a, b)' <=> Heard(a, b)
  BY <1>3 DEF Heard, Cleared
<1>10. \A b \in Neighbors(a) : /\ Link(a, b)' /\ Link(b, a)'
                               /\ Compared(b, a)' <=> Compared(b, a)
  <2>1. /\ mgm'[a].improve = mgm[a].improve
        /\ mgm'[a].can_move => mgm[a].can_move /\ Beats(a, m.from)
    BY <1>1, <1>2, <1>4
  <2>. QED
    BY <1>1, <1>6, <1>7, <1>8, <1>9, <2>1, LinksAfterImprove
<1>11. CounterInv(a)'
  BY <1>1, <1>5, <1>6 DEF CounterInv, SamePhase
<1>12. AgentInv(a)'
  <2>1. Phase(a)' \notin {0, 1, 2}
    BY <1>0, <1>1, <1>6, PhaseFacts DEF SamePhase
  <2>2. \A b \in Agents : Heard(a, b)' => agent_view'[a][b] \in KnownViewsOver(Agents)
    BY <1>0, <1>3, <1>9 DEF AgentInv
  <2>3. mgm'[a].term > 0
    BY <1>0, <1>4, AgentTypes
  <2>. QED
    BY <1>4, <1>5, <2>1, <2>2, <2>3 DEF AgentInv
<1>13. TypeOK'
  <2>1. counter' \in [Agents -> 0 .. N]
    BY <1>0, <1>1, <1>3, CountTheImprovement DEF TypeOK
  <2>2. mgm' \in [Agents -> MgmAgents] /\ view' \in [Agents -> KnownViewsOver(Agents)]
    BY <1>0, <1>2, <1>3 DEF TypeOK
  <2>3. Barrier!TypeOK'
    BY <1>0, <1>1 DEF TypeOK, Barrier!TypeOK
  <2>4. out' \in [Agents -> Seq([to : Agents, msg : Messages])]
        /\ queue' \in [Agents -> Seq(Messages)]
    BY <1>1, <1>7 DEF Answers, Takes
  <2>. QED
    BY <1>0, <1>1, <1>2, <1>3, <1>4, <2>1, <2>2, <2>3, <2>4 DEF TypeOK
<1>14. Settles(a)
  BY <1>1, <1>8, <1>10, <1>11, <1>12, <1>13 DEF Settles
<1>15. mgm'[a].improve = mgm[a].improve /\ Searched(a)' = Searched(a)
  BY <1>1, <1>2, <1>4, <1>6 DEF SamePhase
<1>16. "END" \notin Phases
  BY DEF Phases
<1>. QED
  BY <1>1, <1>7, <1>14, <1>15, <1>16, TakerStep

LEMMA LinkAfterLastImprove ==
    ASSUME IInv, NEW a \in Agents, NEW b \in Neighbors(a),
           Improving(a), Round(a) > 0, ~ Improving(a)', Round(a)' = Round(a) + 1,
           Reads(a)' = Round(a) + 1, Phase(a)' = 2 * (Round(a) + 1), SamePhase(b),
           Phase(b) >= Phase(a), ~ Heard(a, b)', Heard(b, a)' <=> Heard(b, a),
           mgm'[b].can_move = mgm[b].can_move, mgm'[b].improve = mgm[b].improve,
           mgm'[a].improve = mgm[a].improve, mgm'[a].can_move => Beats(a, b),
           Pending(b, a, "OK")' <=> Pending(b, a, "OK"),
           ~ Pending(b, a, "IMPROVE")', Pending(a, b, "OK")',
           Pending(a, b, "IMPROVE")' <=> Pending(a, b, "IMPROVE")
    PROVE  /\ Link(a, b)' /\ Link(b, a)'
           /\ Compared(b, a)' <=> Compared(b, a)
           /\ ~ Pending(a, b, "OK")
<1>1. /\ Improving(b)' <=> Improving(b)
      /\ Round(b)' = Round(b) /\ Phase(b)' = Phase(b) /\ Reads(b)' = Reads(b)
  BY DEF SamePhase
<1>2. /\ Phase(a) = 2 * Round(a) + 1 /\ Round(b) > 0 /\ Reads(b) = Round(b)
      /\ \/ Improving(b) /\ Round(b) = Round(a) /\ Phase(b) = Phase(a)
         \/ ~ Improving(b) /\ Round(b) = Round(a) + 1 /\ Phase(b) = Phase(a) + 1
  BY LinkFacts DEF InStep
<1>3. InStep(Phase(a), Phase(b))' /\ InStep(Phase(b), Phase(a))'
  BY <1>1, <1>2, LinkFacts DEF InStep
<1>4. OkLink(a, b)'
  <2>1. Pending(b, a, "OK") <=> Round(b) = Round(a) + 1
    BY <1>2, LinkFacts DEF OkLink
  <2>. QED
    BY <1>1, <1>2, <2>1, LinkFacts DEF OkLink
<1>5. OkLink(b, a)' /\ ~ Pending(a, b, "OK")
  BY <1>1, <1>2, LinkFacts DEF OkLink
<1>6. ImproveLink(a, b)'
  BY <1>1, <1>2, LinkFacts DEF ImproveLink
<1>7. ImproveLink(b, a)'
  BY <1>1, <1>2, LinkFacts DEF ImproveLink
<1>8. Compared(b, a)' <=> Compared(b, a)
  BY <1>1, <1>2, LinkFacts DEF Compared
<1>9. MoveLink(a, b)'
  BY DEF MoveLink, Beats
<1>10. MoveLink(b, a)'
  <2>1. ~ Improving(b) => Phase(a) <= Phase(b)
    BY <1>2, LinkFacts
  <2>2. MoveLink(b, a)
    BY LinkFacts
  <2>. QED
    BY <1>1, <1>8, <2>1, <2>2 DEF MoveLink, Beats
<1>. QED
  BY <1>3, <1>4, <1>5, <1>6, <1>7, <1>8, <1>9, <1>10 DEF Link

LEMMA LastImproveGoesOnStep ==
    ASSUME IInv, NEW a \in Agents, LastImprove(a), NEW s,
           s = NotedAll(a), ~ Halts(s)
    PROVE  IInv'
<1>. DEFINE m == Message(a)
            g == [Advanced(s) EXCEPT !.changed = FALSE]
<1>0. TypeOK /\ AgentInv(a) /\ MailInv(a)
  BY DEF IInv
<1>1. /\ Takes(a, m) /\ m.kind = "IMPROVE" /\ out[a] = <<>> /\ ~ Halted(a)
      /\ UNCHANGED <<ready, roi, main, verdict, warned, kill>>
      /\ s \in MgmAgents /\ s.term = mgm[a].term /\ s.improve = mgm[a].improve
      /\ s.can_move => mgm[a].can_move /\ Beats(a, m.from)
      /\ SendOk(a, s) /\ s.term < MaxDistance
      /\ Improving(a) /\ Round(a) > 0 /\ Round(a) = mgm[a].term
      /\ m.from \in Neighbors(a) /\ Phase(m.from) >= Phase(a)
      /\ Pending(m.from, a, "IMPROVE")
      /\ ComparedWith(a) \union {m.from} = Neighbors(a)
      /\ StartIsSent(a) /\ ~ Holds(queue'[a], Null, "START")
  BY LastImproveFacts
<1>2. PICK v \in KnownViewsOver(Agents), x \in Messages : SentOk(a, s, v, x)
  <2>1. Message(a).kind \in {"IMPROVE", "START"} /\ SendOk(a, s)
    BY <1>1
  <2>2. s \in MgmAgents /\ s.term < MaxDistance
    BY <1>1
  <2>. QED
    BY <1>0, <2>1, <2>2, SendOkEffect
<1>3. /\ view' = [view EXCEPT ![a] = v]
      /\ out' = [out EXCEPT ![a] = ToNeighbors(a, x)]
      /\ x.from = a /\ x.kind = "OK"
      /\ stop' = [stop EXCEPT ![a] = FALSE]
      /\ why' \in [Agents -> {"", "distance", "stale", "overtaken", "end", "alone"}]
      /\ why'[a] = why[a]
      /\ \A b \in Agents \ {a} : why'[b] = why[b]
  BY <1>2 DEF SentOk
<1>4. s.term + 1 < MaxDistance /\ Advanced(s) \in MgmAgents /\ g \in MgmAgents
      /\ Advanced(s).term = s.term + 1 /\ Advanced(s).can_move = s.can_move
      /\ Advanced(s).improve = s.improve
  BY <1>2 DEF SentOk
<1>5. g.term = mgm[a].term + 1 /\ g.can_move = s.can_move /\ g.improve = mgm[a].improve
  BY <1>1, <1>4 DEF MgmAgents
<1>6. /\ mgm' = [mgm EXCEPT ![a] = g]
      /\ counter' = [counter EXCEPT ![a] = 0]
      /\ agent_view' = [agent_view EXCEPT ![a] = Forgotten(a)]
      /\ mode' = [mode EXCEPT ![a] = "WAIT_OK"]
  BY DEF LastImprove, NotedAll
<1>. HIDE DEF m, g
<1>7. /\ mgm'[a] = g /\ counter'[a] = 0 /\ mode'[a] = "WAIT_OK"
      /\ agent_view'[a] = Forgotten(a) /\ stop' \in [Agents -> BOOLEAN]
  BY <1>0, <1>3, <1>6 DEF TypeOK
<1>8. ~ Halted(a)' /\ ~ Improving(a)'
  BY <1>1, <1>3, <1>7 DEF Halted, Improving
<1>9. /\ Round(a)' = Round(a) + 1 /\ Reads(a)' = Round(a) + 1
      /\ Phase(a)' = 2 * (Round(a) + 1) /\ Searched(a)' = Searched(a)
  <2>0. Round(a) \in Nat
    BY <1>0, PhaseFacts
  <2>1. Round(a)' = Round(a) + 1
    BY <1>1, <1>5, <1>7, <1>8 DEF Round
  <2>. QED
    BY <1>1, <1>8, <2>0, <2>1 DEF Reads, Phase, Searched
<1>10. Answers(a, "OK")
  <2>1. Truthful(x)'
    BY <1>3 DEF Truthful
  <2>. QED
    BY <1>0, <1>3, <2>1, Answer
<1>11. \A p \in Agents \ {a} : Same(p)
  BY <1>0, <1>3, <1>6 DEF TypeOK, Same
<1>12. \A b \in Agents : ~ Heard(a, b)'
  BY <1>7 DEF Heard, Forgotten, Cleared
<1>13. ASSUME NEW b \in Neighbors(a)
       PROVE  /\ Link(a, b)' /\ Link(b, a)'
              /\ Compared(b, a)' <=> Compared(b, a)
              /\ ~ Pending(a, b, "OK")
  <2>0. b \in Agents \ {a} /\ Link(a, b) /\ (Compared(a, b) \/ b = m.from)
    BY <1>1, NeighborFacts DEF IInv, ComparedWith
  <2>1. /\ SamePhase(b) /\ mgm'[b] = mgm[b]
        /\ Heard(b, a)' <=> Heard(b, a)
    BY <1>11, <2>0, SameFacts DEF Same
  <2>2. /\ Pending(b, a, "OK")' <=> Pending(b, a, "OK") /\ ~ IsFrom(m, b, "OK")
        /\ Pending(b, a, "IMPROVE")' <=> Pending(b, a, "IMPROVE") /\ ~ IsFrom(m, b, "IMPROVE")
    BY <1>0, <1>1, <1>10, PendingToTaker DEF Phases
  <2>3. /\ Pending(a, b, "OK")' <=> Pending(a, b, "OK") \/ "OK" = "OK"
        /\ Pending(a, b, "IMPROVE")' <=> Pending(a, b, "IMPROVE") \/ "IMPROVE" = "OK"
    BY <1>1, <1>10, PendingFromTaker DEF Phases
  <2>4. Phase(b) >= Phase(a)
    BY <1>1, <2>0 DEF Compared
  <2>5. ~ Pending(b, a, "IMPROVE")'
    BY <1>1, <2>0, <2>2 DEF Compared, IsFrom
  <2>6. Pending(b, a, "OK")' <=> Pending(b, a, "OK")
    BY <1>1, <2>2 DEF IsFrom
  <2>7. mgm'[a].can_move => Beats(a, b)
    <3>1. MoveLink(a, b)
      BY <2>0 DEF Link
    <3>. QED
      BY <1>1, <1>5, <1>7, <2>0, <3>1 DEF MoveLink
  <2>8. ~ Heard(a, b)' /\ mgm'[a].improve = mgm[a].improve
    BY <1>5, <1>7, <1>12, <2>0
  <2>. QED
    BY <1>1, <1>8, <1>9, <2>1, <2>3, <2>4, <2>5, <2>6, <2>7, <2>8, LinkAfterLastImprove
<1>14. CounterInv(a)'
  <2>1. HeardFrom(a)' = {}
    BY <1>12, NeighborFacts DEF HeardFrom
  <2>. QED
    BY <1>7, <1>8, <2>1, NoneChosen DEF CounterInv
<1>15. AgentInv(a)'
  <2>1. Phase(a)' \notin {0, 1, 2}
    BY <1>0, <1>1, <1>9, PhaseFacts
  <2>2. mgm'[a].term < MaxDistance
    BY <1>1, <1>4, <1>5, <1>7
  <2>. QED
    BY <1>8, <1>12, <2>1, <2>2 DEF AgentInv
<1>16. TypeOK'
  <2>1. agent_view' \in [Agents -> [Agents -> ViewsOver(Agents)]]
    <3>1. Forgotten(a) \in [Agents -> ViewsOver(Agents)]
      BY KnownViews DEF Forgotten
    <3>. QED
      BY <1>0, <1>6, <3>1 DEF TypeOK
  <2>2. counter' \in [Agents -> 0 .. N]
    <3>1. 0 \in 0 .. N
      BY AgentFacts
    <3>. QED
      BY <1>0, <1>6, <3>1 DEF TypeOK
  <2>3. mgm' \in [Agents -> MgmAgents]
    BY <1>0, <1>4, <1>6 DEF TypeOK
  <2>4. view' \in [Agents -> KnownViewsOver(Agents)]
    BY <1>0, <1>3 DEF TypeOK
  <2>5. mode' \in [Agents -> {"WAIT_OK", "WAIT_IMPROVE"}]
    BY <1>0, <1>6 DEF TypeOK
  <2>6. Barrier!TypeOK'
    BY <1>0, <1>1 DEF TypeOK, Barrier!TypeOK
  <2>7. out' \in [Agents -> Seq([to : Agents, msg : Messages])]
        /\ queue' \in [Agents -> Seq(Messages)]
    BY <1>1, <1>10 DEF Answers, Takes
  <2>. QED
    BY <1>0, <1>1, <1>3, <1>7, <2>1, <2>2, <2>3, <2>4, <2>5, <2>6, <2>7 DEF TypeOK
<1>17. Settles(a)
  BY <1>1, <1>11, <1>13, <1>14, <1>15, <1>16 DEF Settles
<1>18. mgm'[a].improve = mgm[a].improve /\ Searched(a)' = Searched(a)
  BY <1>5, <1>7, <1>9
<1>19. \A c \in Neighbors(a) : ~ Pending(a, c, "OK")
  BY <1>13
<1>. QED
  BY <1>1, <1>10, <1>17, <1>18, <1>19, TakerStep

LEMMA LastImproveStep ==
    ASSUME IInv, NEW a \in Agents, LastImprove(a)
    PROVE  IInv'
<1>1. CASE Halts(NotedAll(a))
  BY <1>1, LastImproveHaltsStep
<1>2. CASE ~ Halts(NotedAll(a))
  BY <1>2, LastImproveGoesOnStep
<1>. QED
  BY <1>1, <1>2

-----------------------------------------------------------------------------
(* Links after an agent has read a message of main's or an MGM_END and     *)
(* stays in its phase.                                                     *)
LEMMA LinksAfterControl ==
    ASSUME IInv, NEW a \in Agents, NEW m, Takes(a, m), m.kind \notin Phases,
           Answers(a, "") \/ Answers(a, "END"), out[a] = <<>>,
           \A p \in Agents \ {a} : Same(p), SamePhase(a),
           \A b \in Agents : Heard(a, b)' <=> Heard(a, b),
           mgm'[a].improve = mgm[a].improve, mgm'[a].can_move = mgm[a].can_move
    PROVE  \A b \in Neighbors(a) : /\ Link(a, b)' /\ Link(b, a)'
                                   /\ Compared(b, a)' <=> Compared(b, a)
                                   /\ Compared(a, b)' <=> Compared(a, b)
<1>. SUFFICES ASSUME NEW b \in Neighbors(a)
              PROVE  /\ Link(a, b)' /\ Link(b, a)'
                     /\ Compared(b, a)' <=> Compared(b, a)
                     /\ Compared(a, b)' <=> Compared(a, b)
  OBVIOUS
<1>0. b \in Agents \ {a} /\ Link(a, b) /\ Link(b, a) /\ MailInv(a)
  BY NeighborFacts DEF IInv
<1>1. /\ SamePhase(b) /\ mgm'[b] = mgm[b]
      /\ Heard(b, a)' <=> Heard(b, a)
  BY <1>0, SameFacts DEF Same
<1>2. SamePending(a, b)
  BY PendingFromSilent
<1>3. PICK k \in {"", "END"} : Answers(a, k)
  OBVIOUS
<1>4. \A j \in Phases : Pending(b, a, j)' <=> Pending(b, a, j) /\ ~ IsFrom(m, b, j)
  BY <1>0, <1>3, PendingToTaker
<1>5. SamePending(b, a)
  BY <1>4 DEF SamePending, IsFrom
<1>6. Link(b, a)' /\ (Compared(b, a)' <=> Compared(b, a))
  BY <1>0, <1>1, <1>2, LinkKept, ComparedKept
<1>7. Link(a, b)' /\ (Compared(a, b)' <=> Compared(a, b))
  BY <1>0, <1>1, <1>5, LinkKept, ComparedKept
<1>. QED
  BY <1>6, <1>7

LEMMA EndStep ==
    ASSUME IInv, NEW a \in Agents, End(a)
    PROVE  IInv'
<1>. DEFINE m == Message(a)
<1>0. TypeOK /\ AgentInv(a) /\ MailInv(a) /\ CounterInv(a)
  BY DEF IInv
<1>1. /\ Takes(a, m) /\ m.kind = "END" /\ out[a] = <<>> /\ ~ Halted(a)
      /\ UNCHANGED <<ready, roi, main, verdict, warned, kill>>
  BY ReceivesTakes DEF End
<1>2. /\ stop' = [stop EXCEPT ![a] = TRUE] /\ why' = [why EXCEPT ![a] = "end"]
      /\ UNCHANGED <<view, agent_view, mgm, mode, counter, out>>
  BY DEF End
<1>. HIDE DEF m
<1>3. m.kind \notin Phases /\ "" \notin Phases
  BY <1>1 DEF Phases
<1>4. Answers(a, "")
  BY <1>0, <1>1, <1>2, Silence
<1>5. \A p \in Agents \ {a} : Same(p)
  BY <1>0, <1>2 DEF TypeOK, Same
<1>6. ~ Halted(a)' /\ SamePhase(a)
  <2>1. why'[a] = "end"
    BY <1>0, <1>2 DEF TypeOK
  <2>2. ~ Halted(a)'
    BY <2>1 DEF Halted
  <2>3. Round(a)' = Round(a)
    BY <1>1, <1>2, <2>2 DEF Round
  <2>. QED
    BY <1>2, <2>2, <2>3, PhaseKept
<1>7. \A b : Heard(a, b)' <=> Heard(a, b)
  BY <1>2 DEF Heard, Cleared
<1>8. \A b \in Neighbors(a) : /\ Link(a, b)' /\ Link(b, a)'
                              /\ Compared(b, a)' <=> Compared(b, a)
                              /\ Compared(a, b)' <=> Compared(a, b)
  BY <1>1, <1>2, <1>3, <1>4, <1>5, <1>6, <1>7, LinksAfterControl
<1>9. CounterInv(a)'
  <2>1. HeardFrom(a)' = HeardFrom(a) /\ ComparedWith(a)' = ComparedWith(a)
    BY <1>7, <1>8 DEF HeardFrom, ComparedWith
  <2>. QED
    BY <1>0, <1>1, <1>2, <1>6, <2>1 DEF CounterInv, SamePhase
<1>10. AgentInv(a)'
  BY <1>0, <1>1, <1>2, <1>6, <1>7 DEF AgentInv, SamePhase
<1>11. TypeOK'
  <2>1. Barrier!TypeOK'
    BY <1>0, <1>1 DEF TypeOK, Barrier!TypeOK
  <2>. QED
    BY <1>0, <1>1, <1>2, <2>1 DEF TypeOK, Takes
<1>12. Settles(a)
  BY <1>1, <1>2, <1>5, <1>8, <1>9, <1>10, <1>11 DEF Settles
<1>13. mgm'[a].improve = mgm[a].improve /\ Searched(a)' = Searched(a)
  BY <1>2, <1>6 DEF SamePhase
<1>. QED
  BY <1>1, <1>3, <1>4, <1>12, <1>13, TakerStep

(* An agent that reads its START is in no round yet.                       *)
LEMMA StartRead ==
    ASSUME IInv, NEW a \in Agents, NEW m, Takes(a, m), m.kind = "START", ~ Halted(a)
    PROVE  /\ mgm[a].term = 0 /\ Round(a) = 0
           /\ StartIsSent(a) /\ ~ Holds(queue'[a], Null, "START")
           /\ m.kind \notin Phases
<1>1. m.from = Null /\ Holds(queue[a], Null, "START")
  BY DEF Takes
<1>2. mgm[a].term = 0 /\ StartIsSent(a)
  BY <1>1 DEF IInv, StartInv
<1>3. ~ Holds(queue'[a], Null, "START")
  BY <1>1 DEF Takes, IsFrom
<1>. QED
  BY <1>2, <1>3 DEF Round, Phases

LEMMA StartAloneStep ==
    ASSUME IInv, NEW a \in Agents, StartAlone(a)
    PROVE  IInv'
<1>. DEFINE m == Message(a)
<1>0. TypeOK /\ AgentInv(a) /\ MailInv(a) /\ CounterInv(a)
  BY DEF IInv
<1>1. /\ Takes(a, m) /\ m.kind = "START" /\ out[a] = <<>> /\ ~ Halted(a)
      /\ UNCHANGED <<ready, roi, main, verdict, warned, kill>>
  BY ReceivesTakes DEF StartAlone
<1>2. PICK o \in Improvements(a, mgm[a], view[a]) :
          /\ mgm' = [mgm EXCEPT ![a] = Improved(@, o)]
          /\ view' = [view EXCEPT ![a] = o.new_view]
  BY DEF StartAlone
<1>3. /\ stop' = [stop EXCEPT ![a] = TRUE] /\ why' = [why EXCEPT ![a] = "alone"]
      /\ UNCHANGED <<agent_view, mode, counter, out>>
  BY DEF StartAlone
<1>. HIDE DEF m
<1>4. Neighbors(a) = {}
  BY NeighborFacts DEF StartAlone
<1>5. /\ o.eval \in {"finite", "INF"} /\ o.improve \in 0 .. Infinite
      /\ o.new_view \in KnownViewsOver(Agents)
  <2>1. /\ o.eval \in Evals /\ o.improve \in 0 .. Infinite
        /\ o.new_view \in Reassignments(a, view[a])
    BY DEF Improvements
  <2>2. view[a] \in KnownViewsOver(Agents)
    BY <1>0, AgentTypes
  <2>. QED
    BY <2>1, <2>2, ReassignmentsAreKnown, EvalsAssumption
<1>6. /\ Improved(mgm[a], o) \in MgmAgents
      /\ mgm'[a] = Improved(mgm[a], o) /\ mgm'[a].term = mgm[a].term
      /\ mgm'[a].can_move = mgm[a].can_move /\ mgm'[a].stale = mgm[a].stale
  <2>1. mgm[a] \in MgmAgents
    BY <1>0, AgentTypes
  <2>2. Improved(mgm[a], o) \in MgmAgents
    BY <1>5, <2>1, ImprovedType
  <2>3. mgm'[a] = Improved(mgm[a], o)
    BY <1>0, <1>2 DEF TypeOK
  <2>. QED
    BY <2>1, <2>2, <2>3 DEF Improved, MgmAgents
<1>7. Answers(a, "")
  BY <1>0, <1>1, <1>3, Silence
<1>8. \A p \in Agents \ {a} : Same(p)
  BY <1>0, <1>2, <1>3 DEF TypeOK, Same
<1>9. ~ Halted(a)' /\ SamePhase(a)
  <2>1. why'[a] = "alone"
    BY <1>0, <1>3 DEF TypeOK
  <2>2. ~ Halted(a)'
    BY <2>1 DEF Halted
  <2>3. Round(a)' = Round(a)
    BY <1>1, <1>6, <2>2 DEF Round
  <2>. QED
    BY <1>3, <2>2, <2>3, PhaseKept
<1>10. \A b : Heard(a, b)' <=> Heard(a, b)
  BY <1>3 DEF Heard, Cleared
<1>11. CounterInv(a)'
  <2>1. HeardFrom(a)' = HeardFrom(a) /\ ComparedWith(a)' = ComparedWith(a)
    BY <1>4 DEF HeardFrom, ComparedWith
  <2>. QED
    BY <1>0, <1>1, <1>3, <1>9, <2>1 DEF CounterInv, SamePhase
<1>12. AgentInv(a)'
  BY <1>0, <1>1, <1>3, <1>6, <1>9, <1>10 DEF AgentInv, SamePhase
<1>13. TypeOK'
  <2>1. mgm' \in [Agents -> MgmAgents]
    BY <1>0, <1>2, <1>6 DEF TypeOK
  <2>2. view' \in [Agents -> KnownViewsOver(Agents)]
    BY <1>0, <1>2, <1>5 DEF TypeOK
  <2>3. Barrier!TypeOK'
    BY <1>0, <1>1 DEF TypeOK, Barrier!TypeOK
  <2>. QED
    BY <1>0, <1>1, <1>3, <2>1, <2>2, <2>3 DEF TypeOK, Takes
<1>14. Settles(a)
  BY <1>1, <1>4, <1>6, <1>8, <1>11, <1>12, <1>13 DEF Settles
<1>15. "" \notin Phases
  BY DEF Phases
<1>. QED
  BY <1>1, <1>4, <1>7, <1>14, <1>15, TakerStep

(* What send_ok makes of an agent that has just read its START.            *)
LEMMA StartEffect ==
    ASSUME IInv, NEW a \in Agents, Start(a)
    PROVE  /\ Takes(a, Message(a)) /\ Message(a).kind = "START"
           /\ out[a] = <<>> /\ ~ Halted(a)
           /\ UNCHANGED <<ready, roi, main, verdict, warned, kill, agent_view, mode, counter>>
           /\ mgm' = [mgm EXCEPT ![a] = Advanced(@)]
           /\ \E v \in KnownViewsOver(Agents), x \in Messages : SentOk(a, mgm[a], v, x)
<1>1. /\ Takes(a, Message(a)) /\ Message(a).kind = "START"
      /\ out[a] = <<>> /\ ~ Halted(a)
      /\ UNCHANGED <<ready, roi, main, verdict, warned, kill>>
  BY ReceivesTakes DEF Start
<1>2. /\ UNCHANGED <<agent_view, mode, counter>>
      /\ mgm' = [mgm EXCEPT ![a] = Advanced(@)]
  BY DEF Start
<1>3. SendOk(a, mgm[a]) /\ Message(a).kind \in {"IMPROVE", "START"}
  BY DEF Start
<1>4. TypeOK /\ mgm[a] \in MgmAgents /\ mgm[a].term < MaxDistance
  <2>1. TypeOK /\ AgentInv(a)
    BY DEF IInv
  <2>. QED
    BY <1>1, <2>1, AgentTypes DEF AgentInv
<1>5. \E v \in KnownViewsOver(Agents), x \in Messages : SentOk(a, mgm[a], v, x)
  <2>. DEFINE s == mgm[a]
  <2>1. s \in MgmAgents /\ s.term < MaxDistance /\ SendOk(a, s) /\ TypeOK
    BY <1>3, <1>4
  <2>. HIDE DEF s
  <2>2. \E v \in KnownViewsOver(Agents), x \in Messages : SentOk(a, s, v, x)
    BY <1>3, <2>1, SendOkEffect
  <2>. QED
    BY <2>2 DEF s
<1>. QED
  BY <1>1, <1>2, <1>5

LEMMA StartHaltsStep ==
    ASSUME IInv, NEW a \in Agents, Start(a), Halts(mgm[a])
    PROVE  IInv'
<1>. DEFINE m == Message(a)
<1>0. TypeOK /\ AgentInv(a) /\ MailInv(a) /\ CounterInv(a)
  BY DEF IInv
<1>1. /\ Takes(a, m) /\ m.kind = "START" /\ out[a] = <<>> /\ ~ Halted(a)
      /\ UNCHANGED <<ready, roi, main, verdict, warned, kill, agent_view, mode, counter>>
      /\ mgm' = [mgm EXCEPT ![a] = Advanced(@)]
  BY StartEffect
<1>2. PICK v \in KnownViewsOver(Agents), x \in Messages : SentOk(a, mgm[a], v, x)
  BY StartEffect
<1>. HIDE DEF m
<1>3. /\ view' = [view EXCEPT ![a] = v]
      /\ out' = [out EXCEPT ![a] = ToNeighbors(a, x)]
      /\ x.from = a /\ x.kind = "END"
      /\ stop' = [stop EXCEPT ![a] = TRUE]
      /\ why' \in [Agents -> {"", "distance", "stale", "overtaken", "end", "alone"}]
      /\ why'[a] \in {"distance", "stale", "overtaken"}
      /\ \A b \in Agents \ {a} : why'[b] = why[b]
  BY <1>2 DEF SentOk
<1>4. /\ Advanced(mgm[a]) \in MgmAgents
      /\ mgm'[a] = Advanced(mgm[a]) /\ mgm'[a].term = mgm[a].term + 1
      /\ mgm'[a].can_move = mgm[a].can_move /\ mgm'[a].improve = mgm[a].improve
  <2>1. /\ Advanced(mgm[a]) \in MgmAgents /\ Advanced(mgm[a]).term = mgm[a].term + 1
        /\ Advanced(mgm[a]).can_move = mgm[a].can_move
        /\ Advanced(mgm[a]).improve = mgm[a].improve
    BY <1>2 DEF SentOk
  <2>2. mgm'[a] = Advanced(mgm[a])
    BY <1>0, <1>1 DEF TypeOK
  <2>. QED
    BY <2>1, <2>2
<1>5. /\ mgm[a].term = 0 /\ Round(a) = 0
      /\ StartIsSent(a) /\ ~ Holds(queue'[a], Null, "START") /\ m.kind \notin Phases
  BY <1>1, StartRead
<1>6. Halted(a)' /\ SamePhase(a)
  <2>1. Halted(a)'
    BY <1>3 DEF Halted
  <2>2. Round(a)' = Round(a)
    BY <1>4, <1>5, <2>1 DEF Round
  <2>. QED
    BY <1>1, <2>1, <2>2, PhaseKept
<1>7. Answers(a, "END")
  <2>1. Truthful(x)'
    BY <1>3 DEF Truthful
  <2>. QED
    BY <1>0, <1>3, <2>1, Answer
<1>8. \A p \in Agents \ {a} : Same(p)
  BY <1>0, <1>1, <1>3 DEF TypeOK, Same
<1>9. \A b : Heard(a, b)' <=> Heard(a, b)
  BY <1>1 DEF Heard, Cleared
<1>10. \A b \in Neighbors(a) : /\ Link(a, b)' /\ Link(b, a)'
                               /\ Compared(b, a)' <=> Compared(b, a)
                               /\ Compared(a, b)' <=> Compared(a, b)
  BY <1>1, <1>4, <1>5, <1>6, <1>7, <1>8, <1>9, LinksAfterControl
<1>11. CounterInv(a)'
  <2>1. HeardFrom(a)' = HeardFrom(a)
    BY <1>9 DEF HeardFrom
  <2>. QED
    BY <1>0, <1>1, <1>6, <2>1 DEF CounterInv, SamePhase
<1>12. AgentInv(a)'
  <2>1. stop'[a] = TRUE
    BY <1>0, <1>3 DEF TypeOK
  <2>2. mgm'[a].term > 0
    BY <1>4, <1>5
  <2>. QED
    BY <1>0, <1>1, <1>4, <1>6, <1>9, <2>1, <2>2 DEF AgentInv, SamePhase
<1>13. TypeOK'
  <2>1. mgm' \in [Agents -> MgmAgents]
    BY <1>0, <1>1, <1>4 DEF TypeOK
  <2>2. view' \in [Agents -> KnownViewsOver(Agents)]
    BY <1>0, <1>3 DEF TypeOK
  <2>3. Barrier!TypeOK'
    BY <1>0, <1>1 DEF TypeOK, Barrier!TypeOK
  <2>4. out' \in [Agents -> Seq([to : Agents, msg : Messages])]
        /\ queue' \in [Agents -> Seq(Messages)] /\ stop' \in [Agents -> BOOLEAN]
    BY <1>0, <1>1, <1>3, <1>7 DEF Answers, Takes, TypeOK
  <2>. QED
    BY <1>0, <1>1, <1>3, <2>1, <2>2, <2>3, <2>4 DEF TypeOK
<1>14. Settles(a)
  BY <1>1, <1>5, <1>8, <1>10, <1>11, <1>12, <1>13 DEF Settles
<1>15. mgm'[a].improve = mgm[a].improve /\ Searched(a)' = Searched(a)
  BY <1>4, <1>6 DEF SamePhase
<1>16. "END" \notin Phases
  BY DEF Phases
<1>. QED
  BY <1>1, <1>7, <1>14, <1>15, <1>16, TakerStep

(* A link after the agent at one end of it has begun its first round.      *)
LEMMA LinkAfterStart ==
    ASSUME IInv, NEW a \in Agents, NEW b \in Neighbors(a),
           ~ Improving(a), Round(a) = 0, ~ Improving(a)', Round(a)' = 1,
           Reads(a)' = 1, Phase(a)' = 2, SamePhase(b), AgentInv(b),
           Heard(a, b)' <=> Heard(a, b), Heard(b, a)' <=> Heard(b, a),
           mgm'[b].can_move = mgm[b].can_move, ~ mgm'[a].can_move,
           Pending(b, a, "OK")' <=> Pending(b, a, "OK"),
           Pending(b, a, "IMPROVE")' <=> Pending(b, a, "IMPROVE"),
           Pending(a, b, "OK")',
           Pending(a, b, "IMPROVE")' <=> Pending(a, b, "IMPROVE")
    PROVE  /\ Link(a, b)' /\ Link(b, a)'
           /\ Compared(b, a)' <=> Compared(b, a)
           /\ ~ Pending(a, b, "OK") /\ ~ Pending(a, b, "IMPROVE")
<1>1. /\ Improving(b)' <=> Improving(b)
      /\ Round(b)' = Round(b) /\ Phase(b)' = Phase(b) /\ Reads(b)' = Reads(b)
  BY DEF SamePhase
<1>2. /\ Phase(a) = 0 /\ Reads(a) = 1
      /\ Phase(b) \in {0, 2} /\ ~ Improving(b) /\ Round(b) \in {0, 1} /\ Reads(b) = 1
  BY LinkFacts DEF InStep
<1>3. InStep(Phase(a), Phase(b))' /\ InStep(Phase(b), Phase(a))'
  BY <1>1, <1>2 DEF InStep
<1>4. OkLink(a, b)'
  BY <1>1, <1>2, LinkFacts DEF OkLink
<1>5. OkLink(b, a)' /\ ~ Pending(a, b, "OK")
  BY <1>1, <1>2, LinkFacts DEF OkLink
<1>6. ImproveLink(a, b)'
  BY <1>1, <1>2, LinkFacts DEF ImproveLink
<1>7. ImproveLink(b, a)' /\ ~ Pending(a, b, "IMPROVE")
  BY <1>1, <1>2, LinkFacts DEF ImproveLink
<1>8. ~ Compared(b, a)' /\ ~ Compared(b, a)
  BY <1>1, <1>2 DEF Compared
<1>9. MoveLink(a, b)'
  BY DEF MoveLink
<1>10. MoveLink(b, a)'
  BY <1>2 DEF MoveLink, AgentInv
<1>. QED
  BY <1>3, <1>4, <1>5, <1>6, <1>7, <1>8, <1>9, <1>10 DEF Link

LEMMA StartGoesOnStep ==
    ASSUME IInv, NEW a \in Agents, Start(a), ~ Halts(mgm[a])
    PROVE  IInv'
<1>. DEFINE m == Message(a)
<1>0. TypeOK /\ AgentInv(a) /\ MailInv(a) /\ CounterInv(a)
  BY DEF IInv
<1>1. /\ Takes(a, m) /\ m.kind = "START" /\ out[a] = <<>> /\ ~ Halted(a)
      /\ UNCHANGED <<ready, roi, main, verdict, warned, kill, agent_view, mode, counter>>
      /\ mgm' = [mgm EXCEPT ![a] = Advanced(@)]
  BY StartEffect
<1>2. PICK v \in KnownViewsOver(Agents), x \in Messages : SentOk(a, mgm[a], v, x)
  BY StartEffect
<1>. HIDE DEF m
<1>3. /\ view' = [view EXCEPT ![a] = v]
      /\ out' = [out EXCEPT ![a] = ToNeighbors(a, x)]
      /\ x.from = a /\ x.kind = "OK"
      /\ stop' = [stop EXCEPT ![a] = FALSE]
      /\ why' \in [Agents -> {"", "distance", "stale", "overtaken", "end", "alone"}]
      /\ why'[a] = why[a] /\ mgm[a].term + 1 < MaxDistance
      /\ \A b \in Agents \ {a} : why'[b] = why[b]
  BY <1>2 DEF SentOk
<1>4. /\ Advanced(mgm[a]) \in MgmAgents
      /\ mgm'[a] = Advanced(mgm[a]) /\ mgm'[a].term = mgm[a].term + 1
      /\ mgm'[a].can_move = mgm[a].can_move
  <2>1. /\ Advanced(mgm[a]) \in MgmAgents /\ Advanced(mgm[a]).term = mgm[a].term + 1
        /\ Advanced(mgm[a]).can_move = mgm[a].can_move
    BY <1>2 DEF SentOk
  <2>2. mgm'[a] = Advanced(mgm[a])
    BY <1>0, <1>1 DEF TypeOK
  <2>. QED
    BY <2>1, <2>2
<1>5. /\ mgm[a].term = 0 /\ Round(a) = 0
      /\ StartIsSent(a) /\ ~ Holds(queue'[a], Null, "START") /\ m.kind \notin Phases
  BY <1>1, StartRead
<1>6. ~ Improving(a)
  <2>1. ~ mgm[a].stale
    BY DEF Halts
  <2>2. Phase(a) # 1
    BY <1>0, <1>1, <2>1 DEF AgentInv
  <2>. QED
    BY <1>5, <2>2 DEF Phase
<1>7. Phase(a) = 0
  BY <1>5, <1>6 DEF Phase
<1>8. /\ ~ Halted(a)' /\ ~ Improving(a)' /\ Round(a)' = 1 /\ Reads(a)' = 1 /\ Phase(a)' = 2
  <2>1. ~ Halted(a)' /\ ~ Improving(a)'
    BY <1>1, <1>3, <1>6 DEF Halted, Improving
  <2>2. Round(a)' = 1
    BY <1>4, <1>5, <2>1 DEF Round
  <2>. QED
    BY <2>1, <2>2 DEF Reads, Phase
<1>9. ~ mgm'[a].can_move
  BY <1>0, <1>4, <1>7 DEF AgentInv
<1>10. Answers(a, "OK")
  <2>1. Truthful(x)'
    BY <1>3 DEF Truthful
  <2>. QED
    BY <1>0, <1>3, <2>1, Answer
<1>11. \A p \in Agents \ {a} : Same(p)
  BY <1>0, <1>1, <1>3 DEF TypeOK, Same
<1>12. \A b : Heard(a, b)' <=> Heard(a, b)
  BY <1>1 DEF Heard, Cleared
<1>13. ASSUME NEW b \in Neighbors(a)
       PROVE  /\ Link(a, b)' /\ Link(b, a)'
              /\ Compared(b, a)' <=> Compared(b, a)
              /\ ~ Pending(a, b, "OK") /\ ~ Pending(a, b, "IMPROVE")
  <2>0. b \in Agents \ {a} /\ AgentInv(b)
    BY NeighborFacts DEF IInv
  <2>1. /\ SamePhase(b) /\ mgm'[b] = mgm[b]
        /\ Heard(b, a)' <=> Heard(b, a)
    BY <1>11, <2>0, SameFacts DEF Same
  <2>2. \A j \in Phases : Pending(b, a, j)' <=> Pending(b, a, j) /\ ~ IsFrom(m, b, j)
    BY <1>0, <1>1, <1>10, PendingToTaker
  <2>3. \A j \in Phases : Pending(a, b, j)' <=> Pending(a, b, j) \/ j = "OK"
    BY <1>1, <1>10, PendingFromTaker
  <2>4. /\ Pending(b, a, "OK")' <=> Pending(b, a, "OK")
        /\ Pending(b, a, "IMPROVE")' <=> Pending(b, a, "IMPROVE")
    BY <1>5, <2>2 DEF Phases, IsFrom
  <2>5. /\ Pending(a, b, "OK")'
        /\ Pending(a, b, "IMPROVE")' <=> Pending(a, b, "IMPROVE")
    BY <2>3 DEF Phases
  <2>. QED
    BY <1>5, <1>6, <1>8, <1>9, <1>12, <2>0, <2>1, <2>4, <2>5, LinkAfterStart
<1>14. CounterInv(a)'
  <2>1. HeardFrom(a)' = HeardFrom(a)
    BY <1>12 DEF HeardFrom
  <2>. QED
    BY <1>0, <1>1, <1>6, <1>8, <2>1 DEF CounterInv
<1>15. AgentInv(a)'
  <2>1. mgm'[a].term < MaxDistance
    BY <1>3, <1>4
  <2>. QED
    BY <1>0, <1>1, <1>8, <1>9, <1>12, <2>1 DEF AgentInv
<1>16. TypeOK'
  <2>1. mgm' \in [Agents -> MgmAgents]
    BY <1>0, <1>1, <1>4 DEF TypeOK
  <2>2. view' \in [Agents -> KnownViewsOver(Agents)]
    BY <1>0, <1>3 DEF TypeOK
  <2>3. Barrier!TypeOK'
    BY <1>0, <1>1 DEF TypeOK, Barrier!TypeOK
  <2>4. out' \in [Agents -> Seq([to : Agents, msg : Messages])]
        /\ queue' \in [Agents -> Seq(Messages)] /\ stop' \in [Agents -> BOOLEAN]
    BY <1>0, <1>1, <1>3, <1>10 DEF Answers, Takes, TypeOK
  <2>. QED
    BY <1>0, <1>1, <1>3, <2>1, <2>2, <2>3, <2>4 DEF TypeOK
<1>17. Settles(a)
  BY <1>1, <1>5, <1>11, <1>13, <1>14, <1>15, <1>16 DEF Settles
<1>. QED
  BY <1>1, <1>10, <1>13, <1>17, TakerStep

LEMMA StartStep ==
    ASSUME IInv, NEW a \in Agents, Start(a)
    PROVE  IInv'
BY StartHaltsStep, StartGoesOnStep

-----------------------------------------------------------------------------
(* The invariant holds at first, when nobody has sent anything, and every  *)
(* step preserves it.                                                      *)
LEMMA InitTypes ==
    ASSUME Init
    PROVE  TypeOK
<1>1. PICK v \in InitialViews :
          /\ view = [a \in Agents |-> v]
          /\ mgm = [a \in Agents |->
                [term |-> 0, can_move |-> FALSE, eval |-> "finite", improve |-> 0,
                 new_view |-> v, consistent |-> TRUE, stale |-> FALSE,
                 changed |-> TRUE]]
  BY DEF Init
<1>2. v \in KnownViewsOver(Agents)
  BY InitialViewsAssumption
<1>3. 0 \in 0 .. MaxDistance /\ 0 \in 0 .. Infinite
  BY DistanceAssumption, ImproveAssumption DEF Infinite
<1>4. mgm \in [Agents -> MgmAgents]
  BY <1>1, <1>2, <1>3 DEF MgmAgents
<1>5. 0 \in 0 .. N /\ 1 \in Agents /\ 1 \in 1 .. N + 1
  BY AgentFacts DEF Agents
<1>6. /\ queue \in [Agents -> Seq(Messages)]
      /\ out \in [Agents -> Seq([to : Agents, msg : Messages])]
  <2>. DEFINE S == [to : Agents, msg : Messages]
  <2>1. \A T : <<>> \in Seq(T)
    OBVIOUS
  <2>2. <<>> \in Seq(Messages) /\ <<>> \in Seq(S)
    BY <2>1
  <2>. HIDE DEF S
  <2>3. queue \in [Agents -> Seq(Messages)] /\ out \in [Agents -> Seq(S)]
    BY <2>2 DEF Init
  <2>. QED
    BY <2>3 DEF S
<1>7. agent_view \in [Agents -> [Agents -> ViewsOver(Agents)]]
  BY KnownViews DEF Init
<1>8. counter \in [Agents -> 0 .. N]
  BY <1>5 DEF Init
<1>9. Barrier!TypeOK
  BY DEF Init, Barrier!Init, Barrier!TypeOK, Barrier!Stages
<1>10. /\ main \in [phase : {"start", "join", "merge", "done"}, next : Agents]
       /\ kill \in 1 .. N + 1
  BY <1>5 DEF Init
<1>11. /\ mode \in [Agents -> {"WAIT_OK", "WAIT_IMPROVE"}]
       /\ stop \in [Agents -> BOOLEAN]
       /\ why \in [Agents -> {"", "distance", "stale", "overtaken", "end", "alone"}]
       /\ verdict \in BOOLEAN /\ warned \in BOOLEAN
  BY DEF Init
<1>12. view \in [Agents -> KnownViewsOver(Agents)]
  BY <1>1, <1>2
<1>. QED
  BY <1>4, <1>6, <1>7, <1>8, <1>9, <1>10, <1>11, <1>12 DEF TypeOK

LEMMA InitHolds ==
    ASSUME Init
    PROVE  IInv
<1>0. TypeOK
  BY InitTypes
<1>1. ASSUME NEW a \in Agents
      PROVE  /\ queue[a] = <<>> /\ out[a] = <<>> /\ why[a] = "" /\ mode[a] = "WAIT_OK"
             /\ counter[a] = 0
             /\ \A b \in Agents : ~ Heard(a, b)
             /\ ~ StartIsSent(a)
             /\ mgm[a].term = 0 /\ ~ mgm[a].can_move
  <2>1. queue[a] = <<>> /\ out[a] = <<>> /\ why[a] = "" /\ mode[a] = "WAIT_OK"
        /\ counter[a] = 0
    BY DEF Init
  <2>4. mgm[a].term = 0 /\ ~ mgm[a].can_move
    <3>1. PICK v \in InitialViews : mgm = [c \in Agents |->
                [term |-> 0, can_move |-> FALSE, eval |-> "finite", improve |-> 0,
                 new_view |-> v, consistent |-> TRUE, stale |-> FALSE,
                 changed |-> TRUE]]
      BY DEF Init
    <3>. QED
      BY <3>1
  <2>2. \A b \in Agents : ~ Heard(a, b)
    BY DEF Init, Heard
  <2>3. ~ StartIsSent(a)
    <3>1. main.phase = "start" /\ main.next = 1
      BY DEF Init
    <3>2. a \in 1 .. N /\ N \in Nat
      BY AgentFacts DEF Agents
    <3>. QED
      BY <3>1, <3>2 DEF StartIsSent
  <2>. QED
    BY <2>1, <2>2, <2>3, <2>4
<1>2. ASSUME NEW a \in Agents
      PROVE  /\ ~ Halted(a) /\ ~ Improving(a) /\ Round(a) = 0 /\ Phase(a) = 0
             /\ DOMAIN queue[a] = {} /\ DOMAIN out[a] = {}
  <2>1. ~ Halted(a) /\ ~ Improving(a)
    BY <1>1 DEF Halted, Improving
  <2>2. Round(a) = 0 /\ Phase(a) = 0
    <3>1. mgm[a].term = 0
      BY <1>1
    <3>. QED
      BY <2>1, <3>1 DEF Round, Phase
  <2>3. DOMAIN queue[a] = {} /\ DOMAIN out[a] = {}
    <3>1. queue[a] = <<>> /\ out[a] = <<>>
      BY <1>1
    <3>. QED
      BY <3>1
  <2>. QED
    BY <2>1, <2>2, <2>3
<1>3. \A a \in Agents : MailInv(a)
  BY <1>2 DEF MailInv, Once, Holds
<1>4. \A a \in Agents : StartInv(a)
  BY <1>1, <1>2 DEF StartInv, Once, Holds
<1>5. ASSUME NEW a \in Agents PROVE CounterInv(a)
  <2>1. HeardFrom(a) = {}
    BY <1>1, NeighborFacts DEF HeardFrom
  <2>. QED
    BY <1>1, <1>2, <2>1, NoneChosen DEF CounterInv
<1>6. ASSUME NEW a \in Agents PROVE AgentInv(a)
  <2>1. mgm[a].term = 0 /\ ~ mgm[a].can_move
    BY <1>1
  <2>2. mgm[a].term < MaxDistance
    BY <2>1, DistanceAssumption
  <2>3. ~ Halted(a) /\ Phase(a) = 0 /\ \A b \in Agents : ~ Heard(a, b)
    BY <1>1, <1>2
  <2>. QED
    BY <2>1, <2>2, <2>3 DEF AgentInv
<1>7. ASSUME NEW a \in Agents, NEW b \in Neighbors(a) PROVE Link(a, b)
  <2>0. b \in Agents
    BY NeighborFacts
  <2>1. \A k : ~ Pending(b, a, k)
    BY <1>2, <2>0 DEF Pending, Holds, Sends
  <2>2. InStep(Phase(a), Phase(b))
    BY <1>2, <2>0 DEF InStep
  <2>3. OkLink(a, b)
    <3>1. ~ Heard(a, b) /\ ~ Improving(a) /\ Round(b) = 0
      BY <1>1, <1>2, <2>0
    <3>. QED
      BY <2>1, <3>1 DEF OkLink
  <2>4. ImproveLink(a, b)
    BY <1>2, <2>0, <2>1 DEF ImproveLink
  <2>5. MoveLink(a, b)
    BY <1>1 DEF MoveLink
  <2>. QED
    BY <2>2, <2>3, <2>4, <2>5 DEF Link
<1>. QED
  BY <1>0, <1>3, <1>4, <1>5, <1>6, <1>7 DEF IInv

LEMMA StepHolds ==
    ASSUME IInv, [Next]_vars
    PROVE  IInv'
<1>1. ASSUME NEW a \in Agents, AgentStep(a) PROVE IInv'
  BY <1>1, OkButNotLastStep, LastOkStep, ImproveButNotLastStep, LastImproveStep,
     EndStep, StartStep, StartAloneStep, SendNextStep, RegionStep DEF AgentStep
<1>2. CASE MainStep
  BY <1>2, SendStartStep, JoinStep, MergeStep DEF MainStep
<1>3. CASE SendKill
  BY <1>3, SendKillStep
<1>4. CASE Terminating \/ UNCHANGED vars
  BY <1>4, StutterStep DEF Terminating
<1>. QED
  BY <1>1, <1>2, <1>3, <1>4 DEF Next

LEMMA Invariance == Spec => []IInv
<1>1. Init => IInv
  BY InitHolds
<1>2. IInv /\ [Next]_vars => IInv'
  BY StepHolds
<1>. QED
  BY <1>1, <1>2, PTL DEF Spec

-----------------------------------------------------------------------------
(* The counters, which are compared with the number of neighbors, never    *)
(* leave their range, and no agent reads a message it cannot handle.       *)
THEOREM MgmTypes == Spec => []TypeOK
<1>1. IInv => TypeOK
  BY DEF IInv
<1>. QED
  BY <1>1, Invariance, PTL

(* filter_mgm_message keeps the rounds apart: a mailbox never holds two    *)
(* unread messages of one phase from one neighbor, and the counter of the  *)
(* OK phase, which only counts messages, is the number of neighbors whose  *)
(* view has come in.                                                       *)
THEOREM RoundsAreApart == Spec => []RoundsStayApart
<1>1. ASSUME IInv PROVE CounterCountsNeighbors
  <2>1. SUFFICES ASSUME NEW a \in Agents, mode[a] = "WAIT_OK"
                 PROVE  counter[a] = Cardinality(HeardFrom(a))
    BY DEF CounterCountsNeighbors, HeardFrom, Heard
  <2>2. ~ Improving(a) /\ CounterInv(a)
    BY <1>1, <2>1 DEF IInv, Improving
  <2>. QED
    BY <2>2 DEF CounterInv
<1>2. ASSUME IInv PROVE OneMessagePerPhase
  <2>1. SUFFICES ASSUME NEW a \in Agents, NEW b \in Neighbors(a), NEW k \in Phases
                 PROVE  Cardinality({i \in DOMAIN queue[a] :
                                       queue[a][i].from = b /\ queue[a][i].kind = k}) <= 1
    BY DEF OneMessagePerPhase, Phases
  <2>. DEFINE S == {i \in DOMAIN queue[a] : queue[a][i].from = b /\ queue[a][i].kind = k}
  <2>2. Once(queue[a], b, k)
    BY <1>2 DEF IInv, MailInv
  <2>3. \A i, j \in S : i = j
    BY <2>2 DEF Once, IsFrom
  <2>. HIDE DEF S
  <2>4. CASE S = {}
    <3>1. Cardinality(S) = 0
      BY <2>4, FS_EmptySet
    <3>. QED
      BY <3>1 DEF S
  <2>5. CASE S # {}
    <3>1. PICK i \in S : S = {i}
      BY <2>3, <2>5
    <3>2. Cardinality(S) = 1
      BY <3>1, FS_Singleton
    <3>. QED
      BY <3>2 DEF S
  <2>. QED
    BY <2>4, <2>5
<1>3. IInv => RoundsStayApart
  BY <1>1, <1>2 DEF RoundsStayApart
<1>. QED
  BY <1>3, Invariance, PTL

(* Of two neighbors at most one keeps can_move to the end of the IMPROVE   *)
(* phase, whether the other one's improvement is read before or after it   *)
(* has sent its own: no two agents that share a constraint move at once.   *)
THEOREM NeighborsTakeTurns == Spec => []NeighborsNeverMoveTogether
<1>1. ASSUME IInv, NEW a \in Agents, NEW b \in Neighbors(a),
             Decided(a), Decided(b), mgm[a].term = mgm[b].term,
             mgm[a].can_move, mgm[b].can_move
      PROVE  FALSE
  <2>1. TypeOK /\ AgentInv(a) /\ AgentInv(b) /\ b \in Agents
    BY <1>1, NeighborFacts DEF IInv
  <2>2. ~ Improving(a) /\ ~ Improving(b)
    BY <1>1 DEF Decided, Improving
  <2>3. Phase(a) = 2 * Round(a) /\ Phase(b) = 2 * Round(b)
        /\ Round(a) \in Nat /\ Round(b) \in Nat
    BY <2>1, <2>2, PhaseFacts
  <2>4. Phase(a) \notin {0, 2} /\ Phase(b) \notin {0, 2}
    BY <1>1, <2>1 DEF AgentInv
  <2>5. InStep(Phase(a), Phase(b)) /\ MoveLink(a, b) /\ MoveLink(b, a)
    BY <1>1, LinkFacts
  <2>6. Phase(a) = Phase(b)
    BY <2>3, <2>4, <2>5 DEF InStep
  <2>7. Beats(a, b) /\ Beats(b, a)
    BY <1>1, <2>2, <2>3, <2>5, <2>6 DEF MoveLink
  <2>8. /\ mgm[a].improve \in Nat /\ mgm[b].improve \in Nat
        /\ a \in Nat /\ b \in Nat
    BY <2>1, AgentTypes, AgentFacts
  <2>. QED
    BY <2>7, <2>8 DEF Beats
<1>2. IInv => NeighborsNeverMoveTogether
  BY <1>1 DEF NeighborsNeverMoveTogether
<1>. QED
  BY <1>2, Invariance, PTL
-----------------------------------------------------------------------------
(* What neighbors know of each other's views.  The steps of an agent are   *)
(* its phases from the first OK messages it reads: before its START it is  *)
(* where its START will take it.                                           *)
Step(a) == IF Improving(a) THEN 2 * Reads(a) + 1 ELSE 2 * Reads(a)
Past(b, a) == Step(b) = Step(a) + 1

(* The views that b has told a and a has not adopted or forgotten yet.     *)
Tells(m, b, x) == m.kind = "OK" /\ m.from = b /\ m.view = x
SentView(b, a, x) ==
    \/ \E i \in DOMAIN queue[a] : Tells(queue[a][i], b, x)
    \/ \E i \in DOMAIN out[b] : out[b][i].to = a /\ Tells(out[b][i].msg, b, x)
Said(b, a, x) == SentView(b, a, x) \/ (Heard(a, b) /\ agent_view[a][b] = x)
Hears(a, x) == \E c \in Neighbors(a) : Said(c, a, x)

(* Agents that improve have the same view, and agents that read views      *)
(* differ only by a move.  An agent that reads views and does not move has *)
(* been or will be told the view of a neighbor that is past it.            *)
ViewLink(a, b) ==
    /\ Improving(a) /\ Improving(b) => view[b] = view[a]
    /\ ~ Improving(a) /\ ~ Improving(b) /\ ~ mgm[a].can_move /\ ~ mgm[b].can_move
          => view[b] = view[a]
    /\ ~ Improving(a) /\ Past(b, a)
          => view[b] = view[a] \/ (~ mgm[a].can_move /\ Hears(a, view[b]))
    /\ ~ Improving(a) =>
          \A x : Said(b, a, x) =>
             /\ ~ Improving(b) => x = view[b]
             /\ Past(b, a) /\ ~ mgm[a].can_move => x \in {view[a], view[b]}
    /\ Improving(a) /\ Past(b, a) =>
          /\ ~ mgm[b].can_move => view[b] = view[a]
          /\ \A x : SentView(b, a, x) => x = view[b]

ViewInv ==
    \A a \in Agents :
        /\ Improving(a) => Neighbors(a) # {}
        /\ \A b \in Neighbors(a) : ViewLink(a, b)

(* Every specification in lua/ connects all agents with each other; here   *)
(* there may be agents besides that have no neighbors at all.              *)
Mutual ==
    \A a, b \in Agents : a # b /\ Neighbors(a) # {} /\ Neighbors(b) # {} => b \in Neighbors(a)

LEMMA MutualNeighbors ==
    ASSUME Mutual, NEW a \in Agents, NEW b \in Neighbors(a), NEW c \in Neighbors(a), b # c
    PROVE  c \in Neighbors(b)
<1>1. b \in Agents /\ c \in Agents /\ a \in Neighbors(b) /\ a \in Neighbors(c)
  BY NeighborFacts
<1>. QED
  BY <1>1 DEF Mutual

LEMMA PastFacts ==
    ASSUME IInv, NEW a \in Agents, NEW b \in Neighbors(a)
    PROVE  /\ Past(b, a) => ~ Past(a, b) /\ (Improving(b) <=> ~ Improving(a))
           /\ (Improving(b) <=> ~ Improving(a)) => Past(b, a) \/ Past(a, b)
           /\ ~ Improving(a) /\ Round(b) = Reads(a) => ~ Past(a, b)
<1>1. /\ Round(a) \in Nat /\ Round(b) \in Nat
      /\ Reads(a) = IF Round(a) = 0 THEN 1 ELSE Round(a)
      /\ Reads(b) = IF Round(b) = 0 THEN 1 ELSE Round(b)
      /\ Phase(a) = IF Improving(a) THEN 2 * Round(a) + 1 ELSE 2 * Round(a)
      /\ Phase(b) = IF Improving(b) THEN 2 * Round(b) + 1 ELSE 2 * Round(b)
      /\ InStep(Phase(a), Phase(b))
  BY LinkFacts
<1>2. /\ Step(a) = IF Improving(a) THEN 2 * Reads(a) + 1 ELSE 2 * Reads(a)
      /\ Step(b) = IF Improving(b) THEN 2 * Reads(b) + 1 ELSE 2 * Reads(b)
  BY DEF Step
<1>3. Improving(a) \in BOOLEAN /\ Improving(b) \in BOOLEAN
  BY DEF Improving
<1>4. CASE Improving(a) /\ Improving(b)
  <2>0. Phase(a) = 2 * Round(a) + 1 /\ Phase(b) = 2 * Round(b) + 1
    BY <1>1, <1>4
  <2>1. Reads(a) = Reads(b) /\ Reads(a) \in Nat
    BY <1>1, <2>0 DEF InStep
  <2>2. Step(a) = Step(b) /\ Step(a) \in Nat
    BY <1>2, <1>4, <2>1
  <2>. QED
    BY <1>4, <2>2 DEF Past
<1>5. CASE ~ Improving(a) /\ ~ Improving(b)
  <2>0. Phase(a) = 2 * Round(a) /\ Phase(b) = 2 * Round(b)
    BY <1>1, <1>5
  <2>1. Reads(a) = Reads(b) /\ Reads(a) \in Nat
    BY <1>1, <2>0 DEF InStep
  <2>2. Step(a) = Step(b) /\ Step(a) \in Nat
    BY <1>2, <1>5, <2>1
  <2>. QED
    BY <1>5, <2>2 DEF Past
<1>6. CASE Improving(a) /\ ~ Improving(b)
  <2>0. Phase(a) = 2 * Round(a) + 1 /\ Phase(b) = 2 * Round(b)
    BY <1>1, <1>6
  <2>1. Reads(a) \in Nat /\ Reads(b) \in Nat /\ (Reads(b) = Reads(a) \/ Reads(b) = Reads(a) + 1)
    BY <1>1, <2>0 DEF InStep
  <2>2. Step(a) = 2 * Reads(a) + 1 /\ Step(b) = 2 * Reads(b)
    BY <1>2, <1>6
  <2>. QED
    BY <1>6, <2>1, <2>2 DEF Past
<1>7. CASE ~ Improving(a) /\ Improving(b)
  <2>0. Phase(a) = 2 * Round(a) /\ Phase(b) = 2 * Round(b) + 1
    BY <1>1, <1>7
  <2>3. \/ Round(a) = 1 /\ Round(b) = 0
        \/ Round(a) >= 1 /\ Round(b) >= 1 /\ (Round(a) = Round(b) \/ Round(a) = Round(b) + 1)
    <3>1. Phase(b) \notin {0, 2} /\ Phase(a) # 1
      BY <1>1, <2>0
    <3>2. \/ Phase(a) = 2 /\ Phase(b) = 1
          \/ /\ Phase(a) >= 2 /\ Phase(b) >= 2
             /\ Phase(a) <= Phase(b) + 1 /\ Phase(b) <= Phase(a) + 1
      BY <1>1, <3>1 DEF InStep
    <3>3. CASE Phase(a) = 2 /\ Phase(b) = 1
      <4>1. 2 * Round(a) = 2 /\ 2 * Round(b) + 1 = 1
        BY <2>0, <3>3
      <4>2. Round(a) \in Nat /\ Round(b) \in Nat
        BY <1>1
      <4>3. Round(a) = 1
        BY <4>1, <4>2
      <4>4. Round(b) = 0
        <5>. DEFINE r == Round(b)
        <5>1. r \in Nat /\ r + r + 1 = 1
          BY <4>1, <4>2
        <5>. HIDE DEF r
        <5>2. r = 0
          BY <5>1
        <5>. QED
          BY <5>2 DEF r
      <4>. QED
        BY <4>3, <4>4
    <3>4. CASE /\ Phase(a) >= 2 /\ Phase(b) >= 2
               /\ Phase(a) <= Phase(b) + 1 /\ Phase(b) <= Phase(a) + 1
      <4>1. /\ 2 * Round(a) >= 2 /\ 2 * Round(b) + 1 >= 2
            /\ 2 * Round(a) <= 2 * Round(b) + 2 /\ 2 * Round(b) + 1 <= 2 * Round(a) + 1
        BY <1>1, <2>0, <3>4
      <4>. QED
        BY <1>1, <4>1
    <3>. QED
      BY <3>2, <3>3, <3>4
  <2>1. Reads(a) \in Nat /\ Reads(b) \in Nat /\ (Reads(a) = Reads(b) \/ Reads(a) = Reads(b) + 1)
        /\ (Round(b) = Reads(a) => Reads(b) = Reads(a))
    BY <1>1, <2>3
  <2>2. Step(b) = 2 * Reads(b) + 1 /\ Step(a) = 2 * Reads(a)
    BY <1>2, <1>7
  <2>. QED
    BY <1>7, <2>1, <2>2 DEF Past
<1>. QED
  BY <1>3, <1>4, <1>5, <1>6, <1>7

(* A view that was sent is an OK message on its way.                       *)
LEMMA SentIsPending ==
    ASSUME NEW a, NEW b, NEW x, SentView(b, a, x)
    PROVE  Pending(b, a, "OK")
BY DEF SentView, Tells, Pending, Holds, IsFrom, Sends

LEMMA SomethingSaid ==
    ASSUME IInv, NEW a \in Agents, NEW b \in Neighbors(a),
           Pending(b, a, "OK") \/ Heard(a, b)
    PROVE  \E x : Said(b, a, x)
<1>1. CASE Heard(a, b)
  BY <1>1 DEF Said
<1>2. CASE Holds(queue[a], b, "OK")
  <2>1. PICK i \in DOMAIN queue[a] : IsFrom(queue[a][i], b, "OK")
    BY <1>2 DEF Holds
  <2>2. Tells(queue[a][i], b, queue[a][i].view)
    BY <2>1 DEF Tells, IsFrom
  <2>. QED
    BY <2>2 DEF Said, SentView
<1>3. CASE Sends(out[b], a, "OK")
  <2>1. PICK i \in DOMAIN out[b] : out[b][i].to = a /\ out[b][i].msg.kind = "OK"
    BY <1>3 DEF Sends
  <2>2. b \in Agents
    BY NeighborFacts
  <2>3. out[b][i].msg.from = b
    BY <2>2 DEF IInv, MailInv
  <2>4. Tells(out[b][i].msg, b, out[b][i].msg.view)
    BY <2>1, <2>3 DEF Tells
  <2>. QED
    BY <2>1, <2>4 DEF Said, SentView
<1>. QED
  BY <1>1, <1>2, <1>3 DEF Pending

-----------------------------------------------------------------------------
(* Views on their way when an agent takes a message from its mailbox.      *)
LEMMA TakenMessage ==
    ASSUME TypeOK, NEW a \in Agents, Receives(a)
    PROVE  \E j \in DOMAIN queue[a] : Message(a) = queue[a][j]
<1>. DEFINE list == queue[a]
            kinds == Accepted(mode[a])
            m == Message(a)
            q == Unlinked(list, kinds)
<1>1. list \in Seq(Messages) /\ Acceptable(list, kinds) # {} /\ m = Found(list, kinds)
  BY DEF TypeOK, Receives, Message
<1>. HIDE DEF list, kinds, m
<1>2. \E j \in DOMAIN list : m = list[j]
  BY <1>1, Taken
<1>. QED
  BY <1>2 DEF list, m

LEMMA ViewsToTaker ==
    ASSUME IInv, NEW a \in Agents, Receives(a), NEW m, m = Message(a),
           NEW b \in Neighbors(a), out'[b] = out[b], NEW x
    PROVE  SentView(b, a, x) <=> SentView(b, a, x)' \/ Tells(m, b, x)
<1>1. Takes(a, m) /\ MailInv(a)
  BY ReceivesTakes DEF IInv
<1>3. PICK j \in DOMAIN queue[a] : m = queue[a][j]
  BY TakenMessage DEF IInv
<1>4. ASSUME NEW i \in DOMAIN queue'[a], Tells(queue'[a][i], b, x)
      PROVE  \E l \in DOMAIN queue[a] : Tells(queue[a][l], b, x)
  BY <1>1, <1>4 DEF Takes
<1>5. ASSUME NEW i \in DOMAIN queue[a], Tells(queue[a][i], b, x), ~ Tells(m, b, x)
      PROVE  \E l \in DOMAIN queue'[a] : Tells(queue'[a][l], b, x)
  <2>0. Once(queue[a], b, "OK")
    BY <1>1 DEF MailInv, Phases
  <2>1. IsFrom(queue[a][i], b, "OK") /\ Holds(queue[a], b, "OK")
    BY <1>5 DEF Holds, IsFrom, Tells
  <2>2. ~ IsFrom(m, b, "OK")
    <3>1. SUFFICES ASSUME IsFrom(m, b, "OK") PROVE FALSE
      OBVIOUS
    <3>2. i = j
      BY <1>3, <2>0, <2>1, <3>1 DEF Once
    <3>. QED
      BY <1>3, <1>5, <3>2
  <2>3. Holds(queue'[a], b, "OK")
    BY <1>1, <2>1, <2>2 DEF Takes, Phases
  <2>4. PICK l \in DOMAIN queue'[a] : IsFrom(queue'[a][l], b, "OK")
    BY <2>3 DEF Holds
  <2>5. PICK p \in DOMAIN queue[a] : queue'[a][l] = queue[a][p]
    BY <1>1 DEF Takes
  <2>6. p = i
    BY <2>0, <2>1, <2>4, <2>5 DEF Once
  <2>. QED
    BY <1>5, <2>5, <2>6
<1>6. Tells(m, b, x) => SentView(b, a, x)
  BY <1>3 DEF SentView
<1>. QED
  BY <1>4, <1>5, <1>6 DEF SentView

LEMMA ViewsFromTaker ==
    ASSUME IInv, NEW a \in Agents, Receives(a),
           NEW msg \in Messages, out' = [out EXCEPT ![a] = ToNeighbors(a, msg)],
           NEW b \in Neighbors(a), NEW x
    PROVE  SentView(a, b, x)' <=> SentView(a, b, x) \/ Tells(msg, a, x)
<1>1. Takes(a, Message(a)) /\ b \in Agents \ {a} /\ out[a] = <<>> /\ TypeOK
  BY ReceivesTakes, NeighborFacts DEF IInv
<1>2. queue'[b] = queue[b] /\ out'[a] = ToNeighbors(a, msg)
  BY <1>1 DEF Takes, TypeOK
<1>. DEFINE o == ToNeighbors(a, msg)
<1>3. /\ \A i \in DOMAIN o : o[i].to \in Neighbors(a) /\ o[i].msg = msg
      /\ Sends(o, b, msg.kind)
  <2>. HIDE DEF o
  <2>0. o = ToNeighbors(a, msg)
    BY DEF o
  <2>1. \A i \in DOMAIN o : o[i].to \in Neighbors(a) /\ o[i].msg = msg
    BY <2>0, ToNeighborsFacts
  <2>2. \A c \in Neighbors(a) : \A k : Sends(o, c, k) <=> msg.kind = k
    BY <2>0, ToNeighborsFacts
  <2>. QED
    BY <2>1, <2>2
<1>. HIDE DEF o
<1>4. (\E i \in DOMAIN o : o[i].to = b /\ Tells(o[i].msg, a, x)) <=> Tells(msg, a, x)
  BY <1>3 DEF Sends
<1>5. out'[a] = o
  BY <1>2 DEF o
<1>. QED
  BY <1>1, <1>2, <1>4, <1>5 DEF SentView

LEMMA ViewsFromSilent ==
    ASSUME IInv, NEW a \in Agents, Receives(a), out' = out,
           NEW b \in Neighbors(a), NEW x
    PROVE  SentView(a, b, x)' <=> SentView(a, b, x)
<1>1. Takes(a, Message(a)) /\ b \in Agents \ {a}
  BY ReceivesTakes, NeighborFacts DEF IInv
<1>2. queue'[b] = queue[b] /\ out'[a] = out[a]
  BY <1>1 DEF Takes
<1>. QED
  BY <1>2 DEF SentView

LEMMA ViewsElsewhere ==
    ASSUME IInv, NEW a \in Agents, Receives(a), NEW p \in Agents \ {a},
           NEW q, out'[q] = out[q], NEW x
    PROVE  SentView(q, p, x)' <=> SentView(q, p, x)
<1>1. Takes(a, Message(a))
  BY ReceivesTakes
<1>2. queue'[p] = queue[p]
  BY <1>1 DEF Takes
<1>. QED
  BY <1>2 DEF SentView

-----------------------------------------------------------------------------
(* Steps that keep every view and everything that was said of it.          *)
SameView(a) ==
    /\ view'[a] = view[a]
    /\ Improving(a)' <=> Improving(a)
    /\ Step(a)' = Step(a)
    /\ ~ Improving(a) => mgm'[a].can_move = mgm[a].can_move

SameSaid(b, a) ==
    \A x : (SentView(b, a, x)' => SentView(b, a, x)) /\ (Said(b, a, x)' <=> Said(b, a, x))

LEMMA StepKept ==
    ASSUME NEW a, SamePhase(a)
    PROVE  (Improving(a)' <=> Improving(a)) /\ Step(a)' = Step(a)
BY DEF SamePhase, Step

LEMMA ViewLinkKept ==
    ASSUME NEW a, NEW b, SameView(a), SameView(b), ViewLink(a, b),
           Past(b, a) => (Improving(b) <=> ~ Improving(a)),
           \A x : (SentView(b, a, x)' => SentView(b, a, x)) /\ (Said(b, a, x)' => Said(b, a, x)),
           \A x : Hears(a, x) => Hears(a, x)'
    PROVE  ViewLink(a, b)'
<1>1. Past(b, a)' <=> Past(b, a)
  BY DEF Past, SameView
<1>2. (Improving(a) /\ Improving(b) => view[b] = view[a])'
  BY DEF SameView, ViewLink
<1>3. (~ Improving(a) /\ ~ Improving(b) /\ ~ mgm[a].can_move /\ ~ mgm[b].can_move
          => view[b] = view[a])'
  BY DEF SameView, ViewLink
<1>4. (~ Improving(a) /\ Past(b, a)
          => view[b] = view[a] \/ (~ mgm[a].can_move /\ Hears(a, view[b])))'
  <2>1. SUFFICES ASSUME ~ Improving(a)', Past(b, a)', view'[b] # view'[a]
                 PROVE  ~ mgm'[a].can_move /\ Hears(a, view[b])'
    OBVIOUS
  <2>2. ~ mgm[a].can_move /\ Hears(a, view[b])
    BY <1>1, <2>1 DEF SameView, ViewLink
  <2>3. ~ mgm'[a].can_move
    BY <2>1, <2>2 DEF SameView
  <2>4. PICK y : y = view[b] /\ y = view'[b]
    BY DEF SameView
  <2>5. Hears(a, y)'
    BY <2>2, <2>4
  <2>6. Hears(a, view[b])'
    BY <2>4, <2>5 DEF Hears, Said, SentView
  <2>. QED
    BY <2>3, <2>6
<1>5. (~ Improving(a) =>
          \A x : Said(b, a, x) =>
             /\ ~ Improving(b) => x = view[b]
             /\ Past(b, a) /\ ~ mgm[a].can_move => x \in {view[a], view[b]})'
  BY <1>1 DEF SameView, ViewLink
<1>6. (Improving(a) /\ Past(b, a) =>
          /\ ~ mgm[b].can_move => view[b] = view[a]
          /\ \A x : SentView(b, a, x) => x = view[b])'
  <2>1. SUFFICES ASSUME Improving(a)', Past(b, a)'
                 PROVE  /\ ~ mgm'[b].can_move => view'[b] = view'[a]
                        /\ \A x : SentView(b, a, x)' => x = view'[b]
    OBVIOUS
  <2>2. /\ ~ mgm[b].can_move => view[b] = view[a]
        /\ \A x : SentView(b, a, x) => x = view[b]
    BY <1>1, <2>1 DEF SameView, ViewLink
  <2>3. ~ Improving(b) /\ view'[a] = view[a] /\ view'[b] = view[b]
        /\ mgm'[b].can_move = mgm[b].can_move
    BY <1>1, <2>1 DEF SameView
  <2>. QED
    BY <2>2, <2>3
<1>. QED
  BY <1>2, <1>3, <1>4, <1>5, <1>6 DEF ViewLink

LEMMA QuietViews ==
    ASSUME IInv, ViewInv,
           \A p \in Agents : Neighbors(p) # {} => SameView(p),
           \A p \in Agents : Improving(p)' <=> Improving(p),
           \A p \in Agents : \A q \in Neighbors(p) : SameSaid(q, p)
    PROVE  ViewInv'
<1>1. ASSUME NEW a \in Agents, NEW b \in Neighbors(a) PROVE ViewLink(a, b)'
  <2>1. b \in Agents /\ a \in Neighbors(b) /\ ViewLink(a, b)
    BY NeighborFacts DEF ViewInv
  <2>2. SameView(a) /\ SameView(b)
    BY <2>1
  <2>3. \A x : (SentView(b, a, x)' => SentView(b, a, x)) /\ (Said(b, a, x)' => Said(b, a, x))
    BY DEF SameSaid
  <2>4. ASSUME NEW x, Hears(a, x) PROVE Hears(a, x)'
    BY <2>4 DEF SameSaid, Hears
  <2>5. Past(b, a) => (Improving(b) <=> ~ Improving(a))
    BY PastFacts
  <2>. QED
    BY <2>1, <2>2, <2>3, <2>4, <2>5, ViewLinkKept
<1>2. \A a \in Agents : Improving(a)' => Neighbors(a) # {}
  BY DEF ViewInv
<1>. QED
  BY <1>1, <1>2 DEF ViewInv

(* What an agent does that leaves phase and view as they are, and reads no *)
(* view.                                                                   *)
LEMMA SameViews ==
    ASSUME NEW a, Same(a), view'[a] = view[a]
    PROVE  SameView(a)
<1>1. (Improving(a)' <=> Improving(a)) /\ Step(a)' = Step(a)
  BY SameFacts, StepKept
<1>. QED
  BY <1>1 DEF SameView, Same

(* A message that is put into the mailbox of agent c.                      *)
LEMMA ViewsPosted ==
    ASSUME TypeOK, NEW c \in Agents, NEW m \in Messages,
           queue' = [queue EXCEPT ![c] = Append(@, m)],
           NEW a \in Agents, NEW b, NEW x
    PROVE  (\E i \in DOMAIN queue'[a] : Tells(queue'[a][i], b, x))
              <=> \/ \E i \in DOMAIN queue[a] : Tells(queue[a][i], b, x)
                  \/ a = c /\ Tells(m, b, x)
<1>1. queue \in [Agents -> Seq(Messages)]
  BY DEF TypeOK
<1>2. CASE a = c
  <2>. DEFINE list == queue[c]
              q == queue'[c]
  <2>1. list \in Seq(Messages) /\ q = Append(list, m)
    BY <1>1
  <2>. HIDE DEF list, q
  <2>2. /\ Len(list) \in Nat /\ DOMAIN list = 1 .. Len(list)
        /\ DOMAIN q = 1 .. Len(list) + 1 /\ q[Len(list) + 1] = m
        /\ \A i \in 1 .. Len(list) : q[i] = list[i]
    BY <2>1
  <2>3. ASSUME NEW i \in DOMAIN q, Tells(q[i], b, x), ~ Tells(m, b, x)
        PROVE  \E l \in DOMAIN list : Tells(list[l], b, x)
    <3>1. i # Len(list) + 1
      BY <2>2, <2>3
    <3>2. i \in 1 .. Len(list)
      BY <2>2, <3>1
    <3>. QED
      BY <2>2, <2>3, <3>2
  <2>4. ASSUME NEW i \in DOMAIN list, Tells(list[i], b, x)
        PROVE  \E l \in DOMAIN q : Tells(q[l], b, x)
    <3>1. i \in DOMAIN q /\ q[i] = list[i]
      BY <2>2
    <3>. QED
      BY <2>4, <3>1
  <2>5. ASSUME Tells(m, b, x) PROVE \E l \in DOMAIN q : Tells(q[l], b, x)
    <3>1. Len(list) + 1 \in DOMAIN q
      BY <2>2
    <3>. QED
      BY <2>2, <2>5, <3>1
  <2>. QED
    BY <1>2, <2>3, <2>4, <2>5 DEF list, q
<1>3. CASE a # c
  <2>1. queue'[a] = queue[a]
    BY <1>1, <1>3
  <2>. QED
    BY <1>3, <2>1
<1>. QED
  BY <1>2, <1>3

(* main and the signal handler tell no views.                              *)
LEMMA ControlSaysNothing ==
    ASSUME IInv, NEW c \in Agents, NEW m \in ControlMessages,
           queue' = [queue EXCEPT ![c] = Append(@, m)], out' = out, agent_view' = agent_view,
           NEW a \in Agents, NEW b \in Neighbors(a)
    PROVE  SameSaid(b, a)
<1>1. TypeOK /\ m \in Messages
  BY DEF IInv, Messages
<1>2. \A x : ~ Tells(m, b, x)
  BY DEF ControlMessages, Tells
<1>3. ASSUME NEW x PROVE SentView(b, a, x)' <=> SentView(b, a, x)
  <2>1. (\E i \in DOMAIN queue'[a] : Tells(queue'[a][i], b, x))
           <=> (\E i \in DOMAIN queue[a] : Tells(queue[a][i], b, x))
    BY <1>1, <1>2, ViewsPosted
  <2>. QED
    BY <2>1 DEF SentView
<1>. QED
  BY <1>3 DEF SameSaid, Said, Heard, Cleared

LEMMA UntouchedSaysNothing ==
    ASSUME UNCHANGED <<queue, out, agent_view>>
    PROVE  \A a, b : SameSaid(b, a)
BY DEF SameSaid, Said, SentView, Heard, Cleared

LEMMA MainViews ==
    ASSUME IInv, ViewInv, MainStep \/ SendKill \/ Terminating \/ UNCHANGED vars
    PROVE  ViewInv'
<1>1. /\ UNCHANGED <<view, agent_view, mgm, mode, counter, stop, out, why>>
      /\ \A a \in Agents : \A b \in Neighbors(a) : SameSaid(b, a)
  <2>1. CASE SendStart
    <3>1. main.next \in Agents
      BY DEF IInv, TypeOK
    <3>2. [kind |-> "START", from |-> Null] \in ControlMessages
      BY DEF ControlMessages
    <3>. QED
      BY <2>1, <3>1, <3>2, ControlSaysNothing DEF SendStart
  <2>2. CASE SendKill
    <3>1. kill \in Agents
      <4>1. kill \in 1 .. N + 1 /\ kill <= N /\ N \in Nat
        BY <2>2, AgentFacts DEF SendKill, IInv, TypeOK
      <4>. QED
        BY <4>1 DEF Agents
    <3>2. [kind |-> "END", from |-> Null] \in ControlMessages
      BY DEF ControlMessages
    <3>. QED
      BY <2>2, <3>1, <3>2, ControlSaysNothing DEF SendKill
  <2>3. CASE Join \/ MergeViews \/ Terminating \/ UNCHANGED vars
    <3>1. UNCHANGED <<queue, view, agent_view, mgm, mode, counter, stop, out, why>>
      BY <2>3 DEF Join, MergeViews, Terminating, vars, agentVars
    <3>. QED
      BY <3>1, UntouchedSaysNothing
  <2>. QED
    BY <2>1, <2>2, <2>3 DEF MainStep
<1>2. \A a \in Agents : Same(a) /\ view'[a] = view[a]
  BY <1>1 DEF Same
<1>3. \A a \in Agents : SameView(a)
  BY <1>2, SameViews
<1>4. \A a \in Agents : Improving(a)' <=> Improving(a)
  BY <1>2, SameFacts
<1>. QED
  BY <1>1, <1>3, <1>4, QuietViews

(* A view that an agent sends is still said.                               *)
LEMMA SendNextViews ==
    ASSUME IInv, ViewInv, NEW a \in Agents, SendNext(a)
    PROVE  ViewInv'
<1>. DEFINE h == Head(out[a])
<1>0. TypeOK /\ MailInv(a) /\ out[a] # <<>>
  BY DEF IInv, SendNext
<1>1. /\ queue' = [queue EXCEPT ![h.to] = Append(@, h.msg)]
      /\ out' = [out EXCEPT ![a] = Tail(out[a])]
      /\ UNCHANGED <<view, agent_view, mgm, mode, counter, stop, why>>
  BY DEF SendNext
<1>2. out[a] \in Seq([to : Agents, msg : Messages])
  BY <1>0, AgentTypes
<1>3. /\ Len(out[a]) \in Nat /\ Len(out[a]) > 0 /\ DOMAIN out[a] = 1 .. Len(out[a])
      /\ h = out[a][1] /\ 1 \in DOMAIN out[a]
      /\ DOMAIN Tail(out[a]) = 1 .. Len(out[a]) - 1
      /\ \A i \in DOMAIN Tail(out[a]) : Tail(out[a])[i] = out[a][i + 1]
  <2>. DEFINE S == [to : Agents, msg : Messages]
              o == out[a]
  <2>1. o \in Seq(S) /\ o # <<>>
    BY <1>0, <1>2
  <2>. HIDE DEF S, o
  <2>2. /\ Len(o) \in Nat /\ Len(o) > 0 /\ DOMAIN o = 1 .. Len(o)
        /\ Head(o) = o[1] /\ DOMAIN Tail(o) = 1 .. Len(o) - 1
        /\ \A i \in DOMAIN Tail(o) : Tail(o)[i] = o[i + 1]
    BY <2>1, EmptySeq, HeadTailProperties
  <2>3. 1 \in DOMAIN o
    BY <2>2
  <2>. QED
    BY <2>2, <2>3 DEF o
<1>4. h.to \in Agents /\ h.to \in Neighbors(a) /\ h.msg \in Messages
      /\ h.msg.from = a
  BY <1>0, <1>3, OutTypes DEF MailInv
<1>5. /\ out'[a] = Tail(out[a]) /\ \A b \in Agents \ {a} : out'[b] = out[b]
  BY <1>0, <1>1 DEF TypeOK
<1>. HIDE DEF h
<1>6. ASSUME NEW p, NEW x
      PROVE  (\E i \in DOMAIN out[a] : out[a][i].to = p /\ Tells(out[a][i].msg, a, x))
                <=> \/ \E i \in DOMAIN out'[a] : out'[a][i].to = p /\ Tells(out'[a][i].msg, a, x)
                    \/ h.to = p /\ Tells(h.msg, a, x)
  <2>1. \A i \in DOMAIN out'[a] : i + 1 \in DOMAIN out[a] /\ out'[a][i] = out[a][i + 1]
    BY <1>3, <1>5
  <2>2. \A i \in DOMAIN out[a] : i # 1 => i - 1 \in DOMAIN out'[a] /\ out'[a][i - 1] = out[a][i]
    BY <1>3, <1>5
  <2>. QED
    BY <1>3, <2>1, <2>2
<1>7. ASSUME NEW p \in Agents, NEW q \in Neighbors(p), NEW x
      PROVE  SentView(q, p, x)' <=> SentView(q, p, x)
  <2>0. q \in Agents
    BY NeighborFacts
  <2>1. (\E i \in DOMAIN queue'[p] : Tells(queue'[p][i], q, x))
           <=> \/ \E i \in DOMAIN queue[p] : Tells(queue[p][i], q, x)
               \/ p = h.to /\ Tells(h.msg, q, x)
    <3>0. PICK c \in Agents, m \in Messages : c = h.to /\ m = h.msg
      BY <1>4
    <3>1. queue' = [queue EXCEPT ![c] = Append(@, m)]
      BY <1>1, <3>0
    <3>2. (\E i \in DOMAIN queue'[p] : Tells(queue'[p][i], q, x))
             <=> \/ \E i \in DOMAIN queue[p] : Tells(queue[p][i], q, x)
                 \/ p = c /\ Tells(m, q, x)
      BY <1>0, <3>1, ViewsPosted
    <3>. QED
      BY <3>0, <3>2
  <2>2. CASE q = a
    <3>1. (\E i \in DOMAIN out[q] : out[q][i].to = p /\ Tells(out[q][i].msg, q, x))
             <=> \/ \E i \in DOMAIN out'[q] : out'[q][i].to = p /\ Tells(out'[q][i].msg, q, x)
                 \/ h.to = p /\ Tells(h.msg, q, x)
      <4>1. (\E i \in DOMAIN out[a] : out[a][i].to = p /\ Tells(out[a][i].msg, a, x))
               <=> \/ \E i \in DOMAIN out'[a] : out'[a][i].to = p /\ Tells(out'[a][i].msg, a, x)
                   \/ h.to = p /\ Tells(h.msg, a, x)
        BY <1>6
      <4>. QED
        BY <2>2, <4>1
    <3>. QED
      BY <2>1, <3>1 DEF SentView
  <2>3. CASE q # a
    <3>1. out'[q] = out[q] /\ ~ Tells(h.msg, q, x)
      BY <1>4, <1>5, <2>0, <2>3 DEF Tells
    <3>. QED
      BY <2>1, <3>1 DEF SentView
  <2>. QED
    BY <2>2, <2>3
<1>8. UNCHANGED <<view, agent_view, mgm, mode, counter, stop, why>>
  BY <1>1
<1>9. \A p \in Agents : \A q \in Neighbors(p) : SameSaid(q, p)
  BY <1>7, <1>8 DEF SameSaid, Said, Heard, Cleared
<1>10. \A p \in Agents : Same(p) /\ view'[p] = view[p]
  BY <1>8 DEF Same
<1>11. \A p \in Agents : SameView(p) /\ (Improving(p)' <=> Improving(p))
  BY <1>10, SameViews, SameFacts
<1>. QED
  BY <1>9, <1>11, QuietViews

LEMMA RegionViews ==
    ASSUME IInv, ViewInv, NEW a \in Agents, EnterRegion(a) \/ LeaveRegion(a) \/ PassBarrier(a)
    PROVE  ViewInv'
<1>1. UNCHANGED <<queue, view, agent_view, mgm, mode, counter, stop, out, why>>
  BY DEF EnterRegion, LeaveRegion, PassBarrier, agentVars
<1>2. \A p \in Agents : Same(p) /\ view'[p] = view[p]
  BY <1>1 DEF Same
<1>3. \A p \in Agents : SameView(p) /\ (Improving(p)' <=> Improving(p))
  BY <1>2, SameViews, SameFacts
<1>. QED
  BY <1>1, <1>3, UntouchedSaysNothing, QuietViews

(* What an agent reads but a view leaves alone what was said, as long as   *)
(* it says nothing itself.                                                 *)
LEMMA QuietReader ==
    ASSUME IInv, ViewInv, NEW a \in Agents, Receives(a),
           Message(a).kind # "OK", agent_view' = agent_view,
           \/ out' = out
           \/ \E msg \in Messages : /\ msg.kind = "END"
                                    /\ out' = [out EXCEPT ![a] = ToNeighbors(a, msg)],
           \A p \in Agents \ {a} : Same(p) /\ view'[p] = view[p],
           mode' = mode, Round(a)' = Round(a),
           Neighbors(a) # {} => view'[a] = view[a],
           ~ Improving(a) => mgm'[a].can_move = mgm[a].can_move
    PROVE  ViewInv'
<1>. DEFINE m == Message(a)
<1>0. Takes(a, m) /\ out[a] = <<>> /\ TypeOK
  BY ReceivesTakes DEF IInv
<1>1. SamePhase(a)
  BY PhaseKept
<1>2. \A p \in Agents \ {a} : SameView(p) /\ (Improving(p)' <=> Improving(p))
  BY SameViews, SameFacts
<1>3. Neighbors(a) # {} => SameView(a)
  BY <1>1, StepKept DEF SameView
<1>4. ASSUME NEW p \in Agents, NEW q \in Neighbors(p), NEW x
      PROVE  SentView(q, p, x)' <=> SentView(q, p, x)
  <2>0. q \in Agents /\ q # p /\ p \in Neighbors(q)
    BY NeighborFacts
  <2>1. CASE q = a
    <3>1. CASE out' = out
      BY <2>0, <2>1, <3>1, ViewsFromSilent
    <3>2. CASE ~ (out' = out)
      <4>1. PICK msg \in Messages : /\ msg.kind = "END"
                                    /\ out' = [out EXCEPT ![a] = ToNeighbors(a, msg)]
        BY <3>2
      <4>2. ~ Tells(msg, a, x)
        BY <4>1 DEF Tells
      <4>3. p \in Neighbors(a)
        BY <2>0, <2>1
      <4>4. SentView(a, p, x)' <=> SentView(a, p, x) \/ Tells(msg, a, x)
        BY <4>1, <4>3, ViewsFromTaker
      <4>. QED
        BY <2>1, <4>2, <4>4
    <3>. QED
      BY <3>1, <3>2
  <2>2. CASE q # a
    <3>1. out'[q] = out[q]
      BY <1>0, <2>0, <2>2 DEF TypeOK
    <3>2. CASE p # a
      BY <3>1, <3>2, ViewsElsewhere
    <3>3. CASE p = a
      <4>1. ~ Tells(m, q, x)
        BY DEF Tells
      <4>. QED
        BY <3>1, <3>3, <4>1, ViewsToTaker
    <3>. QED
      BY <3>2, <3>3
  <2>. QED
    BY <2>1, <2>2
<1>5. \A p \in Agents : \A q \in Neighbors(p) : SameSaid(q, p)
  BY <1>4 DEF SameSaid, Said, Heard, Cleared
<1>6. \A p \in Agents : Neighbors(p) # {} => SameView(p)
  BY <1>2, <1>3
<1>7. \A p \in Agents : Improving(p)' <=> Improving(p)
  BY <1>1, <1>2, StepKept
<1>. QED
  BY <1>5, <1>6, <1>7, QuietViews

LEMMA EndViews ==
    ASSUME IInv, ViewInv, NEW a \in Agents, End(a)
    PROVE  ViewInv'
<1>1. /\ Receives(a) /\ Message(a).kind = "END" /\ ~ Halted(a) /\ TypeOK
      /\ UNCHANGED <<view, agent_view, mgm, mode, counter, out>>
      /\ stop' = [stop EXCEPT ![a] = TRUE] /\ why' = [why EXCEPT ![a] = "end"]
  BY ReceivesTakes DEF End, IInv
<1>2. \A p \in Agents \ {a} : Same(p) /\ view'[p] = view[p]
  BY <1>1 DEF TypeOK, Same
<1>3. Round(a)' = Round(a)
  <2>1. why'[a] = "end"
    BY <1>1 DEF TypeOK
  <2>. QED
    BY <1>1, <2>1 DEF Halted, Round
<1>. QED
  BY <1>1, <1>2, <1>3, QuietReader

LEMMA StartAloneViews ==
    ASSUME IInv, ViewInv, NEW a \in Agents, StartAlone(a)
    PROVE  ViewInv'
<1>1. /\ Receives(a) /\ Message(a).kind = "START" /\ ~ Halted(a) /\ TypeOK
      /\ UNCHANGED <<agent_view, mode, counter, out>>
      /\ stop' = [stop EXCEPT ![a] = TRUE] /\ why' = [why EXCEPT ![a] = "alone"]
      /\ Neighbors(a) = {}
  BY ReceivesTakes, NeighborFacts DEF StartAlone, IInv
<1>2. PICK o \in Improvements(a, mgm[a], view[a]) :
          /\ mgm' = [mgm EXCEPT ![a] = Improved(@, o)]
          /\ view' = [view EXCEPT ![a] = o.new_view]
  BY DEF StartAlone
<1>3. \A p \in Agents \ {a} : Same(p) /\ view'[p] = view[p]
  BY <1>1, <1>2 DEF TypeOK, Same
<1>4. mgm'[a].term = mgm[a].term /\ mgm'[a].can_move = mgm[a].can_move
  <2>1. mgm'[a] = Improved(mgm[a], o)
    BY <1>1, <1>2 DEF TypeOK
  <2>2. mgm[a] \in MgmAgents
    BY <1>1 DEF TypeOK
  <2>. QED
    BY <2>1, <2>2 DEF Improved, MgmAgents
<1>5. Round(a)' = Round(a)
  <2>1. why'[a] = "alone"
    BY <1>1 DEF TypeOK
  <2>. QED
    BY <1>1, <1>4, <2>1 DEF Halted, Round
<1>. QED
  BY <1>1, <1>3, <1>4, <1>5, QuietReader

LEMMA ImproveButNotLastViews ==
    ASSUME IInv, ViewInv, NEW a \in Agents, ImproveButNotLast(a)
    PROVE  ViewInv'
<1>1. /\ Receives(a) /\ Message(a).kind = "IMPROVE" /\ ~ Halted(a) /\ TypeOK
      /\ Takes(a, Message(a))
      /\ mgm' = [mgm EXCEPT ![a] = Noted(a)]
      /\ counter' = [counter EXCEPT ![a] = Counted(a)]
      /\ UNCHANGED <<view, agent_view, mode, stop, out, why>>
  BY ReceivesTakes DEF ImproveButNotLast, IInv
<1>2. Improving(a)
  BY <1>1, ImproveRead
<1>3. \A p \in Agents \ {a} : Same(p) /\ view'[p] = view[p]
  BY <1>1 DEF TypeOK, Same
<1>4. Round(a)' = Round(a)
  <2>1. Noted(a).term = mgm[a].term
    BY <1>1, NotedFacts
  <2>2. mgm'[a] = Noted(a)
    BY <1>1 DEF TypeOK
  <2>. QED
    BY <1>1, <2>1, <2>2 DEF Halted, Round
<1>. QED
  BY <1>1, <1>2, <1>3, <1>4, QuietReader

LEMMA LastImproveHaltsViews ==
    ASSUME IInv, ViewInv, NEW a \in Agents, LastImprove(a), Halts(NotedAll(a))
    PROVE  ViewInv'
<1>0. TypeOK /\ Receives(a)
  BY DEF IInv, LastImprove
<1>1. PICK s : s = NotedAll(a)
  OBVIOUS
<1>2. /\ Takes(a, Message(a)) /\ Message(a).kind = "IMPROVE" /\ ~ Halted(a)
      /\ s \in MgmAgents /\ s.term = mgm[a].term /\ SendOk(a, s) /\ s.term < MaxDistance
      /\ Improving(a) /\ Halts(s)
  BY <1>1, LastImproveFacts
<1>3. PICK v \in KnownViewsOver(Agents), x \in Messages : SentOk(a, s, v, x)
  BY <1>0, <1>2, SendOkEffect
<1>4. /\ x.kind = "END" /\ out' = [out EXCEPT ![a] = ToNeighbors(a, x)]
      /\ stop' = [stop EXCEPT ![a] = Halts(s)]
      /\ why' \in [Agents -> {"", "distance", "stale", "overtaken", "end", "alone"}]
      /\ \A b \in Agents \ {a} : why'[b] = why[b]
      /\ why'[a] \in {"distance", "stale", "overtaken"}
      /\ Advanced(s).term = s.term + 1
  BY <1>2, <1>3 DEF SentOk
<1>5. view' = [view EXCEPT ![a] = view[a]] /\ view'[a] = view[a]
  <2>1. view' = [view EXCEPT ![a] = Moved(s, view[a])]
    BY <1>2 DEF SendOk
  <2>2. Moved(s, view[a]) = view[a]
    BY <1>2 DEF Moved
  <2>. QED
    BY <1>0, <2>1, <2>2 DEF TypeOK
<1>6. /\ mgm' = [mgm EXCEPT ![a] = Advanced(s)] /\ counter' = [counter EXCEPT ![a] = Counted(a)]
      /\ UNCHANGED <<agent_view, mode>>
  BY <1>1, <1>2 DEF LastImprove, NotedAll
<1>7. \A p \in Agents \ {a} : Same(p) /\ view'[p] = view[p]
  BY <1>0, <1>4, <1>5, <1>6 DEF TypeOK, Same
<1>8. Round(a)' = Round(a)
  <2>1. Halted(a)'
    BY <1>4 DEF Halted
  <2>2. mgm'[a].term = mgm[a].term + 1 /\ mgm[a].term \in Nat
    BY <1>0, <1>2, <1>4, <1>6, AgentTypes DEF TypeOK
  <2>. QED
    BY <1>2, <2>1, <2>2 DEF Round
<1>. QED
  BY <1>0, <1>2, <1>4, <1>5, <1>6, <1>7, <1>8, QuietReader

LEMMA StartHaltsViews ==
    ASSUME IInv, ViewInv, NEW a \in Agents, Start(a), Halts(mgm[a])
    PROVE  ViewInv'
<1>0. TypeOK /\ Receives(a)
  BY DEF IInv, Start
<1>1. PICK s : s = mgm[a]
  OBVIOUS
<1>2. /\ Takes(a, Message(a)) /\ Message(a).kind = "START" /\ ~ Halted(a)
      /\ UNCHANGED <<agent_view, mode, counter>>
      /\ mgm' = [mgm EXCEPT ![a] = Advanced(mgm[a])]
      /\ \E v \in KnownViewsOver(Agents), x \in Messages : SentOk(a, mgm[a], v, x)
  BY <1>1, StartEffect
<1>3. PICK v \in KnownViewsOver(Agents), x \in Messages : SentOk(a, mgm[a], v, x)
  BY <1>2
<1>4. /\ x.kind = "END" /\ out' = [out EXCEPT ![a] = ToNeighbors(a, x)]
      /\ stop' = [stop EXCEPT ![a] = Halts(mgm[a])]
      /\ why' \in [Agents -> {"", "distance", "stale", "overtaken", "end", "alone"}]
      /\ \A b \in Agents \ {a} : why'[b] = why[b]
      /\ why'[a] \in {"distance", "stale", "overtaken"}
      /\ Advanced(mgm[a]).term = mgm[a].term + 1
      /\ Advanced(mgm[a]).can_move = mgm[a].can_move
  BY <1>3 DEF SentOk
<1>5. view' = [view EXCEPT ![a] = view[a]] /\ view'[a] = view[a]
  <2>1. view' = [view EXCEPT ![a] = Moved(mgm[a], view[a])]
    BY DEF Start, SendOk
  <2>2. Moved(mgm[a], view[a]) = view[a]
    BY DEF Moved
  <2>. QED
    BY <1>0, <2>1, <2>2 DEF TypeOK
<1>6. mgm'[a].term = mgm[a].term + 1 /\ mgm[a].term \in Nat
      /\ mgm'[a].can_move = mgm[a].can_move
  BY <1>0, <1>2, <1>4, AgentTypes DEF TypeOK
<1>7. \A p \in Agents \ {a} : Same(p) /\ view'[p] = view[p]
  BY <1>0, <1>2, <1>4, <1>5 DEF TypeOK, Same
<1>8. Round(a)' = Round(a)
  <2>1. Halted(a)'
    BY <1>4 DEF Halted
  <2>. QED
    BY <1>2, <1>6, <2>1 DEF Round
<1>. QED
  BY <1>0, <1>2, <1>4, <1>5, <1>6, <1>7, <1>8, QuietReader

(* A view that is read but is not the last one is still said.              *)
LEMMA OkButNotLastViews ==
    ASSUME IInv, ViewInv, NEW a \in Agents, OkButNotLast(a)
    PROVE  ViewInv'
<1>. DEFINE m == Message(a)
<1>0. TypeOK /\ Receives(a)
  BY DEF IInv, OkButNotLast
<1>1. /\ Takes(a, m) /\ m.kind = "OK" /\ ~ Halted(a)
      /\ agent_view' = [agent_view EXCEPT ![a] = Told(a)]
      /\ counter' = [counter EXCEPT ![a] = Counted(a)]
      /\ UNCHANGED <<view, mgm, mode, stop, out, why>>
  BY ReceivesTakes DEF OkButNotLast
<1>2. ~ Heard(a, m.from) /\ m.from \in Neighbors(a)
  BY <1>1, OkRead
<1>3. m.from \in Agents /\ m.view \in KnownViewsOver(Agents) /\ m.view # Cleared
  BY <1>1, MessageTypes, KnownViews DEF Takes
<1>. HIDE DEF m
<1>4. \A c \in Agents : agent_view'[a][c] = IF c = m.from THEN m.view ELSE agent_view[a][c]
  <2>1. agent_view[a] \in [Agents -> ViewsOver(Agents)]
    BY <1>0 DEF TypeOK
  <2>2. agent_view'[a] = [agent_view[a] EXCEPT ![m.from] = m.view]
    BY <1>0, <1>1 DEF TypeOK, Told, m
  <2>. QED
    BY <1>3, <2>1, <2>2
<1>5. ASSUME NEW q \in Neighbors(a), NEW x
      PROVE  (SentView(q, a, x)' => SentView(q, a, x)) /\ (Said(q, a, x)' <=> Said(q, a, x))
  <2>0. q \in Agents /\ out'[q] = out[q]
    BY <1>1, NeighborFacts
  <2>1. SentView(q, a, x) <=> SentView(q, a, x)' \/ Tells(m, q, x)
    BY <1>0, <2>0, ViewsToTaker DEF m
  <2>2. Cleared' = Cleared
    BY DEF Cleared
  <2>3. CASE q = m.from
    <3>1. agent_view'[a][q] = m.view /\ Heard(a, q)' /\ ~ Heard(a, q)
      BY <1>2, <1>3, <1>4, <2>0, <2>2, <2>3 DEF Heard
    <3>2. Tells(m, q, x) <=> x = m.view
      BY <1>1, <2>3 DEF Tells
    <3>. QED
      BY <2>1, <3>1, <3>2 DEF Said
  <2>4. CASE q # m.from
    <3>1. agent_view'[a][q] = agent_view[a][q] /\ (Heard(a, q)' <=> Heard(a, q))
      BY <1>4, <2>0, <2>2, <2>4 DEF Heard
    <3>2. ~ Tells(m, q, x)
      BY <2>4 DEF Tells
    <3>. QED
      BY <2>1, <3>1, <3>2 DEF Said
  <2>. QED
    BY <2>3, <2>4
<1>6. ASSUME NEW p \in Agents \ {a}, NEW q, NEW x
      PROVE  (SentView(q, p, x)' <=> SentView(q, p, x)) /\ (Said(q, p, x)' <=> Said(q, p, x))
  <2>1. agent_view'[p] = agent_view[p]
    BY <1>0, <1>1 DEF TypeOK
  <2>2. SentView(q, p, x)' <=> SentView(q, p, x)
    BY <1>0, <1>1, ViewsElsewhere
  <2>. QED
    BY <2>1, <2>2 DEF Said, Heard, Cleared
<1>7. \A p \in Agents : \A q \in Neighbors(p) : SameSaid(q, p)
  BY <1>5, <1>6 DEF SameSaid
<1>8. \A p \in Agents : SamePhase(p)
  <2>1. \A p \in Agents : Round(p)' = Round(p)
    BY <1>1 DEF Round, Halted
  <2>. QED
    BY <1>1, <2>1, PhaseKept
<1>9. \A p \in Agents : SameView(p) /\ (Improving(p)' <=> Improving(p))
  BY <1>1, <1>8, StepKept DEF SameView
<1>. QED
  BY <1>7, <1>9, QuietViews

-----------------------------------------------------------------------------
(* Steps that tell a view or adopt one.  What a neighbor that does not     *)
(* take part in the step has been told is all that was said to it.         *)
LEMMA OkSent ==
    ASSUME IInv, NEW a \in Agents, Receives(a), NEW s, SendOk(a, s), ~ Halts(s),
           NEW v, v = Moved(s, view[a]), v \in KnownViewsOver(Agents)
    PROVE  /\ view'[a] = v
           /\ \A b \in Agents \ {a} : view'[b] = view[b] /\ out'[b] = out[b]
           /\ \A b \in Neighbors(a) : \A x : SentView(a, b, x)' <=> SentView(a, b, x) \/ x = v
<1>. DEFINE msg == [kind |-> "OK", from |-> a, view |-> v]
<1>1. TypeOK
  BY DEF IInv
<1>2. /\ view' = [view EXCEPT ![a] = v] /\ out' = [out EXCEPT ![a] = ToNeighbors(a, msg)]
  BY DEF SendOk
<1>3. msg \in Messages
  BY DEF Messages, OkMessages
<1>4. \A x : Tells(msg, a, x) <=> x = v
  BY DEF Tells
<1>. HIDE DEF msg
<1>5. \A b \in Neighbors(a) : \A x : SentView(a, b, x)' <=> SentView(a, b, x) \/ Tells(msg, a, x)
  BY <1>2, <1>3, ViewsFromTaker
<1>6. view'[a] = v /\ \A b \in Agents \ {a} : view'[b] = view[b] /\ out'[b] = out[b]
  BY <1>1, <1>2 DEF TypeOK
<1>. QED
  BY <1>4, <1>5, <1>6

(* Links between two others keep; all that an agent a says makes them hear *)
(* more.                                                                   *)
LEMMA OtherViewLinks ==
    ASSUME IInv, ViewInv, NEW a \in Agents, Receives(a),
           \A p \in Agents \ {a} : Same(p) /\ view'[p] = view[p] /\ out'[p] = out[p],
           \A b \in Neighbors(a) : \A x : SentView(a, b, x) => SentView(a, b, x)',
           NEW p \in Agents \ {a}
    PROVE  /\ SameView(p)
           /\ \A q \in Neighbors(p) \ {a} : SameSaid(q, p)
           /\ \A q \in Neighbors(p) \ {a} : ViewLink(p, q)'
           /\ \A x : Hears(p, x) => Hears(p, x)'
<1>1. \A q \in Agents \ {a} : SameView(q)
  BY SameViews
<1>2. agent_view'[p] = agent_view[p]
  BY DEF Same
<1>3. ASSUME NEW q \in Neighbors(p) \ {a} PROVE SameSaid(q, p)
  <2>1. q \in Agents \ {a}
    BY NeighborFacts
  <2>2. \A x : SentView(q, p, x)' <=> SentView(q, p, x)
    BY <2>1, ViewsElsewhere
  <2>. QED
    BY <1>2, <2>2 DEF SameSaid, Said, Heard, Cleared
<1>4. ASSUME NEW x, Hears(p, x) PROVE Hears(p, x)'
  <2>1. PICK c \in Neighbors(p) : Said(c, p, x)
    BY <1>4 DEF Hears
  <2>2. CASE c = a
    <3>1. p \in Neighbors(a)
      BY <2>2, NeighborFacts
    <3>2. Said(c, p, x)'
      BY <1>2, <2>1, <2>2, <3>1 DEF Said, Heard, Cleared
    <3>. QED
      BY <3>2 DEF Hears
  <2>3. CASE c # a
    <3>1. Said(c, p, x)'
      BY <1>3, <2>1, <2>3 DEF SameSaid
    <3>. QED
      BY <3>1 DEF Hears
  <2>. QED
    BY <2>2, <2>3
<1>5. ASSUME NEW q \in Neighbors(p) \ {a} PROVE ViewLink(p, q)'
  <2>1. q \in Agents \ {a} /\ ViewLink(p, q)
    BY NeighborFacts DEF ViewInv
  <2>2. \A x : (SentView(q, p, x)' => SentView(q, p, x)) /\ (Said(q, p, x)' => Said(q, p, x))
    BY <1>3 DEF SameSaid
  <2>3. Past(q, p) => (Improving(q) <=> ~ Improving(p))
    BY PastFacts
  <2>. QED
    BY <1>1, <1>4, <2>1, <2>2, <2>3, ViewLinkKept
<1>. QED
  BY <1>1, <1>3, <1>4, <1>5

LEMMA StartGoesOnViews ==
    ASSUME IInv, ViewInv, NEW a \in Agents, Start(a), ~ Halts(mgm[a])
    PROVE  ViewInv'
<1>0. TypeOK /\ Receives(a) /\ AgentInv(a) /\ SendOk(a, mgm[a])
  BY DEF IInv, Start
<1>1. /\ Takes(a, Message(a)) /\ Message(a).kind = "START" /\ ~ Halted(a)
      /\ UNCHANGED <<agent_view, mode, counter>>
      /\ mgm' = [mgm EXCEPT ![a] = Advanced(mgm[a])]
  BY StartEffect
<1>2. Round(a) = 0 /\ mgm[a].term = 0
  BY <1>1, StartRead
<1>3. ~ Improving(a) /\ Phase(a) = 0 /\ ~ mgm[a].can_move
  <2>1. ~ mgm[a].stale
    BY DEF Halts
  <2>2. ~ Improving(a)
    BY <1>0, <1>1, <1>2, <2>1 DEF AgentInv, Phase
  <2>3. Phase(a) = 0
    BY <1>2, <2>2 DEF Phase
  <2>. QED
    BY <1>0, <2>2, <2>3 DEF AgentInv
<1>4. Moved(mgm[a], view[a]) = view[a]
  BY <1>3 DEF Moved
<1>5. PICK v \in KnownViewsOver(Agents) : v = view[a]
  BY <1>0, AgentTypes
<1>6. /\ view'[a] = v
      /\ \A b \in Agents \ {a} : view'[b] = view[b] /\ out'[b] = out[b]
      /\ \A b \in Neighbors(a) : \A x : SentView(a, b, x)' <=> SentView(a, b, x) \/ x = v
  BY <1>0, <1>4, <1>5, OkSent
<1>7. /\ stop' = [stop EXCEPT ![a] = FALSE] /\ why' = [why EXCEPT ![a] = why[a]]
  <2>1. Reason(a, mgm[a]) = why[a]
    <3>. DEFINE h == Halts(mgm[a])
    <3>1. ~ h /\ ~ mgm[a].stale
      BY DEF Halts
    <3>. HIDE DEF h
    <3>2. Reason(a, mgm[a]) = CASE ~ h -> why[a]
                                [] h /\ ~ mgm[a].stale -> "distance"
                                [] mgm[a].stale /\ Message(a).kind = "IMPROVE" -> "stale"
                                [] mgm[a].stale /\ Message(a).kind = "START"   -> "overtaken"
      BY DEF Reason, h
    <3>. QED
      BY <3>1, <3>2
  <2>2. /\ stop' = [stop EXCEPT ![a] = Halts(mgm[a])] /\ why' = [why EXCEPT ![a] = Reason(a, mgm[a])]
    BY <1>0 DEF SendOk
  <2>. QED
    BY <2>1, <2>2 DEF Halts
<1>8. /\ \A p \in Agents \ {a} : Same(p) /\ why'[a] = why[a]
      /\ mgm'[a] = Advanced(mgm[a])
  BY <1>0, <1>1, <1>7 DEF TypeOK, Same
<1>9. mgm'[a].term = 1 /\ mgm'[a].can_move = mgm[a].can_move
  <2>1. mgm[a] \in MgmAgents
    BY <1>0, AgentTypes
  <2>. QED
    BY <1>2, <1>8, <2>1 DEF Advanced, MgmAgents
<1>10. SameView(a)
  <2>1. why' = why
    BY <1>0, <1>7 DEF TypeOK
  <2>2. Round(a)' = 1 /\ ~ Improving(a)'
    BY <1>1, <1>3, <1>9, <2>1 DEF Halted, Round, Improving
  <2>3. Step(a) = 2 /\ Step(a)' = 2
    BY <1>2, <1>3, <2>2 DEF Step, Reads
  <2>. QED
    BY <1>3, <1>5, <1>6, <1>9, <2>2, <2>3 DEF SameView
<1>11. ASSUME NEW b \in Neighbors(a) PROVE ViewLink(a, b)' /\ ViewLink(b, a)'
  <2>0. b \in Agents \ {a} /\ ViewLink(a, b) /\ ViewLink(b, a) /\ a \in Neighbors(b)
    BY NeighborFacts DEF ViewInv
  <2>1. SameView(b) /\ \A x : Hears(b, x) => Hears(b, x)'
    BY <1>0, <1>6, <1>8, <2>0, OtherViewLinks
  <2>2. ~ Improving(b)
    BY <1>3, LinkFacts DEF InStep
  <2>3. ~ Past(a, b) /\ ~ Past(b, a)
    BY <1>3, <2>0, <2>2, PastFacts
  <2>4. \A c \in Neighbors(a) : \A x : SentView(c, a, x)' <=> SentView(c, a, x)
    <3>1. SUFFICES ASSUME NEW c \in Neighbors(a), NEW x
                   PROVE  SentView(c, a, x)' <=> SentView(c, a, x)
      OBVIOUS
    <3>2. out'[c] = out[c]
      BY <1>6, NeighborFacts
    <3>3. ~ Tells(Message(a), c, x)
      BY <1>1 DEF Tells
    <3>. QED
      BY <1>0, <3>2, <3>3, ViewsToTaker
  <2>5. \A c \in Neighbors(a) : \A x : Said(c, a, x)' <=> Said(c, a, x)
    BY <1>1, <2>4 DEF Said, Heard, Cleared
  <2>6. \A x : Hears(a, x) => Hears(a, x)'
    BY <2>5 DEF Hears
  <2>7. ViewLink(a, b)'
    BY <1>10, <2>0, <2>1, <2>3, <2>4, <2>5, <2>6, ViewLinkKept
  <2>8. ViewLink(b, a)'
    <3>1. ~ Improving(a)' /\ ~ Improving(b)' /\ ~ Past(a, b)' /\ ~ Past(b, a)'
      BY <1>3, <1>10, <2>1, <2>2, <2>3 DEF SameView, Past
    <3>2. view'[a] = view[a] /\ view'[b] = view[b] /\ mgm'[a].can_move = mgm[a].can_move
          /\ mgm'[b].can_move = mgm[b].can_move
      BY <1>3, <1>10, <2>1, <2>2 DEF SameView
    <3>3. \A x : Said(a, b, x)' => Said(a, b, x) \/ x = view[a]
      BY <1>1, <1>5, <1>6 DEF Said, Heard, Cleared
    <3>4. \A x : Said(a, b, x)' => x = view'[a]
      BY <1>3, <2>0, <2>2, <3>2, <3>3 DEF ViewLink
    <3>. QED
      BY <1>3, <2>0, <2>2, <3>1, <3>2, <3>4 DEF ViewLink
  <2>. QED
    BY <2>7, <2>8
<1>12. ASSUME NEW p \in Agents \ {a}, NEW q \in Neighbors(p) PROVE ViewLink(p, q)'
  <2>1. CASE q = a
    BY <1>11, <2>1, NeighborFacts
  <2>2. CASE q # a
    BY <1>0, <1>6, <1>8, <2>2, OtherViewLinks
  <2>. QED
    BY <2>1, <2>2
<1>13. \A p \in Agents : Improving(p)' => Neighbors(p) # {}
  <2>1. \A p \in Agents : SamePhase(p) \/ (Improving(p)' <=> Improving(p))
    BY <1>8, <1>10, SameFacts DEF SameView
  <2>2. \A p \in Agents : Improving(p)' <=> Improving(p)
    BY <2>1 DEF SamePhase
  <2>. QED
    BY <2>2 DEF ViewInv
<1>. QED
  BY <1>11, <1>12, <1>13 DEF ViewInv

(* A step past its neighbors, or up to them: the agent tells its view, and *)
(* has read nothing of the new round.                                      *)
LEMMA LastImproveGoesOnViews ==
    ASSUME IInv, ViewInv, NEW a \in Agents, LastImprove(a), ~ Halts(NotedAll(a))
    PROVE  ViewInv'
<1>0. TypeOK /\ Receives(a)
  BY DEF IInv, LastImprove
<1>1. PICK s : s = NotedAll(a)
  OBVIOUS
<1>. DEFINE m == Message(a)
<1>2. /\ Takes(a, m) /\ m.kind = "IMPROVE" /\ ~ Halted(a)
      /\ s \in MgmAgents /\ s.term = mgm[a].term /\ SendOk(a, s) /\ s.term < MaxDistance
      /\ Improving(a) /\ Round(a) > 0 /\ Round(a) = mgm[a].term
      /\ m.from \in Neighbors(a) /\ Phase(m.from) >= Phase(a)
      /\ ComparedWith(a) \union {m.from} = Neighbors(a) /\ ~ Halts(s)
  BY <1>1, LastImproveFacts
<1>3. PICK w \in KnownViewsOver(Agents), y \in Messages : SentOk(a, s, w, y)
  BY <1>0, <1>2, SendOkEffect
<1>4. PICK v : v = Moved(s, view[a]) /\ v \in KnownViewsOver(Agents)
  <2>1. view[a] \in KnownViewsOver(Agents) /\ s.new_view \in KnownViewsOver(Agents)
    BY <1>0, <1>2, AgentTypes DEF MgmAgents
  <2>2. Moved(s, view[a]) \in KnownViewsOver(Agents)
    BY <2>1 DEF Moved
  <2>. QED
    BY <2>2
<1>5. /\ view'[a] = v
      /\ \A b \in Agents \ {a} : view'[b] = view[b] /\ out'[b] = out[b]
      /\ \A b \in Neighbors(a) : \A x : SentView(a, b, x)' <=> SentView(a, b, x) \/ x = v
  BY <1>0, <1>2, <1>4, OkSent
<1>. DEFINE g == [Advanced(s) EXCEPT !.changed = FALSE]
<1>6. /\ stop' = [stop EXCEPT ![a] = FALSE] /\ why'[a] = why[a]
      /\ why' \in [Agents -> {"", "distance", "stale", "overtaken", "end", "alone"}]
      /\ \A b \in Agents \ {a} : why'[b] = why[b]
      /\ g \in MgmAgents /\ Advanced(s) \in MgmAgents
      /\ Advanced(s).term = s.term + 1 /\ Advanced(s).can_move = s.can_move
  BY <1>2, <1>3 DEF SentOk
<1>7. /\ mgm' = [mgm EXCEPT ![a] = g]
      /\ counter' = [counter EXCEPT ![a] = 0]
      /\ agent_view' = [agent_view EXCEPT ![a] = Forgotten(a)]
      /\ mode' = [mode EXCEPT ![a] = "WAIT_OK"]
  BY <1>1, <1>2 DEF LastImprove, NotedAll
<1>8. g.term = s.term + 1 /\ g.can_move = s.can_move
  BY <1>6 DEF MgmAgents
<1>. HIDE DEF m, g
<1>9. /\ mgm'[a] = g /\ mode'[a] = "WAIT_OK" /\ agent_view'[a] = Forgotten(a)
  BY <1>0, <1>7 DEF TypeOK
<1>10. \A p \in Agents \ {a} : Same(p)
  BY <1>0, <1>6, <1>7 DEF TypeOK, Same
<1>11. ~ Improving(a)' /\ Round(a)' = Round(a) + 1 /\ Round(a) \in Nat
  <2>0. Round(a) \in Nat
    BY <1>0, PhaseFacts DEF IInv
  <2>1. ~ Halted(a)' /\ ~ Improving(a)'
    BY <1>2, <1>6, <1>9 DEF Halted, Improving
  <2>. QED
    BY <1>2, <1>8, <1>9, <2>0, <2>1 DEF Round
<1>12. Step(a) = 2 * Round(a) + 1 /\ Step(a)' = 2 * (Round(a) + 1)
  <2>1. Reads(a)' = Round(a) + 1 /\ Reads(a) = Round(a)
    BY <1>2, <1>11 DEF Reads
  <2>. QED
    BY <1>2, <1>11, <2>1 DEF Step
<1>13. ~ s.can_move => v = view[a]
  BY <1>4 DEF Moved
<1>14. \A b \in Agents : ~ Heard(a, b)'
  BY <1>9 DEF Heard, Forgotten, Cleared
<1>15. ASSUME NEW b \in Neighbors(a) PROVE ViewLink(a, b)' /\ ViewLink(b, a)'
  <2>0. b \in Agents \ {a} /\ ViewLink(a, b) /\ ViewLink(b, a) /\ a \in Neighbors(b)
    BY NeighborFacts DEF ViewInv
  <2>1. SameView(b) /\ view'[b] = view[b] /\ agent_view'[b] = agent_view[b]
    BY <1>5, <1>10, <2>0, SameViews DEF Same
  <2>2. Phase(b) >= Phase(a)
    BY <1>2 DEF Compared, ComparedWith
  <2>3. /\ Round(b) \in Nat /\ Round(b) > 0 /\ Reads(b) = Round(b)
        /\ \/ Improving(b) /\ Round(b) = Round(a)
           \/ ~ Improving(b) /\ Round(b) = Round(a) + 1
    BY <1>2, <2>2, LinkFacts DEF InStep
  <2>4. ~ Pending(a, b, "OK") /\ (Heard(b, a) => Round(a) >= Reads(b))
    BY <1>2, <2>3, LinkFacts DEF OkLink
  <2>5. \A x : SentView(a, b, x)' => x = v
    BY <1>5, <2>4, SentIsPending
  <2>6. CASE Improving(b) /\ Round(b) = Round(a)
    <3>1. Improving(b)' /\ Step(b)' = 2 * Round(a) + 1
      BY <2>1, <2>3, <2>6 DEF SameView, Step
    <3>2. ~ Past(b, a)'
      BY <1>11, <1>12, <3>1 DEF Past
    <3>3. ViewLink(a, b)'
      BY <1>11, <3>1, <3>2 DEF ViewLink
    <3>4. view[a] = view[b]
      BY <1>2, <2>0, <2>6 DEF ViewLink
    <3>5. ~ mgm'[a].can_move => view'[a] = view'[b]
      BY <1>5, <1>8, <1>9, <1>13, <2>1, <3>4
    <3>6. \A x : SentView(a, b, x)' => x = view'[a]
      BY <1>5, <2>5
    <3>7. ViewLink(b, a)'
      BY <1>11, <3>1, <3>5, <3>6 DEF ViewLink
    <3>. QED
      BY <3>3, <3>7
  <2>7. CASE ~ Improving(b) /\ Round(b) = Round(a) + 1
    <3>1. /\ ~ Improving(b)' /\ Step(b)' = 2 * (Round(a) + 1) /\ Step(b) = 2 * (Round(a) + 1)
          /\ mgm'[b].can_move = mgm[b].can_move
      BY <2>1, <2>3, <2>7 DEF SameView, Step
    <3>2. Past(b, a) /\ ~ Past(b, a)' /\ ~ Past(a, b)'
      BY <1>11, <1>12, <3>1 DEF Past
    <3>3. /\ ~ mgm[b].can_move => view[b] = view[a]
          /\ \A x : SentView(b, a, x) => x = view[b]
      BY <1>2, <2>0, <3>2 DEF ViewLink
    <3>4. ~ mgm'[a].can_move /\ ~ mgm'[b].can_move => view'[b] = view'[a]
      BY <1>5, <1>8, <1>9, <1>13, <2>1, <3>1, <3>3
    <3>5. ASSUME NEW x, Said(b, a, x)' PROVE x = view'[b]
      <4>1. SentView(b, a, x)'
        BY <1>14, <2>0, <3>5 DEF Said
      <4>2. SentView(b, a, x)
        <5>1. m = Message(a) /\ out'[b] = out[b]
          BY <1>5, <2>0 DEF m
        <5>. QED
          BY <1>0, <4>1, <5>1, ViewsToTaker
      <4>. QED
        BY <2>1, <3>3, <4>2
    <3>6. ASSUME NEW x, Said(a, b, x)' PROVE x = view'[a]
      <4>1. ~ Heard(b, a)
        BY <1>11, <2>3, <2>4, <2>7
      <4>2. ~ Heard(b, a)'
        BY <2>1, <4>1 DEF Heard, Cleared
      <4>. QED
        BY <1>5, <2>5, <3>6, <4>2 DEF Said
    <3>7. ViewLink(a, b)'
      BY <1>11, <3>1, <3>2, <3>4, <3>5 DEF ViewLink
    <3>8. ViewLink(b, a)'
      BY <1>11, <3>1, <3>2, <3>4, <3>6 DEF ViewLink
    <3>. QED
      BY <3>7, <3>8
  <2>. QED
    BY <2>3, <2>6, <2>7
<1>16. ASSUME NEW p \in Agents \ {a}, NEW q \in Neighbors(p) PROVE ViewLink(p, q)'
  <2>1. CASE q = a
    BY <1>15, <2>1, NeighborFacts
  <2>2. CASE q # a
    BY <1>0, <1>5, <1>10, <2>2, OtherViewLinks
  <2>. QED
    BY <2>1, <2>2
<1>17. \A p \in Agents : Improving(p)' => Neighbors(p) # {}
  <2>1. \A p \in Agents \ {a} : Improving(p)' <=> Improving(p)
    BY <1>10, SameFacts DEF SamePhase
  <2>. QED
    BY <1>11, <2>1 DEF ViewInv
<1>. QED
  BY <1>15, <1>16, <1>17 DEF ViewInv

(* Neighbors that read views and of which one has moved: it has told the   *)
(* other one, which has not moved.                                         *)
LEMMA MoverFacts ==
    ASSUME IInv, ViewInv, NEW a \in Agents, NEW b \in Neighbors(a),
           ~ Improving(a), ~ Improving(b), mgm[a].can_move
    PROVE  ~ mgm[b].can_move /\ Said(a, b, view[a])
<1>0. TypeOK /\ AgentInv(a) /\ AgentInv(b) /\ b \in Agents /\ a \in Neighbors(b)
  BY NeighborFacts DEF IInv
<1>1. Phase(a) = 2 * Round(a) /\ Phase(b) = 2 * Round(b)
      /\ Round(a) \in Nat /\ Round(b) \in Nat
  BY <1>0, PhaseFacts
<1>2. Phase(a) \notin {0, 2}
  BY <1>0 DEF AgentInv
<1>3. Phase(a) = Phase(b)
  BY <1>1, <1>2, LinkFacts DEF InStep
<1>4. ~ mgm[b].can_move
  <2>1. SUFFICES ASSUME mgm[b].can_move PROVE FALSE
    OBVIOUS
  <2>2. MoveLink(a, b) /\ MoveLink(b, a) /\ Phase(a) <= Phase(b) /\ Phase(b) <= Phase(a)
    BY <1>1, <1>3, LinkFacts
  <2>3. Beats(a, b) /\ Beats(b, a)
    BY <2>1, <2>2 DEF MoveLink
  <2>4. /\ mgm[a].improve \in Nat /\ mgm[b].improve \in Nat
        /\ a \in Nat /\ b \in Nat
    BY <1>0, AgentTypes, AgentFacts
  <2>. QED
    BY <2>3, <2>4 DEF Beats
<1>5. Round(a) = Reads(b) /\ Round(a) > 0
  <2>1. Round(a) = Round(b) /\ Round(a) > 0
    BY <1>1, <1>2, <1>3
  <2>. QED
    BY <2>1 DEF Reads
<1>6. Pending(a, b, "OK") \/ Heard(b, a)
  BY <1>0, <1>5, LinkFacts DEF OkLink
<1>7. PICK x : Said(a, b, x)
  BY <1>0, <1>6, SomethingSaid
<1>8. x = view[a]
  BY <1>0, <1>7 DEF ViewInv, ViewLink
<1>. QED
  BY <1>4, <1>7, <1>8

(* What an agent has read when the last view is in.                        *)
AllTold(a) ==
    /\ ~ Improving(a)
    /\ \A c \in Neighbors(a) :
          /\ Step(c) = IF Improving(c) THEN Step(a) + 1 ELSE Step(a)
          /\ \A x : Said(c, a, x) <=> x = Told(a)[c]

LEMMA TheLastViewTellsAll ==
    ASSUME IInv, IInv', NEW a \in Agents, LastOk(a)
    PROVE  AllTold(a) /\ \A c \in Neighbors(a) : Told(a)[c] \in KnownViewsOver(Agents)
<1>. DEFINE m == Message(a)
<1>0. TypeOK /\ Receives(a)
  BY DEF IInv, LastOk
<1>1. /\ Takes(a, m) /\ m.kind = "OK" /\ IsLast(a) /\ ~ Halted(a)
      /\ m = Message(a)
  BY ReceivesTakes DEF LastOk
<1>2. PICK x \in Messages : out' = [out EXCEPT ![a] = ToNeighbors(a, x)]
  BY LastOkEffect
<1>3. /\ mode'[a] = "WAIT_IMPROVE" /\ why' = why
      /\ agent_view'[a] = Told(a) /\ \A p \in Agents \ {a} : mode'[p] = mode[p]
  BY <1>0 DEF LastOk, TypeOK
<1>. HIDE DEF m
<1>4. ~ Improving(a) /\ m.from \in Neighbors(a)
      /\ ~ Heard(a, m.from) /\ Round(m.from) = Reads(a)
  BY <1>1, OkRead
<1>5. HeardFrom(a) \union {m.from} = Neighbors(a)
  BY <1>1, CountTheView
<1>6. \A c \in Agents : Told(a)[c] # Cleared => Told(a)[c] \in KnownViewsOver(Agents)
  BY <1>1, TheView
<1>7. \A c \in Agents : Told(a)[c] # Cleared <=> Heard(a, c) \/ c = m.from
  BY <1>1, TheView
<1>8. \A c \in Agents : Told(a)[c] = IF c = m.from THEN m.view ELSE agent_view[a][c]
  <2>1. agent_view[a] \in [Agents -> ViewsOver(Agents)] /\ m.from \in Agents
    BY <1>0, <1>4, NeighborFacts DEF TypeOK
  <2>. QED
    BY <2>1 DEF Told, m
<1>9. ASSUME NEW c \in Neighbors(a)
      PROVE  /\ Told(a)[c] \in KnownViewsOver(Agents)
             /\ Step(c) = IF Improving(c) THEN Step(a) + 1 ELSE Step(a)
             /\ \A y : Said(c, a, y) <=> y = Told(a)[c]
  <2>0. c \in Agents \ {a} /\ (c = m.from \/ Heard(a, c))
    BY <1>5, NeighborFacts DEF HeardFrom
  <2>1. Round(c) = Reads(a) /\ Round(c) > 0 /\ Round(a) \in Nat /\ Round(c) \in Nat
    <3>1. Round(c) = Reads(a)
      BY <1>4, <2>0, AllHeard
    <3>2. Reads(a) > 0 /\ Round(a) \in Nat /\ Round(c) \in Nat
      BY LinkFacts
    <3>. QED
      BY <3>1, <3>2
  <2>2. Step(c) = IF Improving(c) THEN Step(a) + 1 ELSE Step(a)
    <3>1. Reads(c) = Reads(a) /\ Reads(a) \in Nat
      BY <2>1 DEF Reads
    <3>. QED
      BY <1>4, <3>1 DEF Step
  <2>3. out'[c] = out[c]
    BY <1>0, <1>2, <2>0 DEF TypeOK
  <2>4. ~ Pending(c, a, "OK")'
    <3>1. mgm'[a].term = mgm[a].term /\ mgm'[c] = mgm[c]
      <4>1. PICK g \in MgmAgents : g.term = mgm[a].term /\ mgm' = [mgm EXCEPT ![a] = g]
        BY LastOkEffect
      <4>. QED
        BY <1>0, <2>0, <4>1 DEF TypeOK
    <3>2. Round(a)' = Round(a) /\ Round(c)' = Round(c)
      BY <1>3, <3>1 DEF Round, Halted
    <3>3. Reads(a)' = Reads(a)
      BY <3>2 DEF Reads
    <3>4. Improving(a)'
      BY <1>3 DEF Improving
    <3>5. OkLink(a, c)'
      <4>1. Link(a, c)'
        BY DEF IInv, Neighbors
      <4>. QED
        BY <4>1 DEF Link
    <3>6. Heard(a, c)'
      BY <3>4, <3>5 DEF OkLink
    <3>7. Round(c)' = Reads(a)' /\ ~ (Round(c)' > Reads(a)')
      BY <2>1, <3>2, <3>3
    <3>. QED
      BY <3>5, <3>6, <3>7 DEF OkLink
  <2>5. \A y : ~ SentView(c, a, y)'
    <3>1. SUFFICES ASSUME NEW y, SentView(c, a, y)' PROVE FALSE
      OBVIOUS
    <3>2. SentView(c, a, y) => Pending(c, a, "OK")
      BY SentIsPending
    <3>3. Pending(c, a, "OK")'
      BY <3>1 DEF SentView, Tells, Pending, Holds, IsFrom, Sends
    <3>. QED
      BY <2>4, <3>3
  <2>6. \A y : SentView(c, a, y) <=> Tells(m, c, y)
    <3>1. SUFFICES ASSUME NEW y PROVE SentView(c, a, y) <=> Tells(m, c, y)
      OBVIOUS
    <3>2. SentView(c, a, y) <=> SentView(c, a, y)' \/ Tells(m, c, y)
      BY <1>0, <1>1, <2>3, ViewsToTaker
    <3>. QED
      BY <2>5, <3>2
  <2>7. \A y : Said(c, a, y) <=> y = Told(a)[c]
    BY <1>1, <1>4, <1>8, <2>0, <2>6 DEF Said, Tells
  <2>8. Told(a)[c] \in KnownViewsOver(Agents)
    BY <1>6, <1>7, <2>0
  <2>. QED
    BY <2>2, <2>7, <2>8
<1>. QED
  BY <1>4, <1>9 DEF AllTold

(* view_compare finds any difference between two assignments.              *)
LEMMA ComparesEqual ==
    ASSUME NEW v \in KnownViewsOver(Agents), NEW w \in KnownViewsOver(Agents), Compare(v, w)
    PROVE  v = w
<1>1. \A r \in Resources : v[r] # Unknown /\ w[r] # Unknown
  <2>1. \A r \in Resources : v[r] \in Agents \union {Free} /\ w[r] \in Agents \union {Free}
    BY DEF KnownViewsOver
  <2>2. Unknown \notin Agents \union {Free}
    BY DEF Unknown, Free, Agents
  <2>. QED
    BY <2>1, <2>2
<1>2. \A r \in Resources : v[r] = w[r]
  BY <1>1 DEF Compare
<1>. QED
  BY <1>2 DEF KnownViewsOver

(* An agent that has moved keeps its view; another one takes over a view   *)
(* that differs from its own, if there is one.                             *)
AdoptsADifference(a) ==
    /\ mgm[a].can_move => Adopted(a) = view[a]
    /\ ~ mgm[a].can_move =>
          \/ Adopted(a) = view[a] /\ \A c \in Neighbors(a) : Told(a)[c] = view[a]
          \/ Adopted(a) # view[a] /\ \E c \in Neighbors(a) : Told(a)[c] = Adopted(a)

LEMMA AdoptionFacts ==
    ASSUME TypeOK, NEW a \in Agents,
           \A c \in Neighbors(a) : Told(a)[c] \in KnownViewsOver(Agents)
    PROVE  AdoptsADifference(a)
<1>1. view[a] \in KnownViewsOver(Agents)
  BY AgentTypes
<1>2. /\ DOMAIN NeighborList[a] = 1 .. Len(NeighborList[a]) /\ Len(NeighborList[a]) \in Nat
      /\ \A i \in DOMAIN NeighborList[a] : NeighborList[a][i] \in Neighbors(a)
      /\ \A c \in Neighbors(a) : \E i \in DOMAIN NeighborList[a] : NeighborList[a][i] = c
  BY NeighborFacts DEF Neighbors, ToSet
<1>3. CASE Adopts(a)
  <2>1. Differing(a) \subseteq Nat /\ Differing(a) # {}
    BY <1>2, <1>3 DEF Adopts, Differing
  <2>2. Min(Differing(a)) \in Differing(a)
    BY <2>1, LeastIndex
  <2>3. PICK c \in Neighbors(a) : /\ c = NeighborList[a][Min(Differing(a))]
                                  /\ ~ Compare(view[a], Told(a)[c])
    BY <1>2, <2>2 DEF Differing
  <2>4. Adopted(a) = Told(a)[c]
    BY <1>3, <2>3 DEF Adopted
  <2>5. Told(a)[c] # view[a]
    <3>1. Compare(view[a], view[a])
      BY DEF Compare
    <3>. QED
      BY <2>3, <3>1
  <2>6. ~ mgm[a].can_move
    BY <1>3 DEF Adopts
  <2>. QED
    BY <2>4, <2>5, <2>6 DEF AdoptsADifference
<1>4. CASE ~ Adopts(a)
  <2>1. Adopted(a) = view[a]
    BY <1>4 DEF Adopted
  <2>2. ASSUME ~ mgm[a].can_move, NEW c \in Neighbors(a) PROVE Told(a)[c] = view[a]
    <3>1. Differing(a) = {}
      BY <1>4, <2>2 DEF Adopts
    <3>2. Compare(view[a], Told(a)[c])
      BY <1>2, <3>1 DEF Differing
    <3>. QED
      BY <1>1, <3>2, ComparesEqual
  <2>. QED
    BY <2>1, <2>2 DEF AdoptsADifference
<1>. QED
  BY <1>3, <1>4

(* A neighbor that tells something else has moved, or knows of a move.     *)
LEMMA ToldFacts ==
    ASSUME IInv, ViewInv, NEW a \in Agents, AllTold(a), NEW c \in Neighbors(a)
    PROVE  /\ Said(c, a, Told(a)[c])
           /\ Improving(c) => Past(c, a)
           /\ ~ Improving(c) => Told(a)[c] = view[c]
           /\ ~ mgm[a].can_move => Told(a)[c] \in {view[a], view[c]}
           /\ ~ mgm[a].can_move /\ Told(a)[c] # view[a] /\ ~ Improving(c) => mgm[c].can_move
<1>1. ~ Improving(a) /\ Said(c, a, Told(a)[c]) /\ (Improving(c) => Past(c, a))
      /\ ViewLink(a, c)
  BY DEF AllTold, Past, ViewInv
<1>2. ~ Improving(c) => Told(a)[c] = view[c]
  BY <1>1 DEF ViewLink
<1>3. ~ mgm[a].can_move => Told(a)[c] \in {view[a], view[c]}
  BY <1>1, <1>2 DEF ViewLink
<1>4. ~ mgm[a].can_move /\ Told(a)[c] # view[a] /\ ~ Improving(c) => mgm[c].can_move
  BY <1>1, <1>2 DEF ViewLink
<1>. QED
  BY <1>1, <1>2, <1>3, <1>4

LEMMA NeighborPast ==
    ASSUME NEW a \in Agents, AllTold(a), NEW b \in Neighbors(a), NEW c \in Neighbors(a),
           Improving(b), ~ Improving(c)
    PROVE  Past(b, c)
BY DEF AllTold, Past

(* What an agent adopts is the view of every neighbor that improves.       *)
LEMMA AdoptedFromPast ==
    ASSUME IInv, ViewInv, Mutual, NEW a \in Agents, AllTold(a), AdoptsADifference(a),
           NEW b \in Neighbors(a), Improving(b)
    PROVE  view[b] = Adopted(a)
<1>0. ~ Improving(a) /\ Past(b, a) /\ ViewLink(a, b)
  BY ToldFacts DEF AllTold, ViewInv
<1>1. CASE mgm[a].can_move
  BY <1>0, <1>1 DEF ViewLink, AdoptsADifference
<1>2. CASE ~ mgm[a].can_move /\ Adopted(a) = view[a] /\ \A c \in Neighbors(a) : Told(a)[c] = view[a]
  <2>1. ASSUME Hears(a, view[b]) PROVE view[b] = view[a]
    <3>1. PICK c \in Neighbors(a) : Said(c, a, view[b])
      BY <2>1 DEF Hears
    <3>2. view[b] = Told(a)[c]
      BY <3>1 DEF AllTold
    <3>. QED
      BY <1>2, <3>2
  <2>2. view[b] = view[a] \/ Hears(a, view[b])
    BY <1>0 DEF ViewLink
  <2>. QED
    BY <1>2, <2>1, <2>2
<1>3. CASE ~ mgm[a].can_move /\ Adopted(a) # view[a]
  <2>1. PICK c \in Neighbors(a) : Told(a)[c] = Adopted(a)
    BY <1>3 DEF AdoptsADifference
  <2>2. Adopted(a) = view[c]
    BY <1>3, <2>1, ToldFacts
  <2>3. CASE c = b
    BY <2>2, <2>3
  <2>4. CASE c # b
    <3>1. c \in Neighbors(b) /\ b \in Neighbors(c) /\ b \in Agents /\ c \in Agents
      BY <2>4, MutualNeighbors, NeighborFacts
    <3>2. CASE Improving(c)
      <4>1. ViewLink(b, c)
        BY <3>1 DEF ViewInv
      <4>. QED
        BY <2>2, <3>2, <4>1 DEF ViewLink
    <3>3. CASE ~ Improving(c)
      <4>1. mgm[c].can_move
        BY <1>3, <2>1, <3>3, ToldFacts
      <4>2. Past(b, c) /\ ViewLink(c, b)
        BY <3>1, <3>3, NeighborPast DEF ViewInv
      <4>. QED
        BY <2>2, <3>3, <4>1, <4>2 DEF ViewLink
    <3>. QED
      BY <3>2, <3>3
  <2>. QED
    BY <2>3, <2>4
<1>. QED
  BY <1>1, <1>2, <1>3 DEF AdoptsADifference

(* A neighbor that reads views and has moved has the view adopted; one     *)
(* that has not will be told it.                                           *)
LEMMA AdoptedIsHeard ==
    ASSUME IInv, ViewInv, Mutual, NEW a \in Agents, AllTold(a), AdoptsADifference(a),
           NEW b \in Neighbors(a), ~ Improving(b)
    PROVE  /\ mgm[b].can_move => view[b] = Adopted(a)
           /\ ~ mgm[b].can_move =>
                 /\ view[b] = Adopted(a) \/ Hears(b, Adopted(a))
                 /\ \A x : Said(a, b, x) => x \in {view[b], Adopted(a)}
<1>0. /\ ~ Improving(a) /\ b \in Agents /\ a \in Neighbors(b)
      /\ ViewLink(a, b) /\ ViewLink(b, a) /\ Told(a)[b] = view[b]
  BY NeighborFacts, ToldFacts DEF AllTold, ViewInv
<1>1. ASSUME ~ mgm[a].can_move, Adopted(a) # view[a], Told(a)[b] # Adopted(a)
      PROVE  \E c \in Neighbors(a) : /\ c \in Agents /\ c \in Neighbors(b) /\ b \in Neighbors(c)
                                     /\ Adopted(a) = view[c]
                                     /\ Improving(c) => Past(c, b)
                                     /\ ~ Improving(c) => mgm[c].can_move
  <2>1. PICK c \in Neighbors(a) : Told(a)[c] = Adopted(a)
    BY <1>1 DEF AdoptsADifference
  <2>2. Adopted(a) = view[c] /\ (~ Improving(c) => mgm[c].can_move)
    BY <1>1, <2>1, ToldFacts
  <2>3. c # b
    BY <1>1, <2>1
  <2>4. c \in Neighbors(b) /\ b \in Neighbors(c) /\ c \in Agents
    BY <2>3, MutualNeighbors, NeighborFacts
  <2>5. Improving(c) => Past(c, b)
    BY NeighborPast
  <2>. QED
    BY <2>2, <2>4, <2>5
<1>2. CASE mgm[b].can_move
  <2>1. ~ mgm[a].can_move
    BY <1>0, <1>2, MoverFacts
  <2>2. CASE Adopted(a) = view[a]
    <3>1. Told(a)[b] = view[a]
      BY <2>1, <2>2 DEF AdoptsADifference
    <3>2. view[b] = Adopted(a)
      BY <1>0, <2>2, <3>1
    <3>. QED
      BY <1>2, <3>2
  <2>3. CASE Adopted(a) # view[a] /\ Told(a)[b] # Adopted(a)
    <3>1. PICK c \in Neighbors(a) : /\ c \in Agents /\ c \in Neighbors(b) /\ b \in Neighbors(c)
                                    /\ Adopted(a) = view[c]
                                    /\ Improving(c) => Past(c, b)
                                    /\ ~ Improving(c) => mgm[c].can_move
      BY <1>1, <2>1, <2>3
    <3>2. Improving(c)
      <4>1. SUFFICES ASSUME ~ Improving(c) PROVE FALSE
        OBVIOUS
      <4>2. ~ mgm[c].can_move
        BY <1>0, <1>2, <3>1, <4>1, MoverFacts
      <4>. QED
        BY <3>1, <4>1, <4>2
    <3>3. ViewLink(b, c)
      BY <1>0, <3>1 DEF ViewInv
    <3>4. view[c] = view[b]
      BY <1>2, <3>1, <3>2, <3>3 DEF ViewLink
    <3>. QED
      BY <1>2, <3>1, <3>4
  <2>4. CASE Told(a)[b] = Adopted(a)
    BY <1>0, <1>2, <2>4
  <2>. QED
    BY <2>2, <2>3, <2>4
<1>3. CASE ~ mgm[b].can_move
  <2>1. view[b] = Adopted(a) \/ Hears(b, Adopted(a))
    <3>1. CASE mgm[a].can_move
      <4>1. Said(a, b, view[a])
        BY <1>0, <3>1, MoverFacts
      <4>2. Adopted(a) = view[a]
        BY <3>1 DEF AdoptsADifference
      <4>. QED
        BY <1>0, <4>1, <4>2 DEF Hears
    <3>2. CASE ~ mgm[a].can_move
      <4>1. view[b] = view[a]
        BY <1>0, <1>3, <3>2 DEF ViewLink
      <4>2. CASE Adopted(a) # view[a]
        <5>1. PICK c \in Neighbors(a) : /\ c \in Agents /\ c \in Neighbors(b) /\ b \in Neighbors(c)
                                        /\ Adopted(a) = view[c]
                                        /\ Improving(c) => Past(c, b)
                                        /\ ~ Improving(c) => mgm[c].can_move
          BY <1>0, <1>1, <3>2, <4>1, <4>2
        <5>2. CASE Improving(c)
          <6>1. ViewLink(b, c)
            BY <1>0, <5>1 DEF ViewInv
          <6>2. view[c] = view[b] \/ Hears(b, view[c])
            BY <5>1, <5>2, <6>1 DEF ViewLink
          <6>. QED
            BY <5>1, <6>2
        <5>3. CASE ~ Improving(c)
          <6>1. Said(c, b, view[c])
            BY <1>0, <5>1, <5>3, MoverFacts
          <6>. QED
            BY <5>1, <6>1 DEF Hears
        <5>. QED
          BY <5>2, <5>3
      <4>. QED
        BY <4>1, <4>2
    <3>. QED
      BY <3>1, <3>2
  <2>2. ASSUME NEW x, Said(a, b, x) PROVE x \in {view[b], Adopted(a)}
    <3>1. x = view[a]
      BY <1>0, <2>2 DEF ViewLink
    <3>2. mgm[a].can_move => Adopted(a) = view[a]
      BY DEF AdoptsADifference
    <3>3. ~ mgm[a].can_move => view[b] = view[a]
      BY <1>0, <1>3 DEF ViewLink
    <3>. QED
      BY <3>1, <3>2, <3>3
  <2>. QED
    BY <1>3, <2>1, <2>2
<1>. QED
  BY <1>2, <1>3

LEMMA LastOkViews ==
    ASSUME IInv, IInv', ViewInv, Mutual, NEW a \in Agents, LastOk(a)
    PROVE  ViewInv'
<1>0. TypeOK /\ Receives(a) /\ Message(a).kind = "OK" /\ Neighbors(a) # {}
  <2>1. Receives(a) /\ Message(a).kind = "OK"
    BY DEF LastOk
  <2>2. Takes(a, Message(a))
    BY <2>1, ReceivesTakes
  <2>. QED
    BY <2>1, <2>2, OkRead DEF IInv
<1>1. AllTold(a) /\ AdoptsADifference(a) /\ ~ Improving(a)
  BY <1>0, TheLastViewTellsAll, AdoptionFacts DEF AllTold
<1>2. PICK g \in MgmAgents, x \in Messages :
          /\ g.term = mgm[a].term /\ x.kind = "IMPROVE"
          /\ mgm' = [mgm EXCEPT ![a] = g]
          /\ out' = [out EXCEPT ![a] = ToNeighbors(a, x)]
          /\ view' = [view EXCEPT ![a] = Adopted(a)]
  BY LastOkEffect
<1>3. PICK w : w = Adopted(a)
  OBVIOUS
<1>4. /\ view'[a] = w /\ mode'[a] = "WAIT_IMPROVE" /\ mgm'[a] = g
      /\ why' = why /\ mode' = [mode EXCEPT ![a] = "WAIT_IMPROVE"]
      /\ agent_view' = [agent_view EXCEPT ![a] = Told(a)]
      /\ counter' = [counter EXCEPT ![a] = 0] /\ stop' = stop
  BY <1>0, <1>2, <1>3 DEF TypeOK, LastOk
<1>5. \A p \in Agents \ {a} : Same(p) /\ view'[p] = view[p] /\ out'[p] = out[p]
  BY <1>0, <1>2, <1>4 DEF TypeOK, Same
<1>6. Improving(a)' /\ Step(a)' = Step(a) + 1 /\ Step(a) \in Nat
  <2>1. Improving(a)' /\ Reads(a)' = Reads(a)
    BY <1>2, <1>4 DEF Improving, Reads, Round, Halted
  <2>2. Reads(a) \in Nat
    <3>1. Round(a) \in Nat
      BY <1>0, PhaseFacts DEF IInv
    <3>. QED
      BY <3>1 DEF Reads
  <2>. QED
    BY <1>1, <2>1, <2>2 DEF Step
<1>7. ASSUME NEW b \in Neighbors(a), NEW y PROVE SentView(a, b, y)' <=> SentView(a, b, y)
  <2>1. ~ Tells(x, a, y)
    BY <1>2 DEF Tells
  <2>. QED
    BY <1>0, <1>2, <2>1, ViewsFromTaker
<1>8. ASSUME NEW b \in Neighbors(a) PROVE ViewLink(a, b)' /\ ViewLink(b, a)'
  <2>0. b \in Agents \ {a} /\ agent_view'[b] = agent_view[b] /\ view'[b] = view[b]
    BY <1>5, NeighborFacts DEF Same
  <2>1. SameView(b) /\ \A y : Hears(b, y) => Hears(b, y)'
    BY <1>0, <1>5, <1>7, <2>0, OtherViewLinks
  <2>2. Step(b) = IF Improving(b) THEN Step(a) + 1 ELSE Step(a)
    BY <1>1 DEF AllTold
  <2>3. \A y : Said(a, b, y)' <=> Said(a, b, y)
    BY <1>7, <2>0 DEF Said, Heard, Cleared
  <2>4. /\ Improving(b)' <=> Improving(b)
        /\ Step(b)' = Step(b)
        /\ ~ Improving(b) => mgm'[b].can_move = mgm[b].can_move
    BY <2>1 DEF SameView
  <2>5. ~ Past(b, a)' /\ (Past(a, b)' => ~ Improving(b))
    BY <1>6, <2>2, <2>4 DEF Past
  <2>6. CASE Improving(b)
    <3>1. view'[b] = view'[a]
      BY <1>1, <1>3, <1>4, <2>0, <2>6, AdoptedFromPast
    <3>. QED
      BY <1>6, <2>4, <2>5, <2>6, <3>1 DEF ViewLink
  <2>7. CASE ~ Improving(b)
    <3>1. /\ mgm[b].can_move => view[b] = w
          /\ ~ mgm[b].can_move =>
                /\ view[b] = w \/ Hears(b, w)
                /\ \A y : Said(a, b, y) => y \in {view[b], w}
      BY <1>1, <1>3, <2>7, AdoptedIsHeard
    <3>2. view'[a] = view'[b] \/ (~ mgm'[b].can_move /\ Hears(b, w)')
      BY <1>4, <2>0, <2>1, <2>4, <2>7, <3>1
    <3>3. Hears(b, w)' => Hears(b, view[a])'
      BY <1>4 DEF Hears, Said, SentView
    <3>4. \A y : Said(a, b, y)' /\ ~ mgm'[b].can_move => y \in {view'[b], view'[a]}
      BY <1>4, <2>0, <2>3, <2>4, <2>7, <3>1
    <3>5. ViewLink(a, b)'
      BY <1>6, <2>4, <2>5, <2>7 DEF ViewLink
    <3>6. ViewLink(b, a)'
      BY <1>6, <2>4, <2>7, <3>2, <3>3, <3>4 DEF ViewLink
    <3>. QED
      BY <3>5, <3>6
  <2>. QED
    BY <2>6, <2>7
<1>9. ASSUME NEW p \in Agents \ {a}, NEW q \in Neighbors(p) PROVE ViewLink(p, q)'
  <2>1. CASE q = a
    BY <1>8, <2>1, NeighborFacts
  <2>2. CASE q # a
    BY <1>0, <1>5, <1>7, <2>2, OtherViewLinks
  <2>. QED
    BY <2>1, <2>2
<1>10. \A p \in Agents : Improving(p)' => Neighbors(p) # {}
  <2>1. \A p \in Agents \ {a} : Improving(p)' <=> Improving(p)
    BY <1>5, SameFacts DEF SamePhase
  <2>. QED
    BY <1>0, <2>1 DEF ViewInv
<1>. QED
  BY <1>8, <1>9, <1>10 DEF ViewInv

-----------------------------------------------------------------------------
LEMMA InitViews == Init => ViewInv
<1>1. SUFFICES ASSUME Init PROVE ViewInv
  OBVIOUS
<1>2. PICK v \in InitialViews :
          /\ view = [a \in Agents |-> v]
          /\ \A a \in Agents : mgm[a].term = 0
  <2>1. PICK v \in InitialViews :
            /\ view = [a \in Agents |-> v]
            /\ mgm = [a \in Agents |->
                  [term |-> 0, can_move |-> FALSE, eval |-> "finite", improve |-> 0,
                   new_view |-> v, consistent |-> TRUE, stale |-> FALSE, changed |-> TRUE]]
    BY <1>1 DEF Init
  <2>2. \A a \in Agents : mgm[a].term = 0
    BY <2>1
  <2>. QED
    BY <2>1, <2>2
<1>3. \A a \in Agents : /\ ~ Improving(a) /\ queue[a] = <<>> /\ out[a] = <<>> /\ view[a] = v
                        /\ \A b \in Agents : ~ Heard(a, b)
                        /\ Round(a) = 0
  BY <1>1, <1>2 DEF Init, Improving, Heard, Round, Halted
<1>4. ASSUME NEW a \in Agents, NEW b \in Neighbors(a) PROVE ViewLink(a, b)
  <2>1. b \in Agents
    BY NeighborFacts
  <2>2. \A x : ~ Said(b, a, x)
    BY <1>3, <2>1 DEF Said, SentView
  <2>3. Step(a) = 2 /\ Step(b) = 2
    BY <1>3, <2>1 DEF Step, Reads
  <2>. QED
    BY <1>3, <2>1, <2>2, <2>3 DEF ViewLink, Past
<1>. QED
  BY <1>3, <1>4 DEF ViewInv

LEMMA ViewsStep ==
    ASSUME Mutual, IInv, IInv', ViewInv, [Next]_vars
    PROVE  ViewInv'
<1>1. ASSUME NEW a \in Agents, AgentStep(a) PROVE ViewInv'
  <2>1. CASE LastImprove(a)
    BY <2>1, LastImproveHaltsViews, LastImproveGoesOnViews
  <2>2. CASE Start(a)
    BY <2>2, StartHaltsViews, StartGoesOnViews
  <2>3. CASE LastOk(a)
    BY <2>3, LastOkViews
  <2>. QED
    BY <1>1, <2>1, <2>2, <2>3, OkButNotLastViews, ImproveButNotLastViews,
       EndViews, StartAloneViews, SendNextViews, RegionViews DEF AgentStep
<1>2. CASE MainStep \/ SendKill \/ Terminating \/ UNCHANGED vars
  BY <1>2, MainViews
<1>. QED
  BY <1>1, <1>2 DEF Next

LEMMA ViewsInvariance ==
    ASSUME Mutual
    PROVE  Spec => [](IInv /\ ViewInv)
<1>1. Init => IInv /\ ViewInv
  BY InitHolds, InitViews
<1>2. IInv /\ ViewInv /\ [Next]_vars => (IInv /\ ViewInv)'
  <2>1. SUFFICES ASSUME IInv, ViewInv, [Next]_vars PROVE IInv' /\ ViewInv'
    OBVIOUS
  <2>2. IInv'
    BY <2>1, StepHolds
  <2>. QED
    BY <2>1, <2>2, ViewsStep
<1>. QED
  BY <1>1, <1>2, PTL DEF Spec

(* The views that an agent has read determine which one it adopts: agents  *)
(* that all have constraints with each other have the same view while they *)
(* compute and compare their improvements (mgm.c, the last MGM_OK of a     *)
(* round), though only one of them has moved and no one says which.        *)
THEOREM AgentsImproveOneView ==
    ASSUME Mutual
    PROVE  Spec => []ImprovingTheSameView
<1>1. ASSUME IInv, ViewInv, NEW a \in Agents, NEW b \in Agents,
             InImprovePhase(a), InImprovePhase(b)
      PROVE  view[a] = view[b]
  <2>1. Improving(a) /\ Improving(b)
    BY <1>1 DEF InImprovePhase, Improving
  <2>2. Neighbors(a) # {} /\ Neighbors(b) # {}
    BY <1>1, <2>1 DEF ViewInv
  <2>3. CASE a = b
    BY <2>3
  <2>4. CASE a # b
    <3>1. b \in Neighbors(a)
      BY <2>2, <2>4 DEF Mutual
    <3>. QED
      BY <1>1, <2>1, <3>1 DEF ViewInv, ViewLink
  <2>. QED
    BY <2>3, <2>4
<1>2. IInv /\ ViewInv => ImprovingTheSameView
  BY <1>1 DEF ImprovingTheSameView
<1>. QED
  BY <1>2, ViewsInvariance, PTL

-----------------------------------------------------------------------------
(* What the rounds of agents with neighbors amount to.  An agent may move  *)
(* if it has found an improvement of its view.  It stops because of the    *)
(* distance, or when it has compared itself with all its neighbors and     *)
(* nobody has found an improvement, or, overtaken, in the first round.     *)
SearchInv(a) ==
    /\ mgm[a].can_move => mgm[a].improve > 0
    /\ Improving(a) /\ mgm[a].can_move => mgm[a].new_view \in Reassignments(a, view[a])
    /\ Phase(a) = 0 => ~ mgm[a].stale

HaltInv(a) ==
    Halted(a) =>
      \/ Phase(a) = 0 /\ why[a] = "distance" /\ MaxDistance = 1
      \/ Phase(a) = 1 /\ why[a] = "overtaken"
      \/ /\ Improving(a) /\ Round(a) > 0
         /\ \A b \in Neighbors(a) : Compared(a, b)
         /\ \/ why[a] = "distance" /\ Round(a) + 1 = MaxDistance
            \/ why[a] = "stale" /\ mgm[a].stale /\ mgm[a].improve = 0

(* An agent that calls the round stale has seen no improvement, and before *)
(* the first moves all views are the initial one.                          *)
StaleLink(a, b) == mgm[a].stale /\ Compared(a, b) => mgm[b].improve = 0
FirstLink(a, b) == Phase(a) <= 2 /\ Phase(b) <= 2 => view[b] = view[a]

RoundInv ==
    \A a \in Agents : Neighbors(a) # {} =>
        /\ SearchInv(a) /\ HaltInv(a)
        /\ \A b \in Neighbors(a) : StaleLink(a, b) /\ FirstLink(a, b)

LEMMA RoundFacts ==
    ASSUME RoundInv, NEW a \in Agents, NEW b \in Neighbors(a)
    PROVE  /\ SearchInv(a) /\ HaltInv(a) /\ SearchInv(b) /\ HaltInv(b)
           /\ StaleLink(a, b) /\ FirstLink(a, b) /\ StaleLink(b, a) /\ FirstLink(b, a)
<1>1. b \in Agents /\ a \in Neighbors(b) /\ Neighbors(a) # {} /\ Neighbors(b) # {}
  BY NeighborFacts
<1>. QED
  BY <1>1 DEF RoundInv

(* Agents that go on with what they have.                                  *)
SameRound(a) ==
    /\ SamePhase(a) /\ view'[a] = view[a] /\ mgm'[a] = mgm[a]
    /\ Halted(a)' <=> Halted(a)
    /\ Halted(a) => why'[a] = why[a]

LEMMA SameRounds ==
    ASSUME NEW a, Same(a), view'[a] = view[a]
    PROVE  SameRound(a)
<1>1. SamePhase(a) /\ (Halted(a)' <=> Halted(a))
  BY SameFacts
<1>. QED
  BY <1>1 DEF SameRound, Same

LEMMA AgentRoundKept ==
    ASSUME NEW a, SameRound(a), SearchInv(a), HaltInv(a),
           \A b \in Neighbors(a) : Compared(a, b) => Compared(a, b)'
    PROVE  SearchInv(a)' /\ HaltInv(a)'
<1>1. SearchInv(a)'
  BY DEF SearchInv, SameRound, SamePhase
<1>2. HaltInv(a)'
  BY DEF HaltInv, SameRound, SamePhase
<1>. QED
  BY <1>1, <1>2

LEMMA RoundLinkKept ==
    ASSUME NEW a, NEW b, SameRound(a), SameRound(b), StaleLink(a, b), FirstLink(a, b),
           Compared(a, b)' => Compared(a, b)
    PROVE  StaleLink(a, b)' /\ FirstLink(a, b)'
<1>1. StaleLink(a, b)'
  BY DEF StaleLink, SameRound
<1>2. FirstLink(a, b)'
  BY DEF FirstLink, SameRound, SamePhase
<1>. QED
  BY <1>1, <1>2

LEMMA QuietRounds ==
    ASSUME IInv, RoundInv,
           \A p \in Agents : Neighbors(p) # {} => SameRound(p),
           \A p \in Agents : \A q \in Neighbors(p) :
              Pending(q, p, "IMPROVE")' <=> Pending(q, p, "IMPROVE")
    PROVE  RoundInv'
<1>1. ASSUME NEW p \in Agents, NEW q \in Neighbors(p)
      PROVE  /\ SameRound(p) /\ SameRound(q)
             /\ Compared(p, q)' <=> Compared(p, q)
  <2>1. q \in Agents /\ Neighbors(p) # {} /\ Neighbors(q) # {}
    BY NeighborFacts
  <2>2. SameRound(p) /\ SameRound(q)
    BY <2>1
  <2>. QED
    BY <2>2 DEF Compared, SameRound, SamePhase
<1>2. ASSUME NEW p \in Agents, Neighbors(p) # {} PROVE SearchInv(p)' /\ HaltInv(p)'
  <2>1. SameRound(p) /\ SearchInv(p) /\ HaltInv(p)
    BY <1>2 DEF RoundInv
  <2>. QED
    BY <1>1, <2>1, AgentRoundKept
<1>3. ASSUME NEW p \in Agents, NEW q \in Neighbors(p) PROVE StaleLink(p, q)' /\ FirstLink(p, q)'
  BY <1>1, RoundFacts, RoundLinkKept
<1>. QED
  BY <1>2, <1>3 DEF RoundInv
-----------------------------------------------------------------------------
(* Steps of main, of the signal handler and of an agent that sends, enters *)
(* or leaves the region.                                                   *)
LEMMA SendNextPending ==
    ASSUME IInv, NEW a \in Agents, SendNext(a), NEW p \in Agents, NEW q \in Neighbors(p)
    PROVE  SamePending(q, p)
<1>0. TypeOK
  BY DEF IInv
<1>1. PICK c \in Neighbors(a), m \in Messages :
              /\ c \in Agents /\ m.from = a /\ m.kind \in {"OK", "IMPROVE", "END"}
              /\ Truthful(m)
              /\ queue' = [queue EXCEPT ![c] = Append(@, m)]
              /\ out' = [out EXCEPT ![a] = out'[a]]
              /\ out'[a] \in Seq([to : Agents, msg : Messages])
              /\ \A i \in DOMAIN out'[a] : i + 1 \in DOMAIN out[a] /\ out'[a][i] = out[a][i + 1]
              /\ \A i, j \in DOMAIN out'[a] : out'[a][i].to = out'[a][j].to => i = j
              /\ \A b, k : Sends(out[a], b, k) <=> (c = b /\ m.kind = k) \/ Sends(out'[a], b, k)
              /\ \A k : ~ Sends(out'[a], c, k)
  BY SendNextFacts
<1>2. \A b, k : Holds(queue'[p], b, k) <=> Holds(queue[p], b, k) \/ (p = c /\ IsFrom(m, b, k))
  BY <1>0, <1>1, Posted
<1>3. \A b \in Agents \ {a} : out'[b] = out[b]
  BY <1>0, <1>1 DEF TypeOK
<1>4. q \in Agents
  BY NeighborFacts
<1>5. CASE q = a
  BY <1>1, <1>2, <1>5 DEF SamePending, Pending, IsFrom
<1>6. CASE q # a
  BY <1>1, <1>2, <1>3, <1>4, <1>6 DEF SamePending, Pending, IsFrom
<1>. QED
  BY <1>5, <1>6

LEMMA UnreadFacts ==
    ASSUME IInv,
           \/ MainStep \/ SendKill \/ Terminating \/ UNCHANGED vars
           \/ \E a \in Agents : \/ SendNext(a)
                                \/ EnterRegion(a) \/ LeaveRegion(a) \/ PassBarrier(a)
    PROVE  /\ UNCHANGED <<view, agent_view, mgm, mode, counter, stop, why>>
           /\ \A p \in Agents : \A q \in Neighbors(p) : SamePending(q, p)
<1>1. CASE SendStart
  <2>1. main.next \in Agents
    BY DEF IInv, TypeOK
  <2>2. [kind |-> "START", from |-> Null] \in ControlMessages
        /\ [kind |-> "START", from |-> Null] \in Messages
    BY DEF ControlMessages, Messages
  <2>3. UNCHANGED <<view, agent_view, mgm, mode, counter, stop, why, out>>
        /\ \A p \in Agents : Same(p)
    BY <1>1 DEF SendStart, Same
  <2>. QED
    BY <1>1, <2>1, <2>2, <2>3, ControlPosted DEF SendStart
<1>2. CASE SendKill
  <2>1. kill \in Agents
    <3>1. kill \in 1 .. N + 1 /\ kill <= N /\ N \in Nat
      BY <1>2, AgentFacts DEF SendKill, IInv, TypeOK
    <3>. QED
      BY <3>1 DEF Agents
  <2>2. [kind |-> "END", from |-> Null] \in ControlMessages
    BY DEF ControlMessages
  <2>3. UNCHANGED <<view, agent_view, mgm, mode, counter, stop, why, out>>
        /\ \A p \in Agents : Same(p)
    BY <1>2 DEF SendKill, Same
  <2>. QED
    BY <1>2, <2>1, <2>2, <2>3, ControlPosted DEF SendKill
<1>3. CASE \/ Join \/ MergeViews \/ Terminating \/ UNCHANGED vars
           \/ \E a \in Agents : EnterRegion(a) \/ LeaveRegion(a) \/ PassBarrier(a)
  <2>1. UNCHANGED agentVars
    BY <1>3 DEF Join, MergeViews, Terminating, vars, EnterRegion, LeaveRegion, PassBarrier
  <2>2. UNCHANGED <<queue, view, agent_view, mgm, mode, counter, stop, out, why>>
    BY <2>1 DEF agentVars
  <2>. QED
    BY <2>2 DEF SamePending, Pending
<1>4. CASE \E a \in Agents : SendNext(a)
  <2>1. PICK a \in Agents : SendNext(a)
    BY <1>4
  <2>2. UNCHANGED <<view, agent_view, mgm, mode, counter, stop, why>>
    BY <2>1 DEF SendNext
  <2>. QED
    BY <2>1, <2>2, SendNextPending
<1>. QED
  BY <1>1, <1>2, <1>3, <1>4 DEF MainStep

LEMMA UnreadRounds ==
    ASSUME IInv, RoundInv,
           \/ MainStep \/ SendKill \/ Terminating \/ UNCHANGED vars
           \/ \E a \in Agents : \/ SendNext(a)
                                \/ EnterRegion(a) \/ LeaveRegion(a) \/ PassBarrier(a)
    PROVE  RoundInv'
<1>1. /\ UNCHANGED <<view, agent_view, mgm, mode, counter, stop, why>>
      /\ \A p \in Agents : \A q \in Neighbors(p) : SamePending(q, p)
  BY UnreadFacts
<1>2. \A p \in Agents : Same(p) /\ view'[p] = view[p]
  BY <1>1 DEF Same
<1>3. \A p \in Agents : SameRound(p)
  BY <1>2, SameRounds
<1>. QED
  BY <1>1, <1>3, QuietRounds DEF SamePending, Phases

-----------------------------------------------------------------------------
(* An agent that takes a message: only its own links have to be looked at. *)
LEMMA RoundTaker ==
    ASSUME IInv, RoundInv, NEW a \in Agents, NEW m, Takes(a, m), NEW k, Answers(a, k),
           \A p \in Agents \ {a} : Same(p) /\ view'[p] = view[p],
           \A b \in Neighbors(a) :
              /\ Compared(b, a)' <=> Compared(b, a)
              /\ Compared(b, a) => mgm'[a].improve = mgm[a].improve
              /\ StaleLink(a, b)' /\ FirstLink(a, b)',
           SearchInv(a)' /\ HaltInv(a)'
    PROVE  RoundInv'
<1>1. ASSUME NEW p \in Agents \ {a}, NEW q \in Neighbors(p) \ {a}
      PROVE  Compared(p, q)' <=> Compared(p, q)
  <2>1. q \in Agents \ {a} /\ SamePhase(p) /\ SamePhase(q)
    BY NeighborFacts, SameFacts
  <2>2. SamePending(q, p)
    BY <2>1, PendingElsewhere
  <2>. QED
    BY <2>1, <2>2, ComparedKept
<1>2. ASSUME NEW p \in Agents \ {a}, Neighbors(p) # {} PROVE SearchInv(p)' /\ HaltInv(p)'
  <2>1. SameRound(p) /\ SearchInv(p) /\ HaltInv(p)
    BY <1>2, SameRounds DEF RoundInv
  <2>2. ASSUME NEW q \in Neighbors(p), Compared(p, q) PROVE Compared(p, q)'
    <3>1. CASE q = a
      BY <2>2, <3>1, NeighborFacts
    <3>. QED
      BY <1>1, <2>2, <3>1
  <2>. QED
    BY <2>1, <2>2, AgentRoundKept
<1>3. ASSUME NEW p \in Agents \ {a}, NEW q \in Neighbors(p)
      PROVE  StaleLink(p, q)' /\ FirstLink(p, q)'
  <2>1. StaleLink(p, q) /\ FirstLink(p, q) /\ SameRound(p) /\ q \in Agents
    BY RoundFacts, SameRounds, NeighborFacts
  <2>2. CASE q = a
    <3>1. p \in Neighbors(a)
      BY <2>2, NeighborFacts
    <3>2. FirstLink(a, p)' /\ (Compared(p, a)' <=> Compared(p, a))
          /\ (Compared(p, a) => mgm'[a].improve = mgm[a].improve)
      BY <3>1
    <3>3. StaleLink(p, a)'
      BY <2>1, <2>2, <3>2 DEF StaleLink, SameRound
    <3>4. FirstLink(p, a)'
      BY <3>2 DEF FirstLink
    <3>. QED
      BY <2>2, <3>3, <3>4
  <2>3. CASE q # a
    <3>1. SameRound(q)
      BY <2>1, <2>3, SameRounds
    <3>. QED
      BY <1>1, <2>1, <2>3, <3>1, RoundLinkKept
  <2>. QED
    BY <2>2, <2>3
<1>. QED
  BY <1>2, <1>3 DEF RoundInv

(* Whatever it is, it makes the agent no wiser of its neighbors' results   *)
(* if it is no improvement and the agent stays in its phase.               *)
LEMMA QuietTaker ==
    ASSUME IInv, RoundInv, NEW a \in Agents, Receives(a), Message(a).kind # "IMPROVE",
           out' = out, \A p \in Agents \ {a} : Same(p) /\ view'[p] = view[p],
           Neighbors(a) # {} => SameRound(a)
    PROVE  RoundInv'
<1>0. PICK m : m = Message(a)
  OBVIOUS
<1>1. /\ Takes(a, m) /\ m.kind # "IMPROVE" /\ out[a] = <<>> /\ TypeOK /\ MailInv(a)
  BY <1>0, ReceivesTakes DEF IInv
<1>2. Answers(a, "")
  BY <1>1, Silence
<1>3. ASSUME NEW p \in Agents, NEW q \in Neighbors(p)
      PROVE  Pending(q, p, "IMPROVE")' <=> Pending(q, p, "IMPROVE")
  <2>0. q \in Agents /\ p # q /\ p \in Neighbors(q)
    BY NeighborFacts
  <2>1. CASE p = a
    <3>1. \A j \in Phases : Pending(q, a, j)' <=> Pending(q, a, j) /\ ~ IsFrom(m, q, j)
      BY <1>1, <1>2, <2>1, PendingToTaker
    <3>2. ~ IsFrom(m, q, "IMPROVE")
      BY <1>1 DEF IsFrom
    <3>. QED
      BY <2>1, <3>1, <3>2 DEF Phases
  <2>2. CASE q = a
    <3>1. SamePending(a, p)
      BY <1>1, <1>2, <2>0, <2>2, PendingFromSilent
    <3>. QED
      BY <2>2, <3>1 DEF SamePending, Phases
  <2>3. CASE p # a /\ q # a
    <3>1. SamePending(q, p)
      BY <1>1, <1>2, <2>0, <2>3, PendingElsewhere
    <3>. QED
      BY <3>1 DEF SamePending, Phases
  <2>. QED
    BY <2>1, <2>2, <2>3
<1>4. \A p \in Agents : Neighbors(p) # {} => SameRound(p)
  BY SameRounds
<1>. QED
  BY <1>3, <1>4, QuietRounds

LEMMA QuietReaderRounds ==
    ASSUME IInv, RoundInv, NEW a \in Agents, OkButNotLast(a) \/ End(a) \/ StartAlone(a)
    PROVE  RoundInv'
<1>0. TypeOK
  BY DEF IInv
<1>1. CASE OkButNotLast(a)
  <2>1. /\ Receives(a) /\ Message(a).kind = "OK" /\ out' = out
        /\ counter' = [counter EXCEPT ![a] = Counted(a)]
        /\ agent_view' = [agent_view EXCEPT ![a] = Told(a)]
        /\ UNCHANGED <<view, mgm, mode, stop, why>>
    BY <1>1 DEF OkButNotLast
  <2>2. \A p \in Agents \ {a} : Same(p) /\ view'[p] = view[p]
    BY <1>0, <2>1 DEF TypeOK, Same
  <2>3. Round(a)' = Round(a) /\ (Halted(a)' <=> Halted(a))
    BY <2>1 DEF Round, Halted
  <2>4. SameRound(a)
    BY <2>1, <2>3, PhaseKept DEF SameRound
  <2>. QED
    BY <2>1, <2>2, <2>4, QuietTaker
<1>2. CASE End(a)
  <2>1. /\ Receives(a) /\ Message(a).kind = "END" /\ ~ Halted(a)
        /\ UNCHANGED <<view, agent_view, mgm, mode, counter, out>>
        /\ stop' = [stop EXCEPT ![a] = TRUE] /\ why' = [why EXCEPT ![a] = "end"]
    BY <1>2, ReceivesTakes DEF End
  <2>2. \A p \in Agents \ {a} : Same(p) /\ view'[p] = view[p]
    BY <1>0, <2>1 DEF TypeOK, Same
  <2>3. ~ Halted(a)'
    <3>1. why'[a] = "end"
      BY <1>0, <2>1 DEF TypeOK
    <3>. QED
      BY <3>1 DEF Halted
  <2>4. Round(a)' = Round(a)
    BY <2>1, <2>3 DEF Round
  <2>5. SameRound(a)
    BY <2>1, <2>3, <2>4, PhaseKept DEF SameRound
  <2>. QED
    BY <2>1, <2>2, <2>5, QuietTaker
<1>3. CASE StartAlone(a)
  <2>1. /\ Receives(a) /\ Message(a).kind = "START" /\ out' = out /\ Neighbors(a) = {}
        /\ UNCHANGED <<agent_view, mode, counter>>
        /\ stop' = [stop EXCEPT ![a] = TRUE] /\ why' = [why EXCEPT ![a] = "alone"]
    BY <1>3, NeighborFacts DEF StartAlone
  <2>2. PICK o \in Improvements(a, mgm[a], view[a]) :
            /\ mgm' = [mgm EXCEPT ![a] = Improved(@, o)]
            /\ view' = [view EXCEPT ![a] = o.new_view]
    BY <1>3 DEF StartAlone
  <2>3. \A p \in Agents \ {a} : Same(p) /\ view'[p] = view[p]
    BY <1>0, <2>1, <2>2 DEF TypeOK, Same
  <2>. QED
    BY <2>1, <2>3, QuietTaker
<1>. QED
  BY <1>1, <1>2, <1>3
-----------------------------------------------------------------------------
LEMMA Positive ==
    /\ \A r \in Nat : r > 0 => ~ (2 * r + 1 <= 2) /\ 2 * r + 1 # 0
    /\ \A i \in Nat : ~ (i > 0) => i = 0
OBVIOUS

(* An agent that compares itself with one more neighbor.                   *)
LEMMA NotedRound ==
    ASSUME IInv, RoundInv, NEW a \in Agents, NEW m, Takes(a, m), m.kind = "IMPROVE",
           m = Message(a), ~ Halted(a), out[a] = <<>>,
           Answers(a, "") \/ Answers(a, "END"),
           \A p \in Agents \ {a} : Same(p) /\ view'[p] = view[p],
           SamePhase(a), agent_view' = agent_view, view'[a] = view[a],
           mgm'[a].improve = mgm[a].improve, mgm'[a].new_view = mgm[a].new_view,
           mgm'[a].can_move => mgm[a].can_move /\ Beats(a, m.from),
           mgm'[a].stale => mgm[a].stale /\ ~ (m.improve > 0)
    PROVE  /\ SearchInv(a)' /\ (HaltInv(a)' => RoundInv')
           /\ ComparedWith(a)' = ComparedWith(a) \union {m.from}
<1>1. /\ Improving(a) /\ m.from \in Neighbors(a) /\ Round(a) > 0
      /\ m.improve = mgm[m.from].improve
  BY ImproveRead
<1>2. /\ m.from \in Agents \ {a} /\ m.from \in Agents
      /\ mgm[m.from].improve \in Nat /\ mgm'[m.from] = mgm[m.from]
      /\ Round(a) \in Nat /\ Phase(a) = 2 * Round(a) + 1
  <2>1. m.from \in Agents /\ m.from # a
    BY <1>1, NeighborFacts
  <2>2. mgm[m.from].improve \in Nat
    BY <2>1, AgentTypes DEF IInv
  <2>3. Round(a) \in Nat /\ Phase(a) = 2 * Round(a) + 1
    BY <1>1, PhaseFacts DEF IInv
  <2>. QED
    BY <2>1, <2>2, <2>3 DEF Same
<1>3. ~ (Phase(a) <= 2) /\ Phase(a) # 0 /\ Neighbors(a) # {}
  <2>1. ~ (Phase(a) <= 2) /\ Phase(a) # 0
    BY <1>1, <1>2, Positive
  <2>. QED
    BY <1>1, <2>1
<1>4. SearchInv(a)'
  <2>1. SearchInv(a)
    BY <1>3 DEF RoundInv
  <2>2. Phase(a)' # 0
    BY <1>3 DEF SamePhase
  <2>. QED
    BY <1>1, <2>1, <2>2 DEF SearchInv, SamePhase
<1>5. \A b : Heard(a, b)' <=> Heard(a, b)
  BY DEF Heard, Cleared
<1>6. /\ \A b \in Neighbors(a) : Compared(b, a)' <=> Compared(b, a)
      /\ ComparedWith(a)' = ComparedWith(a) \union {m.from}
  <2>1. \A p \in Agents \ {a} : Same(p)
    OBVIOUS
  <2>. QED
    BY <1>5, <2>1, LinksAfterImprove
<1>7. ASSUME NEW b \in Neighbors(a) PROVE StaleLink(a, b)' /\ FirstLink(a, b)'
  <2>0. b \in Agents \ {a} /\ StaleLink(a, b)
    BY NeighborFacts, RoundFacts
  <2>1. FirstLink(a, b)'
    <3>1. Phase(a)' = Phase(a)
      BY DEF SamePhase
    <3>. QED
      BY <1>3, <3>1 DEF FirstLink
  <2>2. Compared(a, b)' => Compared(a, b) \/ b = m.from
    BY <1>6 DEF ComparedWith
  <2>3. StaleLink(a, b)'
    <3>1. CASE b = m.from
      <4>1. mgm'[a].stale => mgm[m.from].improve = 0
        BY <1>1, <1>2, Positive
      <4>. QED
        BY <1>2, <3>1, <4>1 DEF StaleLink
    <3>2. CASE b # m.from
      BY <2>0, <2>2, <3>2 DEF StaleLink, Same
    <3>. QED
      BY <3>1, <3>2
  <2>. QED
    BY <2>1, <2>3
<1>8. HaltInv(a)' => RoundInv'
  <2>1. PICK k : Answers(a, k)
    OBVIOUS
  <2>. QED
    BY <1>4, <1>6, <1>7, <2>1, RoundTaker
<1>. QED
  BY <1>4, <1>6, <1>8

LEMMA NotedRecord ==
    ASSUME TypeOK, NEW a \in Agents
    PROVE  /\ Noted(a).new_view = mgm[a].new_view
           /\ Noted(a).stale => mgm[a].stale /\ ~ (Message(a).improve > 0)
           /\ NotedAll(a).new_view = mgm[a].new_view
           /\ NotedAll(a).stale =>
                 mgm[a].stale /\ ~ (Message(a).improve > 0) /\ ~ (mgm[a].improve > 0)
<1>1. mgm[a] \in MgmAgents
  BY DEF TypeOK
<1>. QED
  BY <1>1 DEF MgmAgents, Noted, NotedAll

(* What reading it leaves of the agent's result and its verdict.           *)
LEMMA NotedResult ==
    ASSUME TypeOK, NEW a \in Agents
    PROVE  /\ Noted(a).eval = mgm[a].eval
           /\ Noted(a).consistent = (mgm[a].consistent /\ Message(a).eval # "INF")
           /\ NotedAll(a).eval = mgm[a].eval
           /\ NotedAll(a).consistent = (mgm[a].consistent /\ Message(a).eval # "INF")
<1>1. mgm[a] \in MgmAgents
  BY DEF TypeOK
<1>. QED
  BY <1>1 DEF MgmAgents, Noted, NotedAll

LEMMA ImproveButNotLastRounds ==
    ASSUME IInv, RoundInv, NEW a \in Agents, ImproveButNotLast(a)
    PROVE  RoundInv'
<1>0. PICK m : m = Message(a)
  OBVIOUS
<1>1. /\ Takes(a, m) /\ m.kind = "IMPROVE" /\ ~ Halted(a) /\ out[a] = <<>> /\ TypeOK
      /\ mgm' = [mgm EXCEPT ![a] = Noted(a)]
      /\ counter' = [counter EXCEPT ![a] = Counted(a)]
      /\ UNCHANGED <<view, agent_view, mode, stop, out, why>>
  BY <1>0, ReceivesTakes DEF ImproveButNotLast, IInv
<1>2. \A p \in Agents \ {a} : Same(p) /\ view'[p] = view[p]
  BY <1>1 DEF TypeOK, Same
<1>3. Answers(a, "")
  BY <1>1, Silence
<1>4. /\ mgm'[a] = Noted(a) /\ Noted(a).term = mgm[a].term
      /\ Noted(a).improve = mgm[a].improve /\ Noted(a).new_view = mgm[a].new_view
      /\ Noted(a).can_move => mgm[a].can_move /\ Beats(a, m.from)
      /\ Noted(a).stale => mgm[a].stale /\ ~ (m.improve > 0)
  <2>1. mgm'[a] = Noted(a)
    BY <1>1 DEF TypeOK
  <2>. QED
    BY <1>0, <1>1, <2>1, NotedFacts, NotedRecord
<1>5. ~ Halted(a)' /\ Round(a)' = Round(a)
  BY <1>1, <1>4 DEF Halted, Round
<1>6. SamePhase(a)
  BY <1>1, <1>5, PhaseKept
<1>7. HaltInv(a)'
  BY <1>5 DEF HaltInv
<1>. QED
  BY <1>0, <1>1, <1>2, <1>3, <1>4, <1>6, <1>7, NotedRound

(* What an agent does that reads the last IMPROVE message and stops.       *)
LEMMA LastImproveHaltsEffect ==
    ASSUME IInv, NEW a \in Agents, LastImprove(a), Halts(NotedAll(a)), NEW m, m = Message(a),
           NEW s, s = NotedAll(a)
    PROVE  /\ Takes(a, m) /\ m.kind = "IMPROVE" /\ Answers(a, "END") /\ out[a] = <<>>
           /\ \A p \in Agents \ {a} : Same(p) /\ view'[p] = view[p]
           /\ ~ Halted(a) /\ Improving(a) /\ Round(a) > 0 /\ Round(a) = mgm[a].term
           /\ Halted(a)' /\ SamePhase(a) /\ Round(a)' = Round(a)
           /\ agent_view' = agent_view /\ view'[a] = view[a] /\ why'[a] = Reason(a, s)
           /\ s.term = mgm[a].term /\ mgm'[a] = Advanced(s)
           /\ mgm'[a].improve = mgm[a].improve /\ mgm'[a].new_view = mgm[a].new_view
           /\ mgm'[a].can_move => mgm[a].can_move /\ Beats(a, m.from)
           /\ mgm'[a].stale = s.stale
           /\ s.stale => mgm[a].stale /\ ~ (m.improve > 0) /\ ~ (mgm[a].improve > 0)
           /\ mgm'[a].eval = mgm[a].eval
           /\ mgm'[a].consistent = (mgm[a].consistent /\ m.eval # "INF")
           /\ ComparedWith(a) \union {m.from} = Neighbors(a)
<1>0. TypeOK /\ Receives(a)
  BY DEF IInv, LastImprove
<1>2. /\ Takes(a, m) /\ m.kind = "IMPROVE" /\ ~ Halted(a) /\ out[a] = <<>>
      /\ s \in MgmAgents /\ s.term = mgm[a].term /\ SendOk(a, s) /\ s.term < MaxDistance
      /\ s.improve = mgm[a].improve
      /\ s.can_move => mgm[a].can_move /\ Beats(a, m.from)
      /\ Improving(a) /\ Round(a) > 0 /\ Round(a) = mgm[a].term /\ Halts(s)
      /\ ComparedWith(a) \union {m.from} = Neighbors(a)
  BY LastImproveFacts
<1>3. PICK v \in KnownViewsOver(Agents), x \in Messages : SentOk(a, s, v, x)
  BY <1>0, <1>2, SendOkEffect
<1>4. /\ x.kind = "END" /\ x.from = a /\ out' = [out EXCEPT ![a] = ToNeighbors(a, x)]
      /\ stop' = [stop EXCEPT ![a] = Halts(s)]
      /\ why' \in [Agents -> {"", "distance", "stale", "overtaken", "end", "alone"}]
      /\ \A b \in Agents \ {a} : why'[b] = why[b]
      /\ why'[a] \in {"distance", "stale", "overtaken"}
      /\ Advanced(s).term = s.term + 1
      /\ Advanced(s).can_move = s.can_move /\ Advanced(s).improve = s.improve
  BY <1>2, <1>3 DEF SentOk
<1>5. /\ view' = [view EXCEPT ![a] = view[a]] /\ view'[a] = view[a]
      /\ why'[a] = Reason(a, s)
  <2>1. /\ view' = [view EXCEPT ![a] = Moved(s, view[a])]
        /\ why' = [why EXCEPT ![a] = Reason(a, s)]
    BY <1>2 DEF SendOk
  <2>2. Moved(s, view[a]) = view[a]
    BY <1>2 DEF Moved
  <2>. QED
    BY <1>0, <2>1, <2>2 DEF TypeOK
<1>6. /\ mgm' = [mgm EXCEPT ![a] = Advanced(s)] /\ counter' = [counter EXCEPT ![a] = Counted(a)]
      /\ UNCHANGED <<agent_view, mode>>
  BY <1>2 DEF LastImprove, NotedAll
<1>7. \A p \in Agents \ {a} : Same(p) /\ view'[p] = view[p]
  BY <1>0, <1>4, <1>5, <1>6 DEF TypeOK, Same
<1>8. Halted(a)' /\ Round(a)' = Round(a)
  <2>1. Halted(a)'
    BY <1>4 DEF Halted
  <2>2. mgm'[a].term = mgm[a].term + 1 /\ mgm[a].term \in Nat
    BY <1>0, <1>2, <1>4, <1>6, AgentTypes DEF TypeOK
  <2>. QED
    BY <1>2, <2>1, <2>2 DEF Round
<1>9. SamePhase(a)
  BY <1>6, <1>8, PhaseKept
<1>10. Answers(a, "END")
  <2>1. Truthful(x)'
    BY <1>4 DEF Truthful
  <2>. QED
    BY <1>0, <1>4, <2>1, Answer
<1>11. /\ mgm'[a] = Advanced(s) /\ mgm'[a].new_view = s.new_view /\ mgm'[a].stale = s.stale
       /\ s.new_view = mgm[a].new_view
       /\ s.stale => mgm[a].stale /\ ~ (m.improve > 0) /\ ~ (mgm[a].improve > 0)
       /\ mgm'[a].eval = mgm[a].eval
       /\ mgm'[a].consistent = (mgm[a].consistent /\ m.eval # "INF")
  <2>1. mgm'[a] = Advanced(s)
    BY <1>0, <1>6 DEF TypeOK
  <2>2. /\ Advanced(s).new_view = s.new_view /\ Advanced(s).stale = s.stale
        /\ Advanced(s).eval = s.eval /\ Advanced(s).consistent = s.consistent
    BY <1>2 DEF Advanced, MgmAgents
  <2>. QED
    BY <1>0, <2>1, <2>2, NotedRecord, NotedResult
<1>. QED
  BY <1>2, <1>4, <1>5, <1>6, <1>7, <1>8, <1>9, <1>10, <1>11

(* An agent that stops has compared itself with all its neighbors.         *)
LEMMA LastImproveHaltsRounds ==
    ASSUME IInv, RoundInv, NEW a \in Agents, LastImprove(a), Halts(NotedAll(a))
    PROVE  RoundInv'
<1>0. TypeOK /\ Receives(a)
  BY DEF IInv, LastImprove
<1>1. PICK s, m : s = NotedAll(a) /\ m = Message(a)
  OBVIOUS
<1>2. /\ Takes(a, m) /\ m.kind = "IMPROVE" /\ Answers(a, "END") /\ out[a] = <<>>
      /\ \A p \in Agents \ {a} : Same(p) /\ view'[p] = view[p]
      /\ ~ Halted(a) /\ Improving(a) /\ Round(a) > 0 /\ Round(a) = mgm[a].term
      /\ Halted(a)' /\ SamePhase(a) /\ Round(a)' = Round(a)
      /\ agent_view' = agent_view /\ view'[a] = view[a] /\ why'[a] = Reason(a, s)
      /\ s.term = mgm[a].term
      /\ mgm'[a].improve = mgm[a].improve /\ mgm'[a].new_view = mgm[a].new_view
      /\ mgm'[a].can_move => mgm[a].can_move /\ Beats(a, m.from)
      /\ mgm'[a].stale = s.stale
      /\ s.stale => mgm[a].stale /\ ~ (m.improve > 0) /\ ~ (mgm[a].improve > 0)
      /\ ComparedWith(a) \union {m.from} = Neighbors(a)
  BY <1>1, LastImproveHaltsEffect
<1>3. Halts(s)
  BY <1>1
<1>4. /\ HaltInv(a)' => RoundInv'
      /\ ComparedWith(a)' = ComparedWith(a) \union {m.from}
  <2>1. mgm'[a].stale => mgm[a].stale /\ ~ (m.improve > 0)
    BY <1>2
  <2>. QED
    BY <1>1, <1>2, <2>1, NotedRound
<1>5. HaltInv(a)'
  <2>1. \A b \in Neighbors(a) : Compared(a, b)'
    BY <1>2, <1>4 DEF ComparedWith
  <2>2. CASE s.stale
    <3>1. why'[a] = "stale"
      BY <1>1, <1>2, <1>3, <2>2 DEF Reason
    <3>2. mgm'[a].stale /\ mgm'[a].improve = 0
      <4>1. PICK i : i = mgm[a].improve
        OBVIOUS
      <4>2. i \in Nat /\ ~ (i > 0)
        BY <1>0, <1>2, <2>2, <4>1, AgentTypes
      <4>3. i = 0
        BY <4>2
      <4>. QED
        BY <1>2, <2>2, <4>1, <4>3
    <3>. QED
      BY <1>2, <2>1, <3>1, <3>2 DEF HaltInv, SamePhase
  <2>3. CASE ~ s.stale
    <3>1. why'[a] = "distance"
      BY <1>2, <1>3, <2>3 DEF Reason
    <3>2. Round(a)' + 1 = MaxDistance
      BY <1>2, <1>3, <2>3 DEF Halts
    <3>. QED
      BY <1>2, <2>1, <3>1, <3>2 DEF HaltInv, SamePhase
  <2>. QED
    BY <2>2, <2>3
<1>. QED
  BY <1>4, <1>5

-----------------------------------------------------------------------------
(* An agent that begins another round.                                     *)
LEMMA LastImproveGoesOnEffect ==
    ASSUME IInv, NEW a \in Agents, LastImprove(a), ~ Halts(NotedAll(a)), NEW m, m = Message(a)
    PROVE  /\ Takes(a, m) /\ m.kind = "IMPROVE" /\ Answers(a, "OK") /\ out[a] = <<>>
           /\ \A p \in Agents \ {a} : Same(p) /\ view'[p] = view[p]
           /\ Improving(a) /\ Round(a) > 0 /\ Round(a) \in Nat /\ ~ Halted(a)
           /\ mgm[a].term = Round(a)
           /\ ~ Improving(a)' /\ ~ Halted(a)' /\ mode'[a] = "WAIT_OK"
           /\ Round(a)' = Round(a) + 1 /\ Phase(a)' = 2 * (Round(a) + 1)
           /\ mgm'[a].term = Round(a) + 1
           /\ mgm'[a].can_move \in BOOLEAN /\ (mgm'[a].can_move => mgm[a].can_move)
           /\ mgm'[a].improve = mgm[a].improve
           /\ view'[a] = IF mgm'[a].can_move THEN mgm[a].new_view ELSE view[a]
           /\ ComparedWith(a) \union {m.from} = Neighbors(a)
           /\ m.from \in Neighbors(a) /\ Phase(m.from) >= Phase(a)
<1>0. TypeOK
  BY DEF IInv
<1>1. PICK s : s = NotedAll(a)
  OBVIOUS
<1>2. /\ Takes(a, m) /\ m.kind = "IMPROVE" /\ out[a] = <<>> /\ ~ Halted(a)
      /\ s \in MgmAgents /\ s.term = mgm[a].term /\ s.improve = mgm[a].improve
      /\ s.can_move => mgm[a].can_move
      /\ SendOk(a, s) /\ s.term < MaxDistance
      /\ Improving(a) /\ Round(a) > 0 /\ Round(a) = mgm[a].term
      /\ m.from \in Neighbors(a) /\ Phase(m.from) >= Phase(a)
      /\ ComparedWith(a) \union {m.from} = Neighbors(a) /\ ~ Halts(s)
  BY <1>1, LastImproveFacts
<1>3. PICK v \in KnownViewsOver(Agents), x \in Messages : SentOk(a, s, v, x)
  BY <1>0, <1>2, SendOkEffect
<1>4. /\ x.kind = "OK" /\ x.from = a /\ out' = [out EXCEPT ![a] = ToNeighbors(a, x)]
      /\ stop' = [stop EXCEPT ![a] = FALSE] /\ why'[a] = why[a]
      /\ \A b \in Agents \ {a} : why'[b] = why[b]
      /\ Advanced(s) \in MgmAgents
      /\ Advanced(s).term = s.term + 1 /\ Advanced(s).can_move = s.can_move
      /\ Advanced(s).improve = s.improve
  BY <1>2, <1>3 DEF SentOk
<1>5. view' = [view EXCEPT ![a] = IF s.can_move THEN mgm[a].new_view ELSE view[a]]
  <2>1. view' = [view EXCEPT ![a] = Moved(s, view[a])]
    BY <1>2 DEF SendOk
  <2>2. s.new_view = mgm[a].new_view
    BY <1>0, <1>1, NotedRecord
  <2>. QED
    BY <1>2, <2>1, <2>2 DEF Moved
<1>. DEFINE g == [Advanced(s) EXCEPT !.changed = FALSE]
<1>6. /\ mgm' = [mgm EXCEPT ![a] = g]
      /\ counter' = [counter EXCEPT ![a] = 0]
      /\ agent_view' = [agent_view EXCEPT ![a] = Forgotten(a)]
      /\ mode' = [mode EXCEPT ![a] = "WAIT_OK"]
  BY <1>1, <1>2 DEF LastImprove, NotedAll
<1>7. /\ g.term = s.term + 1 /\ g.can_move = s.can_move /\ g.improve = s.improve
      /\ g.can_move \in BOOLEAN
  BY <1>4 DEF MgmAgents
<1>. HIDE DEF g
<1>8. mgm'[a] = g /\ mode'[a] = "WAIT_OK"
      /\ view'[a] = IF s.can_move THEN mgm[a].new_view ELSE view[a]
  BY <1>0, <1>5, <1>6 DEF TypeOK
<1>9. \A p \in Agents \ {a} : Same(p) /\ view'[p] = view[p]
  BY <1>0, <1>4, <1>5, <1>6 DEF TypeOK, Same
<1>10. ~ Halted(a)' /\ ~ Improving(a)'
  BY <1>2, <1>4, <1>8 DEF Halted, Improving
<1>11. /\ Round(a) \in Nat /\ Round(a)' = Round(a) + 1 /\ mgm'[a].term = Round(a) + 1
       /\ Phase(a)' = 2 * (Round(a) + 1)
  <2>0. Round(a) \in Nat
    BY <1>0, PhaseFacts DEF IInv
  <2>1. mgm'[a].term = Round(a) + 1
    BY <1>2, <1>7, <1>8
  <2>2. Round(a)' = Round(a) + 1
    BY <1>10, <2>1 DEF Round
  <2>. QED
    BY <1>10, <2>0, <2>1, <2>2 DEF Phase
<1>12. Answers(a, "OK")
  <2>1. Truthful(x)'
    BY <1>4 DEF Truthful
  <2>. QED
    BY <1>0, <1>4, <2>1, Answer
<1>. QED
  BY <1>2, <1>7, <1>8, <1>9, <1>10, <1>11, <1>12

(* Whoever has compared itself with an agent that goes on has done so       *)
(* still, and nobody does so now.                                          *)
LEMMA ComparedWhenGoingOn ==
    ASSUME IInv, NEW a \in Agents, LastImprove(a), ~ Halts(NotedAll(a)), NEW b \in Neighbors(a)
    PROVE  Compared(b, a)' <=> Compared(b, a)
<1>1. PICK m : m = Message(a)
  OBVIOUS
<1>2. /\ Takes(a, m) /\ m.kind = "IMPROVE" /\ Answers(a, "OK") /\ out[a] = <<>>
      /\ \A p \in Agents \ {a} : Same(p)
      /\ Improving(a) /\ Round(a) \in Nat /\ Phase(a)' = 2 * (Round(a) + 1)
  BY <1>1, LastImproveGoesOnEffect
<1>3. Phase(a) = 2 * Round(a) + 1
  BY <1>2 DEF Phase
<1>4. b \in Agents \ {a} /\ Round(b) \in Nat
      /\ Phase(b) = IF Improving(b) THEN 2 * Round(b) + 1 ELSE 2 * Round(b)
  BY LinkFacts
<1>5. SamePhase(b)
  BY <1>2, <1>4, SameFacts
<1>6. \A j \in Phases : Pending(a, b, j)' <=> Pending(a, b, j) \/ j = "OK"
  BY <1>2, <1>4, PendingFromTaker
<1>7. Pending(a, b, "IMPROVE")' <=> Pending(a, b, "IMPROVE")
  BY <1>6 DEF Phases
<1>8. Improving(b) => (Phase(a)' >= Phase(b) <=> Phase(a) >= Phase(b))
  BY <1>2, <1>3, <1>4
<1>. QED
  BY <1>5, <1>7, <1>8 DEF Compared, SamePhase

LEMMA LastImproveGoesOnRounds ==
    ASSUME IInv, RoundInv, NEW a \in Agents, LastImprove(a), ~ Halts(NotedAll(a))
    PROVE  RoundInv'
<1>1. PICK m : m = Message(a)
  OBVIOUS
<1>2. /\ Takes(a, m) /\ m.kind = "IMPROVE" /\ Answers(a, "OK") /\ out[a] = <<>>
      /\ \A p \in Agents \ {a} : Same(p) /\ view'[p] = view[p]
      /\ Improving(a) /\ Round(a) > 0 /\ Round(a) \in Nat
      /\ ~ Improving(a)' /\ ~ Halted(a)' /\ Phase(a)' = 2 * (Round(a) + 1)
      /\ mgm'[a].can_move => mgm[a].can_move
      /\ mgm'[a].improve = mgm[a].improve
      /\ m.from \in Neighbors(a)
  BY <1>1, LastImproveGoesOnEffect
<1>3. ~ (Phase(a)' <= 2) /\ Phase(a)' # 0
  BY <1>2
<1>4. SearchInv(a)' /\ HaltInv(a)'
  <2>1. SearchInv(a)
    BY <1>2 DEF RoundInv
  <2>. QED
    BY <1>2, <1>3, <2>1 DEF SearchInv, HaltInv
<1>5. ASSUME NEW b \in Neighbors(a) PROVE Compared(b, a)' <=> Compared(b, a)
  BY ComparedWhenGoingOn
<1>6. ASSUME NEW b \in Neighbors(a) PROVE StaleLink(a, b)' /\ FirstLink(a, b)'
  BY <1>2, <1>3 DEF StaleLink, FirstLink, Compared
<1>. QED
  BY <1>2, <1>4, <1>5, <1>6, RoundTaker

(* What an agent does that reads its START and stops.                      *)
LEMMA StartHaltsEffect ==
    ASSUME IInv, NEW a \in Agents, Start(a), Halts(mgm[a]), NEW m, m = Message(a)
    PROVE  /\ Takes(a, m) /\ m.kind = "START" /\ Answers(a, "END") /\ out[a] = <<>>
           /\ \A p \in Agents \ {a} : Same(p) /\ view'[p] = view[p]
           /\ Neighbors(a) # {} /\ ~ Halted(a) /\ Round(a) = 0 /\ mgm[a].term = 0
           /\ Halted(a)' /\ SamePhase(a) /\ agent_view' = agent_view /\ view'[a] = view[a]
           /\ mgm'[a] = Advanced(mgm[a])
           /\ mgm'[a].can_move = mgm[a].can_move /\ mgm'[a].improve = mgm[a].improve
           /\ mgm'[a].new_view = mgm[a].new_view /\ mgm'[a].stale = mgm[a].stale
           /\ mgm'[a].eval = mgm[a].eval /\ mgm'[a].consistent = mgm[a].consistent
<1>0. TypeOK /\ Receives(a) /\ AgentInv(a) /\ Neighbors(a) # {}
  BY NeighborFacts DEF IInv, Start
<1>2. /\ Takes(a, m) /\ m.kind = "START" /\ ~ Halted(a) /\ out[a] = <<>>
      /\ UNCHANGED <<agent_view, mode, counter>>
      /\ mgm' = [mgm EXCEPT ![a] = Advanced(mgm[a])]
      /\ \E v \in KnownViewsOver(Agents), x \in Messages : SentOk(a, mgm[a], v, x)
  BY StartEffect
<1>3. PICK v \in KnownViewsOver(Agents), x \in Messages : SentOk(a, mgm[a], v, x)
  BY <1>2
<1>4. /\ x.kind = "END" /\ x.from = a /\ out' = [out EXCEPT ![a] = ToNeighbors(a, x)]
      /\ stop' = [stop EXCEPT ![a] = Halts(mgm[a])]
      /\ \A b \in Agents \ {a} : why'[b] = why[b]
      /\ why'[a] \in {"distance", "stale", "overtaken"}
      /\ Advanced(mgm[a]).term = mgm[a].term + 1
      /\ Advanced(mgm[a]).can_move = mgm[a].can_move
      /\ Advanced(mgm[a]).improve = mgm[a].improve
  BY <1>3 DEF SentOk
<1>5. view' = [view EXCEPT ![a] = view[a]] /\ view'[a] = view[a]
  <2>1. view' = [view EXCEPT ![a] = Moved(mgm[a], view[a])]
    BY DEF Start, SendOk
  <2>2. Moved(mgm[a], view[a]) = view[a]
    BY DEF Moved
  <2>. QED
    BY <1>0, <2>1, <2>2 DEF TypeOK
<1>6. /\ mgm'[a] = Advanced(mgm[a]) /\ mgm'[a].term = mgm[a].term + 1
      /\ mgm'[a].can_move = mgm[a].can_move /\ mgm'[a].improve = mgm[a].improve
      /\ mgm'[a].new_view = mgm[a].new_view /\ mgm'[a].stale = mgm[a].stale
      /\ mgm'[a].eval = mgm[a].eval /\ mgm'[a].consistent = mgm[a].consistent
  <2>1. mgm'[a] = Advanced(mgm[a])
    BY <1>0, <1>2 DEF TypeOK
  <2>2. /\ Advanced(mgm[a]).new_view = mgm[a].new_view
        /\ Advanced(mgm[a]).stale = mgm[a].stale
        /\ Advanced(mgm[a]).eval = mgm[a].eval
        /\ Advanced(mgm[a]).consistent = mgm[a].consistent
    BY <1>0, AgentTypes DEF Advanced, MgmAgents
  <2>. QED
    BY <1>4, <2>1, <2>2
<1>7. \A p \in Agents \ {a} : Same(p) /\ view'[p] = view[p]
  BY <1>0, <1>2, <1>4, <1>5 DEF TypeOK, Same
<1>8. mgm[a].term = 0 /\ Round(a) = 0
  BY <1>2, StartRead
<1>9. Halted(a)' /\ SamePhase(a)
  <2>1. Halted(a)'
    BY <1>4 DEF Halted
  <2>2. Round(a)' = Round(a)
    BY <1>6, <1>8, <2>1 DEF Round
  <2>. QED
    BY <1>2, <2>1, <2>2, PhaseKept
<1>10. Answers(a, "END")
  <2>1. Truthful(x)'
    BY <1>4 DEF Truthful
  <2>. QED
    BY <1>0, <1>4, <2>1, Answer
<1>. QED
  BY <1>0, <1>2, <1>5, <1>6, <1>7, <1>8, <1>9, <1>10

(* An agent that reads its START: overtaken, or not.                       *)
LEMMA StartHaltsRounds ==
    ASSUME IInv, RoundInv, NEW a \in Agents, Start(a), Halts(mgm[a])
    PROVE  RoundInv'
<1>0. TypeOK /\ AgentInv(a)
  BY DEF IInv
<1>1. PICK m : m = Message(a)
  OBVIOUS
<1>2. /\ Takes(a, m) /\ m.kind = "START" /\ Answers(a, "END") /\ out[a] = <<>>
      /\ \A p \in Agents \ {a} : Same(p) /\ view'[p] = view[p]
      /\ Neighbors(a) # {} /\ ~ Halted(a) /\ Round(a) = 0 /\ mgm[a].term = 0
      /\ Halted(a)' /\ SamePhase(a) /\ agent_view' = agent_view /\ view'[a] = view[a]
      /\ mgm'[a].can_move = mgm[a].can_move /\ mgm'[a].improve = mgm[a].improve
      /\ mgm'[a].new_view = mgm[a].new_view /\ mgm'[a].stale = mgm[a].stale
  BY <1>1, StartHaltsEffect
<1>3. m.kind \notin Phases
  BY <1>2 DEF Phases
<1>4. SearchInv(a) /\ Phase(a) \in {0, 1}
  BY <1>0, <1>2 DEF RoundInv, Phase
<1>5. SearchInv(a)'
  BY <1>2, <1>4 DEF SearchInv, SamePhase
<1>6. HaltInv(a)'
  <2>1. why'[a] = Reason(a, mgm[a])
    BY <1>0 DEF Start, SendOk, TypeOK
  <2>2. CASE Phase(a) = 0
    <3>1. ~ mgm[a].stale /\ mgm[a].term + 1 = MaxDistance
      BY <1>4, <2>2 DEF SearchInv, Halts
    <3>2. why'[a] = "distance" /\ MaxDistance = 1
      BY <1>2, <2>1, <3>1 DEF Reason
    <3>. QED
      BY <1>2, <2>2, <3>2 DEF HaltInv, SamePhase
  <2>3. CASE Phase(a) = 1
    <3>1. mgm[a].stale
      BY <1>0, <1>2, <2>3 DEF AgentInv
    <3>2. why'[a] = "overtaken"
      BY <1>1, <1>2, <2>1, <3>1 DEF Reason
    <3>. QED
      BY <1>2, <2>3, <3>2 DEF HaltInv, SamePhase
  <2>. QED
    BY <1>4, <2>2, <2>3
<1>7. ASSUME NEW b \in Neighbors(a)
       PROVE  /\ Compared(b, a)' <=> Compared(b, a)
              /\ StaleLink(a, b)' /\ FirstLink(a, b)'
  <2>0. b \in Agents \ {a} /\ FirstLink(a, b)
    BY RoundFacts, NeighborFacts
  <2>1. Compared(b, a)' <=> Compared(b, a)
    <3>1. \A c \in Agents : Heard(a, c)' <=> Heard(a, c)
      BY <1>2 DEF Heard, Cleared
    <3>. QED
      BY <1>2, <1>3, <3>1, LinksAfterControl
  <2>2. StaleLink(a, b)'
    BY <1>2 DEF StaleLink, Compared, SamePhase
  <2>3. SamePhase(b) /\ view'[b] = view[b]
    BY <1>2, <2>0, SameFacts
  <2>4. FirstLink(a, b)'
    BY <1>2, <2>0, <2>3 DEF FirstLink, SamePhase
  <2>. QED
    BY <2>1, <2>2, <2>4
<1>. QED
  BY <1>2, <1>5, <1>6, <1>7, RoundTaker

LEMMA StartGoesOnEffect ==
    ASSUME IInv, NEW a \in Agents, Start(a), ~ Halts(mgm[a]), NEW m, m = Message(a)
    PROVE  /\ Takes(a, m) /\ m.kind = "START" /\ Answers(a, "OK") /\ out[a] = <<>>
           /\ \A p \in Agents \ {a} : Same(p) /\ view'[p] = view[p]
           /\ Neighbors(a) # {} /\ ~ Improving(a) /\ ~ Halted(a) /\ Round(a) = 0 /\ Phase(a) = 0
           /\ mgm[a].term = 0 /\ mgm'[a].term = 1
           /\ ~ Improving(a)' /\ ~ Halted(a)' /\ Round(a)' = 1 /\ Phase(a)' = 2
           /\ ~ mgm'[a].can_move /\ mode'[a] = "WAIT_OK"
           /\ mgm'[a].improve = mgm[a].improve
           /\ view'[a] = view[a]
<1>0. TypeOK /\ Receives(a) /\ AgentInv(a) /\ Neighbors(a) # {}
  BY NeighborFacts DEF IInv, Start
<1>2. /\ Takes(a, m) /\ m.kind = "START" /\ ~ Halted(a) /\ out[a] = <<>>
      /\ UNCHANGED <<agent_view, mode, counter>>
      /\ mgm' = [mgm EXCEPT ![a] = Advanced(mgm[a])]
      /\ \E v \in KnownViewsOver(Agents), x \in Messages : SentOk(a, mgm[a], v, x)
  BY StartEffect
<1>3. PICK v \in KnownViewsOver(Agents), x \in Messages : SentOk(a, mgm[a], v, x)
  BY <1>2
<1>4. /\ x.kind = "OK" /\ x.from = a /\ out' = [out EXCEPT ![a] = ToNeighbors(a, x)]
      /\ stop' = [stop EXCEPT ![a] = FALSE] /\ why'[a] = why[a]
      /\ \A b \in Agents \ {a} : why'[b] = why[b]
      /\ Advanced(mgm[a]).term = mgm[a].term + 1
      /\ Advanced(mgm[a]).can_move = mgm[a].can_move
      /\ Advanced(mgm[a]).improve = mgm[a].improve
  BY <1>3 DEF SentOk
<1>5. mgm[a].term = 0 /\ Round(a) = 0
  BY <1>2, StartRead
<1>6. ~ Improving(a) /\ Phase(a) = 0 /\ ~ mgm[a].can_move
  <2>1. ~ mgm[a].stale
    BY DEF Halts
  <2>2. Phase(a) # 1
    BY <1>0, <1>2, <2>1 DEF AgentInv
  <2>. QED
    BY <1>0, <1>5, <2>2 DEF Phase, AgentInv
<1>7. view' = [view EXCEPT ![a] = view[a]] /\ view'[a] = view[a]
  <2>1. view' = [view EXCEPT ![a] = Moved(mgm[a], view[a])]
    BY DEF Start, SendOk
  <2>2. Moved(mgm[a], view[a]) = view[a]
    BY <1>6 DEF Moved
  <2>. QED
    BY <1>0, <2>1, <2>2 DEF TypeOK
<1>8. /\ mgm'[a].term = 1 /\ mgm'[a].improve = mgm[a].improve /\ ~ mgm'[a].can_move
  <2>1. mgm'[a] = Advanced(mgm[a])
    BY <1>0, <1>2 DEF TypeOK
  <2>. QED
    BY <1>4, <1>5, <1>6, <2>1
<1>9. \A p \in Agents \ {a} : Same(p) /\ view'[p] = view[p]
  BY <1>0, <1>2, <1>4, <1>7 DEF TypeOK, Same
<1>10. /\ ~ Halted(a)' /\ ~ Improving(a)' /\ Round(a)' = 1 /\ Phase(a)' = 2
  <2>1. ~ Halted(a)' /\ ~ Improving(a)'
    BY <1>2, <1>4, <1>6 DEF Halted, Improving
  <2>2. Round(a)' = 1
    BY <1>8, <2>1 DEF Round
  <2>. QED
    BY <2>1, <2>2 DEF Phase
<1>11. Answers(a, "OK")
  <2>1. Truthful(x)'
    BY <1>4 DEF Truthful
  <2>. QED
    BY <1>0, <1>4, <2>1, Answer
<1>12. mode'[a] = "WAIT_OK"
  BY <1>0, <1>2, <1>6, AgentTypes DEF Improving
<1>. QED
  BY <1>0, <1>2, <1>5, <1>6, <1>7, <1>8, <1>9, <1>10, <1>11, <1>12

LEMMA StartGoesOnRounds ==
    ASSUME IInv, RoundInv, NEW a \in Agents, Start(a), ~ Halts(mgm[a])
    PROVE  RoundInv'
<1>1. PICK m : m = Message(a)
  OBVIOUS
<1>2. /\ Takes(a, m) /\ m.kind = "START" /\ Answers(a, "OK") /\ out[a] = <<>>
      /\ \A p \in Agents \ {a} : Same(p) /\ view'[p] = view[p]
      /\ Phase(a) = 0
      /\ ~ Improving(a)' /\ ~ Halted(a)' /\ Phase(a)' = 2
      /\ ~ mgm'[a].can_move
      /\ mgm'[a].improve = mgm[a].improve
      /\ view'[a] = view[a]
  BY <1>1, StartGoesOnEffect
<1>3. SearchInv(a)' /\ HaltInv(a)'
  BY <1>2 DEF SearchInv, HaltInv
<1>4. ASSUME NEW b \in Neighbors(a)
      PROVE  /\ ~ Compared(b, a) /\ ~ Compared(b, a)'
             /\ StaleLink(a, b)' /\ FirstLink(a, b)'
  <2>0. b \in Agents \ {a} /\ FirstLink(a, b) /\ Round(b) \in Nat
        /\ Phase(b) = IF Improving(b) THEN 2 * Round(b) + 1 ELSE 2 * Round(b)
    BY RoundFacts, LinkFacts
  <2>1. SamePhase(b) /\ view'[b] = view[b]
    BY <1>2, <2>0, SameFacts
  <2>2. Improving(b) /\ Round(b) > 0 => ~ (0 >= Phase(b)) /\ ~ (2 >= Phase(b))
    BY <2>0
  <2>3. ~ Compared(b, a) /\ ~ Compared(b, a)'
    BY <1>2, <2>1, <2>2 DEF Compared, SamePhase
  <2>4. StaleLink(a, b)'
    BY <1>2 DEF StaleLink, Compared
  <2>5. FirstLink(a, b)'
    BY <1>2, <2>0, <2>1 DEF FirstLink, SamePhase
  <2>. QED
    BY <2>3, <2>4, <2>5
<1>. QED
  BY <1>2, <1>3, <1>4, RoundTaker
-----------------------------------------------------------------------------
(* An agent that begins to compare improvements.                           *)
LEMMA LastOkMove ==
    ASSUME IInv, NEW a \in Agents, LastOk(a)
    PROVE  /\ mgm'[a].new_view \in Reassignments(a, Adopted(a))
           /\ mgm'[a].can_move => mgm'[a].improve > 0
<1>0. TypeOK /\ mgm[a] \in MgmAgents
  BY DEF IInv, TypeOK
<1>. DEFINE s == [mgm[a] EXCEPT !.changed = Changed(a)]
<1>1. PICK o \in Improvements(a, s, Adopted(a)) :
          mgm' = [mgm EXCEPT ![a] =
                    [Improved(s, o) EXCEPT !.can_move = o.improve > 0,
                                           !.consistent = TRUE,
                                           !.stale = TRUE]]
  BY DEF LastOk
<1>2. o.new_view \in Reassignments(a, Adopted(a))
  BY <1>1 DEF Improvements
<1>. DEFINE g == [Improved(s, o) EXCEPT !.can_move = o.improve > 0,
                                        !.consistent = TRUE,
                                        !.stale = TRUE]
<1>3. g.new_view = o.new_view /\ g.improve = o.improve /\ g.can_move = (o.improve > 0)
  BY <1>0 DEF MgmAgents, Improved
<1>. HIDE DEF g, s
<1>4. mgm'[a] = g
  BY <1>0, <1>1 DEF TypeOK, g
<1>. QED
  BY <1>2, <1>3, <1>4

LEMMA LastOkFacts ==
    ASSUME IInv, IInv', NEW a \in Agents, LastOk(a), NEW m, m = Message(a)
    PROVE  /\ Takes(a, m) /\ m.kind = "OK" /\ Answers(a, "IMPROVE") /\ out[a] = <<>>
           /\ \A p \in Agents \ {a} : Same(p) /\ view'[p] = view[p]
           /\ Neighbors(a) # {} /\ ~ Improving(a) /\ ~ Halted(a) /\ mgm[a].term = Round(a)
           /\ Improving(a)' /\ ~ Halted(a)' /\ mode'[a] = "WAIT_IMPROVE"
           /\ Round(a)' = Round(a) /\ Phase(a)' = 2 * Round(a) + 1
           /\ mgm'[a].term = mgm[a].term
           /\ view'[a] = Adopted(a) /\ Adopted(a) \in KnownViewsOver(Agents)
           /\ \A b \in Neighbors(a) :
                 /\ Round(b) = Reads(a) /\ (Round(a) = 0 => Phase(b) = 2)
                 /\ ~ Compared(a, b)' /\ ~ Compared(b, a)' /\ ~ Compared(b, a)
<1>0. TypeOK
  BY DEF IInv
<1>1. /\ Takes(a, m) /\ m.kind = "OK" /\ out[a] = <<>> /\ IsLast(a) /\ ~ Halted(a)
  BY ReceivesTakes DEF LastOk
<1>2. PICK g \in MgmAgents, x \in Messages :
              /\ g.term = mgm[a].term /\ g.can_move = (g.improve > 0) /\ g.stale = TRUE
              /\ g.consistent = TRUE /\ x.eval = g.eval
              /\ x.from = a /\ x.kind = "IMPROVE"
              /\ x.improve = g.improve /\ x.term = mgm[a].term
              /\ mgm' = [mgm EXCEPT ![a] = g]
              /\ out' = [out EXCEPT ![a] = ToNeighbors(a, x)]
              /\ view' = [view EXCEPT ![a] = Adopted(a)]
              /\ Adopted(a) \in KnownViewsOver(Agents)
  BY LastOkEffect
<1>3. /\ counter' = [counter EXCEPT ![a] = 0]
      /\ mode' = [mode EXCEPT ![a] = "WAIT_IMPROVE"]
      /\ agent_view' = [agent_view EXCEPT ![a] = Told(a)]
      /\ UNCHANGED <<stop, why>>
  BY DEF LastOk
<1>4. ~ Improving(a) /\ m.from \in Neighbors(a) /\ Round(m.from) = Reads(a)
  BY <1>1, OkRead
<1>5. HeardFrom(a) \union {m.from} = Neighbors(a)
  BY <1>1, CountTheView
<1>6. /\ mgm'[a] = g /\ mode'[a] = "WAIT_IMPROVE" /\ view'[a] = Adopted(a)
  BY <1>0, <1>2, <1>3 DEF TypeOK
<1>7. \A p \in Agents \ {a} : Same(p) /\ view'[p] = view[p]
  BY <1>0, <1>2, <1>3 DEF TypeOK, Same
<1>8. /\ Improving(a)' /\ ~ Halted(a)' /\ Round(a)' = Round(a)
      /\ Phase(a)' = 2 * Round(a) + 1 /\ Searched(a)' = Round(a) /\ Round(a) = mgm[a].term
  <2>1. Improving(a)' /\ ~ Halted(a)'
    BY <1>1, <1>3, <1>6 DEF Improving, Halted
  <2>2. Round(a)' = Round(a) /\ Round(a) = mgm[a].term
    BY <1>1, <1>2, <1>6, <2>1 DEF Round
  <2>. QED
    BY <2>1, <2>2 DEF Phase, Searched
<1>9. Answers(a, "IMPROVE")
  <2>1. Truthful(x)'
    BY <1>2, <1>6, <1>8 DEF Truthful
  <2>. QED
    BY <1>0, <1>2, <2>1, Answer
<1>10. ASSUME NEW b \in Neighbors(a)
       PROVE  /\ Round(b) = Reads(a) /\ (Round(a) = 0 => Phase(b) = 2)
              /\ ~ Compared(a, b)' /\ ~ Compared(b, a)' /\ ~ Compared(b, a)
  <2>1. b \in Agents \ {a} /\ (Heard(a, b) \/ b = m.from)
    BY <1>5, NeighborFacts DEF HeardFrom
  <2>2. /\ Round(b) = Reads(a) /\ (Round(a) = 0 => Phase(b) = 2) /\ ~ Pending(a, b, "IMPROVE")
    BY <1>4, <2>1, AllHeard
  <2>3. /\ Round(b) \in Nat /\ Round(a) \in Nat
        /\ Phase(b) = IF Improving(b) THEN 2 * Round(b) + 1 ELSE 2 * Round(b)
        /\ Phase(a) = 2 * Round(a)
        /\ Reads(a) = IF Round(a) = 0 THEN 1 ELSE Round(a)
        /\ ImproveLink(a, b)
    BY <1>4, LinkFacts
  <2>4. SamePhase(b)
    BY <1>7, <2>1, SameFacts
  <2>5. \A j \in Phases : Pending(a, b, j)' <=> Pending(a, b, j) \/ j = "IMPROVE"
    BY <1>1, <1>9, PendingFromTaker
  <2>6. ~ Compared(b, a)'
    BY <2>5 DEF Compared, Phases
  <2>7. \A j \in Phases : Pending(b, a, j)' <=> Pending(b, a, j) /\ ~ IsFrom(m, b, j)
    BY <1>0, <1>1, <1>9, PendingToTaker DEF IInv
  <2>8. Pending(b, a, "IMPROVE")' <=> Pending(b, a, "IMPROVE")
    BY <1>1, <2>7 DEF Phases, IsFrom
  <2>9. ~ Compared(a, b)'
    <3>1. SUFFICES ASSUME Compared(a, b)' PROVE FALSE
      OBVIOUS
    <3>2. Round(a) > 0 /\ Phase(b) >= 2 * Round(a) + 1 /\ ~ Pending(b, a, "IMPROVE")
      BY <1>8, <2>4, <2>8, <3>1 DEF Compared, SamePhase
    <3>3. Improving(b) /\ Phase(b) = Phase(a) + 1
      BY <2>2, <2>3, <3>2
    <3>. QED
      BY <1>4, <2>3, <3>2, <3>3 DEF ImproveLink
  <2>10. ~ Compared(b, a)
    BY <2>2, <2>3 DEF Compared
  <2>. QED
    BY <2>2, <2>6, <2>9, <2>10
<1>. QED
  BY <1>1, <1>2, <1>4, <1>6, <1>7, <1>8, <1>9, <1>10

LEMMA LastOkRounds ==
    ASSUME IInv, IInv', ViewInv, RoundInv, NEW a \in Agents, LastOk(a)
    PROVE  RoundInv'
<1>1. PICK m : m = Message(a)
  OBVIOUS
<1>2. /\ Takes(a, m) /\ Answers(a, "IMPROVE")
      /\ \A p \in Agents \ {a} : Same(p) /\ view'[p] = view[p]
      /\ Neighbors(a) # {} /\ ~ Improving(a)
      /\ Improving(a)' /\ ~ Halted(a)'
      /\ Round(a)' = Round(a) /\ Phase(a)' = 2 * Round(a) + 1
      /\ view'[a] = Adopted(a)
      /\ \A b \in Neighbors(a) :
                 /\ Round(b) = Reads(a) /\ (Round(a) = 0 => Phase(b) = 2)
                 /\ ~ Compared(a, b)' /\ ~ Compared(b, a)' /\ ~ Compared(b, a)
  BY <1>1, LastOkFacts
<1>3. Round(a) \in Nat /\ Phase(a) = 2 * Round(a) /\ AgentInv(a) /\ TypeOK
  BY <1>2, PhaseFacts DEF IInv
<1>4. SearchInv(a)' /\ HaltInv(a)'
  <2>1. Phase(a)' # 0
    BY <1>2, <1>3
  <2>2. (view[a])' = Adopted(a)
    BY <1>2
  <2>3. SearchInv(a)'
    <3>1. mgm'[a].new_view \in Reassignments(a, view'[a])
      BY <1>2, LastOkMove
    <3>2. mgm'[a].can_move => mgm'[a].improve > 0
      BY LastOkMove
    <3>. QED
      BY <2>1, <3>1, <3>2 DEF SearchInv, Reassignments
  <2>. QED
    BY <1>2, <2>3 DEF HaltInv
<1>5. ASSUME NEW b \in Neighbors(a) PROVE StaleLink(a, b)' /\ FirstLink(a, b)'
  <2>0. b \in Agents \ {a} /\ view'[b] = view[b] /\ ~ Compared(a, b)'
    BY <1>2, NeighborFacts
  <2>1. StaleLink(a, b)'
    BY <2>0 DEF StaleLink
  <2>2. CASE Round(a) = 0
    <3>1. AllTold(a) /\ \A c \in Neighbors(a) : Told(a)[c] \in KnownViewsOver(Agents)
      BY TheLastViewTellsAll
    <3>2. AdoptsADifference(a)
      BY <1>3, <3>1, AdoptionFacts
    <3>3. ~ mgm[a].can_move
      BY <1>3, <2>2 DEF AgentInv
    <3>4. ASSUME NEW c \in Neighbors(a) PROVE Told(a)[c] = view[a] /\ view[c] = view[a]
      <4>1. Phase(c) = 2 /\ Phase(a) = 0
        BY <1>2, <1>3, <2>2
      <4>2. view[c] = view[a]
        <5>1. FirstLink(a, c)
          BY RoundFacts
        <5>. QED
          BY <4>1, <5>1 DEF FirstLink
      <4>3. Told(a)[c] \in {view[a], view[c]}
        BY <3>1, <3>3, ToldFacts
      <4>. QED
        BY <4>2, <4>3
    <3>5. Adopted(a) = view[a] /\ view[b] = view[a]
      BY <3>2, <3>3, <3>4 DEF AdoptsADifference
    <3>. QED
      BY <1>2, <2>0, <2>1, <3>5 DEF FirstLink
  <2>3. CASE Round(a) # 0
    <3>1. ~ (Phase(a)' <= 2)
      BY <1>2, <1>3, <2>3
    <3>. QED
      BY <2>1, <3>1 DEF FirstLink
  <2>. QED
    BY <2>2, <2>3
<1>. QED
  BY <1>2, <1>4, <1>5, RoundTaker

-----------------------------------------------------------------------------
LEMMA InitRounds == Init => RoundInv
<1>1. SUFFICES ASSUME Init PROVE RoundInv
  OBVIOUS
<1>2. PICK v \in InitialViews :
          /\ view = [a \in Agents |-> v]
          /\ mgm = [a \in Agents |->
                [term |-> 0, can_move |-> FALSE, eval |-> "finite", improve |-> 0,
                 new_view |-> v, consistent |-> TRUE, stale |-> FALSE, changed |-> TRUE]]
  BY <1>1 DEF Init
<1>3. ASSUME NEW p \in Agents
      PROVE  /\ ~ Improving(p) /\ ~ Halted(p) /\ view[p] = v
             /\ ~ mgm[p].can_move /\ ~ mgm[p].stale
  <2>1. view[p] = v /\ ~ mgm[p].can_move /\ ~ mgm[p].stale
    BY <1>2
  <2>2. mode[p] = "WAIT_OK" /\ why[p] = ""
    BY <1>1 DEF Init
  <2>. QED
    BY <2>1, <2>2 DEF Improving, Halted
<1>4. ASSUME NEW p \in Agents PROVE SearchInv(p) /\ HaltInv(p)
  BY <1>3 DEF SearchInv, HaltInv
<1>5. ASSUME NEW p \in Agents, NEW q \in Neighbors(p) PROVE StaleLink(p, q) /\ FirstLink(p, q)
  <2>1. q \in Agents
    BY NeighborFacts
  <2>. QED
    BY <1>3, <2>1 DEF StaleLink, FirstLink
<1>. QED
  BY <1>4, <1>5 DEF RoundInv

LEMMA RoundsStep ==
    ASSUME IInv, IInv', ViewInv, RoundInv, [Next]_vars
    PROVE  RoundInv'
<1>1. ASSUME NEW a \in Agents, AgentStep(a) PROVE RoundInv'
  <2>1. CASE LastImprove(a)
    BY <2>1, LastImproveHaltsRounds, LastImproveGoesOnRounds
  <2>2. CASE Start(a)
    BY <2>2, StartHaltsRounds, StartGoesOnRounds
  <2>3. CASE LastOk(a)
    BY <2>3, LastOkRounds
  <2>4. CASE SendNext(a) \/ EnterRegion(a) \/ LeaveRegion(a) \/ PassBarrier(a)
    BY <2>4, UnreadRounds
  <2>5. CASE OkButNotLast(a) \/ End(a) \/ StartAlone(a)
    BY <2>5, QuietReaderRounds
  <2>6. CASE ImproveButNotLast(a)
    BY <2>6, ImproveButNotLastRounds
  <2>. QED
    BY <1>1, <2>1, <2>2, <2>3, <2>4, <2>5, <2>6 DEF AgentStep
<1>2. CASE MainStep \/ SendKill \/ Terminating \/ UNCHANGED vars
  BY <1>2, UnreadRounds
<1>. QED
  BY <1>1, <1>2 DEF Next

LEMMA RoundsInvariance ==
    ASSUME Mutual
    PROVE  Spec => [](IInv /\ ViewInv /\ RoundInv)
<1>1. Init => IInv /\ ViewInv /\ RoundInv
  BY InitHolds, InitViews, InitRounds
<1>2. IInv /\ ViewInv /\ RoundInv /\ [Next]_vars => (IInv /\ ViewInv /\ RoundInv)'
  <2>1. SUFFICES ASSUME IInv, ViewInv, RoundInv, [Next]_vars
                 PROVE  IInv' /\ ViewInv' /\ RoundInv'
    OBVIOUS
  <2>2. IInv'
    BY <2>1, StepHolds
  <2>3. ViewInv'
    BY <2>1, <2>2, ViewsStep
  <2>. QED
    BY <2>1, <2>2, <2>3, RoundsStep
<1>. QED
  BY <1>1, <1>2, PTL DEF Spec
-----------------------------------------------------------------------------
(* An agent without neighbors does not count rounds.                       *)
LoneInv == \A a \in Agents : Neighbors(a) = {} => ~ Halted(a)

LEMMA LoneStep ==
    ASSUME IInv, LoneInv, [Next]_vars
    PROVE  LoneInv'
<1>0. TypeOK
  BY DEF IInv
<1>1. CASE UNCHANGED why
  BY <1>1 DEF LoneInv, Halted
<1>2. ASSUME NEW a \in Agents, \A p \in Agents \ {a} : why'[p] = why[p],
             Neighbors(a) # {} \/ why'[a] \in {"end", "alone"}
      PROVE  LoneInv'
  BY <1>2 DEF LoneInv, Halted
<1>3. ASSUME NEW a \in Agents, AgentStep(a) PROVE LoneInv'
  <2>1. CASE LastImprove(a)
    <3>1. Takes(a, Message(a)) /\ Message(a).kind = "IMPROVE" /\ ~ Halted(a)
      BY <2>1, ReceivesTakes DEF LastImprove
    <3>2. Neighbors(a) # {}
      BY <3>1, ImproveRead
    <3>3. \A p \in Agents \ {a} : why'[p] = why[p]
      BY <1>0, <2>1 DEF LastImprove, SendOk, TypeOK
    <3>. QED
      BY <1>2, <3>2, <3>3
  <2>2. CASE Start(a)
    <3>1. Neighbors(a) # {}
      BY <2>2, NeighborFacts DEF Start
    <3>2. \A p \in Agents \ {a} : why'[p] = why[p]
      BY <1>0, <2>2 DEF Start, SendOk, TypeOK
    <3>. QED
      BY <1>2, <3>1, <3>2
  <2>3. CASE End(a) \/ StartAlone(a)
    <3>1. why' = [why EXCEPT ![a] = "end"] \/ why' = [why EXCEPT ![a] = "alone"]
      BY <2>3 DEF End, StartAlone
    <3>2. why'[a] \in {"end", "alone"} /\ \A p \in Agents \ {a} : why'[p] = why[p]
      BY <1>0, <3>1 DEF TypeOK
    <3>. QED
      BY <1>2, <3>2
  <2>4. CASE \/ OkButNotLast(a) \/ LastOk(a) \/ ImproveButNotLast(a) \/ SendNext(a)
             \/ EnterRegion(a) \/ LeaveRegion(a) \/ PassBarrier(a)
    <3>1. UNCHANGED why
      BY <2>4 DEF OkButNotLast, LastOk, ImproveButNotLast, SendNext,
                  EnterRegion, LeaveRegion, PassBarrier, agentVars
    <3>. QED
      BY <1>1, <3>1
  <2>. QED
    BY <1>3, <2>1, <2>2, <2>3, <2>4 DEF AgentStep
<1>4. CASE MainStep \/ SendKill \/ Terminating \/ UNCHANGED vars
  <2>1. UNCHANGED why
    BY <1>4 DEF MainStep, SendStart, Join, MergeViews, SendKill, Terminating, vars, agentVars
  <2>. QED
    BY <1>1, <2>1
<1>. QED
  BY <1>3, <1>4 DEF Next

(* Every specification in lua/ is a complete graph of constraints.         *)
Complete == \A a, b \in Agents : a # b => b \in Neighbors(a)

LEMMA CompleteIsMutual == Complete => Mutual
BY DEF Complete, Mutual

LEMMA CompleteInvariance ==
    ASSUME Complete
    PROVE  Spec => [](IInv /\ ViewInv /\ RoundInv /\ LoneInv)
<1>1. Init => IInv /\ LoneInv
  BY InitHolds DEF Init, LoneInv, Halted
<1>2. IInv /\ LoneInv /\ [Next]_vars => (IInv /\ LoneInv)'
  BY StepHolds, LoneStep
<1>3. Spec => [](IInv /\ ViewInv /\ RoundInv)
  BY CompleteIsMutual, RoundsInvariance
<1>. QED
  BY <1>1, <1>2, <1>3, PTL DEF Spec

(* mgm.c:105, "stop algorithm if no agent has changed its resource         *)
(* assignment": an agent that stops for that reason has compared itself    *)
(* with all the others, and none of them has found an improvement, or will *)
(* before it stops too.                                                    *)
THEOREM StopsAreNotEarly ==
    ASSUME Complete
    PROVE  Spec => []OnlyOvertakenStopsAreEarly
<1>1. ASSUME IInv, RoundInv, LoneInv, NEW a \in Agents, why[a] = "stale", NEW b \in Agents
      PROVE  mgm[b].improve = 0
  <2>1. Halted(a) /\ Neighbors(a) # {}
    BY <1>1 DEF Halted, LoneInv
  <2>2. /\ \A c \in Neighbors(a) : Compared(a, c)
        /\ mgm[a].stale /\ mgm[a].improve = 0
    BY <1>1, <2>1 DEF RoundInv, HaltInv
  <2>3. CASE b = a
    BY <2>2, <2>3
  <2>4. CASE b # a
    <3>1. b \in Neighbors(a)
      BY <2>4 DEF Complete
    <3>2. StaleLink(a, b)
      BY <1>1, <3>1, RoundFacts
    <3>. QED
      BY <2>2, <3>1, <3>2 DEF StaleLink
  <2>. QED
    BY <2>3, <2>4
<1>2. IInv /\ RoundInv /\ LoneInv => OnlyOvertakenStopsAreEarly
  BY <1>1 DEF OnlyOvertakenStopsAreEarly, Quiet
<1>. QED
  BY <1>2, CompleteInvariance, PTL

-----------------------------------------------------------------------------
(* How agents that all have constraints with each other end.  Only one     *)
(* that has stopped in send_ok (Halted) tells it to its neighbors, and has *)
(* nothing else to tell; who stops for that has read the sender's last     *)
(* improvement before, if it was waiting for it.                           *)
InOrder(list, c) ==
    \A i, j \in DOMAIN list :
        IsFrom(list[i], c, "END") /\ IsFrom(list[j], c, "IMPROVE") => j < i

EndedBy(a, c) == Halted(c) /\ (Improving(a) => ~ Holds(queue[a], c, "IMPROVE"))

Gone(a) == roi[a] \in {"waitStop", "wokenStop", "outside"}

StopInv(a) ==
    /\ stop[a] => Halted(a) \/ \E c \in Neighbors(a) : EndedBy(a, c)
    /\ Gone(a) => stop[a]

(* An IMPROVE message on its way tells the utility that its sender still   *)
(* has.                                                                    *)
TellsEval(m) == m.kind = "IMPROVE" => m.eval = mgm[m.from].eval

OutMail(a) ==
    \A i \in DOMAIN out[a] : /\ out[a][i].msg.kind = "END" <=> Halted(a)
                             /\ TellsEval(out[a][i].msg)

InMail(a) ==
    /\ \A i \in DOMAIN queue[a] :
          /\ TellsEval(queue[a][i])
          /\ queue[a][i].kind = "END" =>
                queue[a][i].from \in Neighbors(a) /\ Halted(queue[a][i].from)
    /\ \A c \in Neighbors(a) : InOrder(queue[a], c)

(* What an agent has made of the utilities it was told: its assignment is  *)
(* consistent as long as nobody that it has seen in this round, or else in *)
(* the last one, has told it of INF.  A doubt goes stale when the neighbor *)
(* is already a phase ahead, with a new utility.                           *)
Seen(a, b) ==
    \/ Compared(a, b)
    \/ ~ Improving(a) /\ Phase(a) > 2 /\ Phase(b) <= Phase(a)

Doubts(a, b) ==
    \/ (Improving(a) => Compared(a, b)) /\ mgm[b].eval = "INF"
    \/ ~ Improving(a) /\ Phase(b) > Phase(a)

EvalInv(a) ==
    /\ Phase(a) = 0 => mgm[a].eval = "finite"
    /\ ~ mgm[a].consistent => Phase(a) > 2 /\ \E b \in Neighbors(a) : Doubts(a, b)
    /\ \A b \in Neighbors(a) : Seen(a, b) /\ mgm[a].consistent => mgm[b].eval # "INF"

(* main collects verdicts from agents that have left the region.           *)
Joined(a) == main.phase \in {"merge", "done"} \/ (main.phase = "join" /\ a < main.next)

MainInv ==
    /\ \A a \in Agents : Joined(a) => roi[a] = "outside"
    /\ verdict <=> \A a \in Agents : Joined(a) => mgm[a].consistent
    /\ ~ warned

EndInv ==
    /\ \A a \in Agents : OutMail(a) /\ InMail(a) /\ StopInv(a) /\ EvalInv(a)
    /\ MainInv

-----------------------------------------------------------------------------
(* An MGM_END stays behind what its sender has sent before, and is taken   *)
(* when no improvement of its sender is left.                              *)
LEMMA AppendedInOrder ==
    ASSUME NEW list \in Seq(Messages), NEW m \in Messages, NEW q, q = Append(list, m),
           NEW c, InOrder(list, c),
           IsFrom(m, c, "IMPROVE") => ~ Holds(list, c, "END")
    PROVE  InOrder(q, c)
<1>1. Len(list) \in Nat /\ DOMAIN list = 1 .. Len(list)
  OBVIOUS
<1>2. /\ DOMAIN q = 1 .. Len(list) + 1 /\ q[Len(list) + 1] = m
      /\ \A i \in DOMAIN list : q[i] = list[i]
  BY <1>1
<1>3. ASSUME NEW i \in DOMAIN q, NEW j \in DOMAIN q,
             IsFrom(q[i], c, "END"), IsFrom(q[j], c, "IMPROVE")
      PROVE  j < i
  <2>1. i # j
    BY <1>3 DEF IsFrom
  <2>2. CASE i = Len(list) + 1
    BY <1>1, <1>2, <2>1, <2>2
  <2>3. CASE i # Len(list) + 1
    <3>1. i \in DOMAIN list /\ q[i] = list[i]
      BY <1>1, <1>2, <2>3
    <3>2. Holds(list, c, "END")
      BY <1>3, <3>1 DEF Holds
    <3>3. j # Len(list) + 1
      BY <1>2, <1>3, <3>2
    <3>4. j \in DOMAIN list /\ q[j] = list[j]
      BY <1>1, <1>2, <3>3
    <3>. QED
      BY <1>3, <3>1, <3>4 DEF InOrder
  <2>. QED
    BY <2>2, <2>3
<1>. QED
  BY <1>3 DEF InOrder

LEMMA TakenInOrder ==
    ASSUME NEW list \in Seq(Messages), NEW kinds, Acceptable(list, kinds) # {},
           NEW m, m = Found(list, kinds), NEW q, q = Unlinked(list, kinds),
           NEW c, InOrder(list, c)
    PROVE  /\ InOrder(q, c)
           /\ IsFrom(m, c, "END") /\ "IMPROVE" \in kinds => ~ Holds(q, c, "IMPROVE")
<1>. DEFINE f == FirstAcceptable(list, kinds)
            Old(i) == IF i < f THEN i ELSE i + 1
<1>1. /\ f \in 1 .. Len(list) /\ m = list[f]
      /\ \A i \in 1 .. f - 1 : list[i].kind \notin kinds
  BY FirstAcceptableProperties DEF Found
<1>2. /\ q \in Seq(Messages) /\ Len(q) = Len(list) - 1
      /\ \A i \in 1 .. Len(list) - 1 : q[i] = IF i < f THEN list[i] ELSE list[i + 1]
  BY <1>1, RemoveAtType DEF Unlinked
<1>3. DOMAIN list = 1 .. Len(list) /\ DOMAIN q = 1 .. Len(list) - 1 /\ Len(list) \in Nat
  BY <1>2
<1>. HIDE DEF f
<1>4. \A i \in DOMAIN q : Old(i) \in DOMAIN list /\ Old(i) # f /\ q[i] = list[Old(i)]
  BY <1>1, <1>2, <1>3
<1>5. \A i, j \in DOMAIN q : Old(j) < Old(i) => j < i
  BY <1>1, <1>3
<1>6. f \in DOMAIN list /\ \A j \in DOMAIN list : j < f => list[j].kind \notin kinds
  BY <1>1, <1>3
<1>. HIDE DEF Old
<1>7. InOrder(q, c)
  BY <1>4, <1>5 DEF InOrder
<1>8. ASSUME IsFrom(m, c, "END"), "IMPROVE" \in kinds, Holds(q, c, "IMPROVE")
      PROVE  FALSE
  <2>1. PICK i \in DOMAIN q : IsFrom(q[i], c, "IMPROVE")
    BY <1>8 DEF Holds
  <2>2. Old(i) < f
    BY <1>1, <1>4, <1>6, <1>8, <2>1 DEF InOrder
  <2>3. list[Old(i)].kind \notin kinds
    BY <1>4, <1>6, <2>2
  <2>. QED
    BY <1>4, <1>8, <2>1, <2>3 DEF IsFrom
<1>. QED
  BY <1>7, <1>8

-----------------------------------------------------------------------------
(* What is true of an agent that has stopped in send_ok, and of its        *)
(* neighbors: in the IMPROVE phase of the same round, or one step ahead.   *)
LEMMA HaltedFacts ==
    ASSUME IInv, RoundInv, NEW c \in Agents, Halted(c), NEW b \in Neighbors(c)
    PROVE  \/ Phase(c) = 0 /\ Phase(b) = 0
           \/ Phase(c) = 1 /\ Phase(b) <= 2 /\ why[c] = "overtaken"
           \/ /\ Improving(c) /\ Compared(c, b) /\ Phase(c) > 2
              /\ \/ Improving(b) /\ Phase(b) = Phase(c)
                 \/ /\ ~ Improving(b) /\ Past(b, c) /\ Phase(b) = Phase(c) + 1
                    /\ mgm[c].stale
<1>1. /\ b \in Agents /\ Round(c) \in Nat /\ Round(b) \in Nat
      /\ Phase(c) = IF Improving(c) THEN 2 * Round(c) + 1 ELSE 2 * Round(c)
      /\ Phase(b) = IF Improving(b) THEN 2 * Round(b) + 1 ELSE 2 * Round(b)
      /\ Reads(c) = IF Round(c) = 0 THEN 1 ELSE Round(c)
      /\ Reads(b) = IF Round(b) = 0 THEN 1 ELSE Round(b)
      /\ InStep(Phase(c), Phase(b))
  BY LinkFacts
<1>2. Round(b) < MaxDistance
  <2>1. mgm[b].term \in Nat /\ mgm[b].term <= MaxDistance /\ MaxDistance \in Nat
    BY <1>1, AgentTypes, DistanceAssumption DEF IInv
  <2>2. AgentInv(b)
    BY <1>1 DEF IInv
  <2>. QED
    BY <2>1, <2>2 DEF AgentInv, Round
<1>3. HaltInv(c)
  BY RoundFacts
<1>4. CASE Phase(c) = 0 /\ MaxDistance = 1
  <2>1. Round(b) = 0
    BY <1>1, <1>2, <1>4
  <2>2. Phase(b) # 1
    BY <1>1, <1>4 DEF InStep
  <2>. QED
    BY <1>1, <1>4, <2>1, <2>2
<1>5. CASE Phase(c) = 1 /\ why[c] = "overtaken"
  <2>1. Phase(b) <= 2
    BY <1>1, <1>5 DEF InStep
  <2>. QED
    BY <1>5, <2>1
<1>6. CASE /\ Improving(c) /\ Round(c) > 0 /\ Compared(c, b)
           /\ \/ Round(c) + 1 = MaxDistance
              \/ mgm[c].stale
  <2>1. Phase(c) = 2 * Round(c) + 1 /\ Phase(c) > 2
    BY <1>1, <1>6
  <2>2. Phase(b) >= Phase(c) /\ Phase(b) <= Phase(c) + 1
    BY <1>1, <1>6, <2>1 DEF InStep, Compared
  <2>3. CASE Improving(b)
    <3>1. Phase(b) = Phase(c)
      BY <1>1, <2>1, <2>2, <2>3
    <3>. QED
      BY <1>6, <2>1, <2>3, <3>1
  <2>4. CASE ~ Improving(b)
    <3>1. Round(b) = Round(c) + 1 /\ Phase(b) = Phase(c) + 1
      BY <1>1, <2>1, <2>2, <2>4
    <3>2. mgm[c].stale
      BY <1>1, <1>2, <1>6, <3>1
    <3>3. Past(b, c)
      BY <1>1, <1>6, <2>4, <3>1 DEF Past, Step
    <3>. QED
      BY <1>6, <2>1, <2>4, <3>1, <3>2, <3>3
  <2>. QED
    BY <2>3, <2>4
<1>. QED
  BY <1>3, <1>4, <1>5, <1>6 DEF HaltInv

(* Its view is final, and all its neighbors have it.                       *)
LEMMA FinalView ==
    ASSUME IInv, ViewInv, RoundInv, NEW c \in Agents, Halted(c), NEW b \in Neighbors(c)
    PROVE  view[b] = view[c]
<1>1. /\ ViewLink(c, b) /\ FirstLink(c, b) /\ StaleLink(c, b) /\ SearchInv(b)
      /\ b \in Agents
  BY RoundFacts, NeighborFacts DEF ViewInv
<1>2. CASE (Phase(c) = 0 /\ Phase(b) = 0) \/ (Phase(c) = 1 /\ Phase(b) <= 2)
  BY <1>1, <1>2 DEF FirstLink
<1>3. CASE Improving(c) /\ Improving(b)
  BY <1>1, <1>3 DEF ViewLink
<1>4. CASE Improving(c) /\ Compared(c, b) /\ Past(b, c) /\ mgm[c].stale
  <2>1. mgm[b].improve = 0
    BY <1>1, <1>4 DEF StaleLink
  <2>2. ~ mgm[b].can_move
    BY <1>1, <2>1 DEF SearchInv
  <2>. QED
    BY <1>1, <1>4, <2>2 DEF ViewLink
<1>. QED
  BY <1>2, <1>3, <1>4, HaltedFacts

-----------------------------------------------------------------------------
(* Results that stay as they are.                                          *)
SameResult(a) ==
    /\ SamePhase(a) /\ mgm'[a].eval = mgm[a].eval
    /\ mgm'[a].consistent = mgm[a].consistent

LEMMA ResultKept ==
    ASSUME NEW a \in Agents, SameResult(a), EvalInv(a),
           \A b \in Neighbors(a) : /\ Compared(a, b)' <=> Compared(a, b)
                                   /\ SamePhase(b) /\ mgm'[b].eval = mgm[b].eval
    PROVE  EvalInv(a)'
<1>1. /\ Improving(a)' <=> Improving(a)
      /\ Phase(a)' = Phase(a)
      /\ \A b \in Neighbors(a) : Phase(b)' = Phase(b)
  BY DEF SameResult, SamePhase
<1>2. \A b \in Neighbors(a) : (Seen(a, b)' <=> Seen(a, b)) /\ (Doubts(a, b)' <=> Doubts(a, b))
  BY <1>1 DEF Seen, Doubts
<1>. QED
  BY <1>1, <1>2 DEF EvalInv, SameResult

(* A neighbor p of an agent a that goes on, or comes up with a new result  *)
(* when it has no longer been seen in this round.                          *)
GoesOn(a, p) ==
    /\ Phase(a)' >= Phase(a)
    /\ \/ /\ mgm'[a].eval = mgm[a].eval
          /\ Compared(p, a)' <=> Compared(p, a)
       \/ /\ ~ Compared(p, a) /\ ~ Compared(p, a)'
          /\ ~ Improving(p) /\ Phase(p) > 2 => Phase(a)' > Phase(p)

LEMMA NeighborResult ==
    ASSUME IInv, NEW a \in Agents, Phase(a)' \in Int, NEW p \in Neighbors(a), EvalInv(p), Same(p), GoesOn(a, p),
           \A b \in Neighbors(p) \ {a} : /\ Compared(p, b)' <=> Compared(p, b)
                                         /\ Same(b)
    PROVE  EvalInv(p)'
<1>1. /\ Improving(p)' <=> Improving(p)
      /\ Phase(p)' = Phase(p) /\ mgm'[p] = mgm[p]
      /\ \A b \in Neighbors(p) \ {a} : Phase(b)' = Phase(b) /\ mgm'[b] = mgm[b]
  BY SameFacts DEF Same
<1>2. \A b \in Neighbors(p) \ {a} :
         (Seen(p, b)' <=> Seen(p, b)) /\ (Doubts(p, b)' <=> Doubts(p, b))
  BY <1>1 DEF Seen, Doubts
<1>3. Phase(a) \in Int /\ Phase(p) \in Int
  <2>1. p \in Agents /\ AgentInv(a) /\ AgentInv(p) /\ TypeOK
    BY NeighborFacts DEF IInv
  <2>2. /\ Round(a) \in Nat /\ Round(p) \in Nat
        /\ Phase(a) = IF Improving(a) THEN 2 * Round(a) + 1 ELSE 2 * Round(a)
        /\ Phase(p) = IF Improving(p) THEN 2 * Round(p) + 1 ELSE 2 * Round(p)
    BY <2>1, PhaseFacts
  <2>. QED
    BY <2>2
<1>4. Seen(p, a)' => Seen(p, a) /\ mgm'[a].eval = mgm[a].eval
  BY <1>1, <1>3 DEF Seen, GoesOn
<1>5. Phase(p) > 2 /\ Doubts(p, a) => Doubts(p, a)'
  BY <1>1, <1>3 DEF Doubts, GoesOn
<1>6. ~ mgm[p].consistent => \E b \in Neighbors(p) : Doubts(p, b)'
  BY <1>2, <1>5 DEF EvalInv
<1>7. \A b \in Neighbors(p) : Seen(p, b)' /\ mgm[p].consistent => mgm'[b].eval # "INF"
  BY <1>1, <1>2, <1>4 DEF EvalInv
<1>. QED
  BY <1>1, <1>6, <1>7 DEF EvalInv

-----------------------------------------------------------------------------
(* An agent that takes a message: what is to be shown of it.               *)
LEMMA EndTaker ==
    ASSUME IInv, EndInv, NEW a \in Agents, Receives(a), NEW m, m = Message(a),
           NEW k, Answers(a, k), \A p \in Agents \ {a} : Same(p),
           OutMail(a)',
           stop'[a] => Halted(a)' \/ (m.kind = "END" /\ (Improving(a)' => Improving(a))),
           mgm'[a].eval = mgm[a].eval \/ \A c \in Neighbors(a) : ~ Pending(a, c, "IMPROVE"),
           Phase(a)' \in Int, \A p \in Neighbors(a) : GoesOn(a, p),
           EvalInv(a)'
    PROVE  EndInv'
<1>0. /\ TypeOK /\ Takes(a, m) /\ ~ Halted(a) /\ out[a] = <<>> /\ roi[a] = "inside"
      /\ UNCHANGED <<roi, main, verdict, warned>>
  BY ReceivesTakes DEF Receives, IInv
<1>1. /\ \A p \in Agents : Halted(p) => Halted(p)' /\ p # a
      /\ \A p \in Agents \ {a} : /\ Halted(p)' <=> Halted(p)
                                 /\ Improving(p)' <=> Improving(p)
                                 /\ mgm'[p] = mgm[p] /\ stop'[p] = stop[p]
                                 /\ queue'[p] = queue[p] /\ out'[p] = out[p]
  BY <1>0, SameFacts DEF Same, Takes, Answers
<1>2. \A p \in Agents : OutMail(p) /\ InMail(p) /\ StopInv(p) /\ EvalInv(p) /\ MailInv(p)
  BY DEF EndInv, IInv
<1>3. \A i \in DOMAIN queue'[a] : \E j \in DOMAIN queue[a] : queue'[a][i] = queue[a][j]
  BY <1>0 DEF Takes
<1>4. \A c \in Neighbors(a) :
         /\ InOrder(queue'[a], c)
         /\ IsFrom(m, c, "END") /\ Improving(a) => ~ Holds(queue'[a], c, "IMPROVE")
  <2>1. PICK list, kinds, q : list = queue[a] /\ kinds = Accepted(mode[a]) /\ q = queue'[a]
    OBVIOUS
  <2>2. /\ list \in Seq(Messages) /\ Acceptable(list, kinds) # {}
        /\ m = Found(list, kinds) /\ q = Unlinked(list, kinds)
    BY <1>0, <2>1 DEF Receives, Message, TypeOK
  <2>3. Improving(a) => "IMPROVE" \in kinds
    BY <2>1 DEF Improving, Accepted
  <2>4. \A c \in Neighbors(a) : InOrder(list, c)
    BY <1>2, <2>1 DEF InMail
  <2>5. ASSUME NEW c \in Neighbors(a)
        PROVE  /\ InOrder(q, c)
               /\ IsFrom(m, c, "END") /\ "IMPROVE" \in kinds => ~ Holds(q, c, "IMPROVE")
    BY <2>2, <2>4, <2>5, TakenInOrder
  <2>. QED
    BY <2>1, <2>3, <2>5
<1>5. ASSUME NEW p \in Agents PROVE InMail(p)'
  <2>1. ASSUME NEW i \in DOMAIN queue'[p]
        PROVE  (TellsEval(queue[p][i]) /\ (queue[p][i].kind = "END" =>
                   queue[p][i].from \in Neighbors(p) /\ Halted(queue[p][i].from)))'
    <3>1. PICK j \in DOMAIN queue[p] : queue'[p][i] = queue[p][j]
      BY <1>1, <1>3, <2>1
    <3>2. PICK b : b = queue[p][j].from
      OBVIOUS
    <3>3. ASSUME queue[p][j].kind = "END"
          PROVE  queue'[p][i].from \in Neighbors(p) /\ (Halted(queue[p][i].from))'
      <4>1. b \in Neighbors(p) /\ Halted(b) /\ b \in Agents
        BY <1>2, <3>2, <3>3, NeighborFacts DEF InMail
      <4>2. Halted(b)'
        BY <1>1, <4>1
      <4>. QED
        BY <3>1, <3>2, <4>1, <4>2
    <3>4. ASSUME queue[p][j].kind = "IMPROVE"
          PROVE  queue[p][j].eval = mgm'[b].eval
      <4>1. /\ b \in Neighbors(p) /\ b \in Agents
            /\ queue[p][j].eval = mgm[b].eval
        BY <1>2, <3>2, <3>4, NeighborFacts DEF InMail, TellsEval, MailInv, Phases
      <4>2. CASE b # a
        BY <1>1, <4>1, <4>2
      <4>3. CASE b = a
        <5>1. p \in Neighbors(a)
          BY <4>1, <4>3, NeighborFacts
        <5>2. Pending(a, p, "IMPROVE")
          BY <3>2, <3>4, <4>3 DEF Pending, Holds, IsFrom
        <5>3. mgm'[a].eval = mgm[a].eval
          BY <5>1, <5>2
        <5>. QED
          BY <4>1, <4>3, <5>3
      <4>. QED
        BY <4>2, <4>3
    <3>. QED
      BY <3>1, <3>2, <3>3, <3>4 DEF TellsEval
  <2>2. \A c \in Neighbors(p) : InOrder(queue'[p], c)
    <3>1. p # a => queue'[p] = queue[p]
      BY <1>1
    <3>. QED
      BY <1>2, <1>4, <3>1 DEF InMail
  <2>. QED
    BY <2>1, <2>2 DEF InMail
<1>6. ASSUME NEW p \in Agents PROVE StopInv(p)'
  <2>1. Gone(p)' <=> Gone(p)
    BY <1>0 DEF Gone
  <2>2. CASE p = a
    <3>1. ~ Gone(a)
      BY <1>0 DEF Gone
    <3>2. ASSUME stop'[a], ~ Halted(a)' PROVE \E c \in Neighbors(a) : EndedBy(a, c)'
      <4>1. m.kind = "END" /\ (Improving(a)' => Improving(a))
        BY <3>2
      <4>2. PICK j \in DOMAIN queue[a] : m = queue[a][j]
        BY <1>0, TakenMessage
      <4>3. m.from \in Neighbors(a) /\ Halted(m.from) /\ m.from \in Agents
        BY <1>2, <4>1, <4>2, NeighborFacts DEF InMail
      <4>4. Halted(m.from)' /\ IsFrom(m, m.from, "END")
        BY <1>1, <4>1, <4>3 DEF IsFrom
      <4>5. Improving(a)' => ~ Holds(queue'[a], m.from, "IMPROVE")
        BY <1>4, <4>1, <4>3, <4>4
      <4>. QED
        BY <4>3, <4>4, <4>5 DEF EndedBy
    <3>. QED
      BY <2>1, <2>2, <3>1, <3>2 DEF StopInv
  <2>3. CASE p # a
    <3>1. \A c \in Neighbors(p) : EndedBy(p, c) => EndedBy(p, c)'
      BY <1>1, <2>3, NeighborFacts DEF EndedBy
    <3>. QED
      BY <1>1, <1>2, <2>1, <2>3, <3>1 DEF StopInv
  <2>. QED
    BY <2>2, <2>3
<1>7. ASSUME NEW p \in Agents PROVE OutMail(p)'
  <2>1. CASE p = a
    BY <2>1
  <2>2. CASE p # a
    <3>1. /\ out'[p] = out[p] /\ (Halted(p)' <=> Halted(p)) /\ mgm'[p] = mgm[p]
          /\ \A i \in DOMAIN out[p] : out[p][i].msg.from = p
          /\ OutMail(p)
      BY <1>1, <1>2, <2>2 DEF MailInv
    <3>. QED
      BY <3>1 DEF OutMail, TellsEval
  <2>. QED
    BY <2>1, <2>2
<1>8. ASSUME NEW p \in Agents \ {a}, NEW b \in Neighbors(p) \ {a}
      PROVE  Same(b) /\ SamePhase(b) /\ (Compared(p, b)' <=> Compared(p, b))
  <2>1. b \in Agents \ {a} /\ Same(b) /\ SamePhase(p) /\ SamePhase(b)
    BY NeighborFacts, SameFacts
  <2>2. SamePending(b, p)
    BY <1>0, <2>1, PendingElsewhere
  <2>. QED
    BY <2>1, <2>2, ComparedKept
<1>9. ASSUME NEW p \in Agents PROVE EvalInv(p)'
  <2>1. CASE p = a
    BY <2>1
  <2>2. CASE p # a /\ p \in Neighbors(a)
    BY <1>2, <1>8, <2>2, NeighborResult
  <2>3. CASE p # a /\ p \notin Neighbors(a)
    <3>1. SameResult(p)
      BY <2>3, SameFacts DEF SameResult, Same
    <3>2. a \notin Neighbors(p)
      BY <2>3, NeighborFacts
    <3>3. \A b \in Neighbors(p) : /\ Compared(p, b)' <=> Compared(p, b)
                                  /\ SamePhase(b) /\ mgm'[b].eval = mgm[b].eval
      BY <1>8, <2>3, <3>2 DEF Same
    <3>. QED
      BY <1>2, <3>1, <3>3, ResultKept
  <2>. QED
    BY <2>1, <2>2, <2>3
<1>10. MainInv'
  <2>1. MainInv
    BY DEF EndInv
  <2>2. \A p : Joined(p)' <=> Joined(p)
    BY <1>0 DEF Joined
  <2>3. ~ Joined(a)
    BY <1>0, <2>1 DEF MainInv
  <2>. QED
    BY <1>0, <1>1, <2>1, <2>2, <2>3 DEF MainInv
<1>. QED
  BY <1>5, <1>6, <1>7, <1>9, <1>10 DEF EndInv

(* What it says then: nothing, or the same to all.                         *)
LEMMA SilentOut ==
    ASSUME NEW a, out[a] = <<>>, out' = out
    PROVE  OutMail(a)'
BY DEF OutMail

LEMMA AnsweredOut ==
    ASSUME TypeOK, NEW a \in Agents, NEW x \in Messages, x.from = a,
           out' = [out EXCEPT ![a] = ToNeighbors(a, x)],
           x.kind = "END" <=> Halted(a)', x.kind = "IMPROVE" => x.eval = mgm'[a].eval
    PROVE  OutMail(a)'
<1>1. PICK o : o = ToNeighbors(a, x)
  OBVIOUS
<1>2. \A i \in DOMAIN o : o[i].msg = x
  BY <1>1, ToNeighborsFacts
<1>3. out'[a] = o
  BY <1>1 DEF TypeOK
<1>. QED
  BY <1>2, <1>3 DEF OutMail, TellsEval

LEMMA PhaseIsInteger ==
    ASSUME TypeOK, NEW a \in Agents, AgentInv(a)
    PROVE  Phase(a) \in Int /\ Phase(a) >= Phase(a)
<1>1. /\ Round(a) \in Nat
      /\ Phase(a) = IF Improving(a) THEN 2 * Round(a) + 1 ELSE 2 * Round(a)
  BY PhaseFacts
<1>. QED
  BY <1>1

(* An agent that stays in its phase and has no new result.                 *)
LEMMA StaysPut ==
    ASSUME IInv, EndInv, NEW a \in Agents, Receives(a), NEW m, m = Message(a),
           Answers(a, "") \/ Answers(a, "END"), \A p \in Agents \ {a} : Same(p),
           OutMail(a)',
           stop'[a] => Halted(a)' \/ (m.kind = "END" /\ (Improving(a)' => Improving(a))),
           SamePhase(a), mgm'[a].eval = mgm[a].eval, EvalInv(a)'
    PROVE  EndInv'
<1>1. Takes(a, m) /\ out[a] = <<>> /\ TypeOK /\ AgentInv(a)
  BY ReceivesTakes DEF IInv
<1>2. Phase(a) \in Int /\ Phase(a)' \in Int /\ Phase(a)' >= Phase(a)
  <2>1. Phase(a) \in Int /\ Phase(a) >= Phase(a) /\ Phase(a)' = Phase(a)
    BY <1>1, PhaseIsInteger DEF SamePhase
  <2>. QED
    BY <2>1
<1>3. ASSUME NEW p \in Neighbors(a) PROVE GoesOn(a, p)
  <2>1. p \in Agents \ {a} /\ SamePhase(p)
    BY NeighborFacts, SameFacts
  <2>2. SamePending(a, p)
    BY <1>1, PendingFromSilent
  <2>3. Compared(p, a)' <=> Compared(p, a)
    BY <2>1, <2>2, ComparedKept
  <2>. QED
    BY <1>2, <2>3 DEF GoesOn
<1>4. PICK k : Answers(a, k)
  OBVIOUS
<1>. QED
  BY <1>2, <1>3, <1>4, EndTaker

LEMMA StaysTheSame ==
    ASSUME IInv, EndInv, NEW a \in Agents, Receives(a), NEW m, m = Message(a),
           Answers(a, "") \/ Answers(a, "END"), \A p \in Agents \ {a} : Same(p),
           OutMail(a)',
           stop'[a] => Halted(a)' \/ (m.kind = "END" /\ (Improving(a)' => Improving(a))),
           SameResult(a), \A b \in Neighbors(a) : Compared(a, b)' <=> Compared(a, b)
    PROVE  EndInv'
<1>1. \A b \in Neighbors(a) : SamePhase(b) /\ mgm'[b].eval = mgm[b].eval
  BY NeighborFacts, SameFacts DEF Same
<1>2. EvalInv(a)'
  BY <1>1, ResultKept DEF EndInv
<1>. QED
  BY <1>2, StaysPut DEF SameResult

LEMMA OkButNotLastEnd ==
    ASSUME IInv, EndInv, NEW a \in Agents, OkButNotLast(a)
    PROVE  EndInv'
<1>1. PICK m : m = Message(a)
  OBVIOUS
<1>2. /\ Receives(a) /\ m.kind = "OK" /\ TypeOK
      /\ agent_view' = [agent_view EXCEPT ![a] = Told(a)]
      /\ counter' = [counter EXCEPT ![a] = Counted(a)]
      /\ UNCHANGED <<view, mgm, mode, stop, out, why>>
  BY <1>1 DEF OkButNotLast, IInv
<1>3. Takes(a, m) /\ ~ stop[a] /\ ~ Halted(a) /\ out[a] = <<>> /\ ~ Improving(a)
  <2>1. Takes(a, m) /\ ~ stop[a] /\ ~ Halted(a) /\ out[a] = <<>>
    BY <1>1, <1>2, ReceivesTakes
  <2>. QED
    BY <1>2, <2>1, OkRead
<1>4. \A p \in Agents \ {a} : Same(p)
  BY <1>2 DEF TypeOK, Same
<1>5. Answers(a, "") /\ OutMail(a)'
  BY <1>2, <1>3, Silence, SilentOut
<1>6. Round(a)' = Round(a) /\ ~ Improving(a)'
  BY <1>2, <1>3 DEF Round, Halted, Improving
<1>7. SameResult(a)
  BY <1>2, <1>6, PhaseKept DEF SameResult
<1>8. \A b \in Neighbors(a) : Compared(a, b)' <=> Compared(a, b)
  BY <1>3, <1>6 DEF Compared
<1>. QED
  BY <1>1, <1>2, <1>3, <1>4, <1>5, <1>7, <1>8, StaysTheSame

LEMMA EndEnd ==
    ASSUME IInv, EndInv, NEW a \in Agents, End(a)
    PROVE  EndInv'
<1>1. PICK m : m = Message(a)
  OBVIOUS
<1>2. /\ Receives(a) /\ m.kind = "END" /\ TypeOK
      /\ UNCHANGED <<view, agent_view, mgm, mode, counter, out>>
      /\ stop' = [stop EXCEPT ![a] = TRUE] /\ why' = [why EXCEPT ![a] = "end"]
  BY <1>1 DEF End, IInv
<1>3. Takes(a, m) /\ ~ Halted(a) /\ out[a] = <<>>
  BY <1>1, <1>2, ReceivesTakes
<1>4. \A p \in Agents \ {a} : Same(p)
  BY <1>2 DEF TypeOK, Same
<1>5. Answers(a, "") /\ OutMail(a)'
  BY <1>2, <1>3, Silence, SilentOut
<1>6. /\ ~ Halted(a)' /\ Round(a)' = Round(a) /\ (Improving(a)' <=> Improving(a))
      /\ \A c : Heard(a, c)' <=> Heard(a, c)
  <2>1. why'[a] = "end"
    BY <1>2 DEF TypeOK
  <2>2. ~ Halted(a)'
    BY <2>1 DEF Halted
  <2>3. \A c : Heard(a, c)' <=> Heard(a, c)
    BY <1>2 DEF Heard, Cleared
  <2>. QED
    BY <1>2, <1>3, <2>2, <2>3 DEF Round, Improving
<1>7. SameResult(a)
  BY <1>2, <1>6, PhaseKept DEF SameResult
<1>8. \A b \in Neighbors(a) : Compared(a, b)' <=> Compared(a, b)
  <2>1. m.kind \notin Phases /\ SamePhase(a)
        /\ mgm'[a].improve = mgm[a].improve /\ mgm'[a].can_move = mgm[a].can_move
    BY <1>2, <1>7 DEF Phases, SameResult
  <2>. QED
    BY <1>3, <1>4, <1>5, <1>6, <2>1, LinksAfterControl
<1>. QED
  BY <1>1, <1>2, <1>4, <1>5, <1>6, <1>7, <1>8, StaysTheSame

LEMMA SendOkOut ==
    ASSUME TypeOK, NEW a \in Agents, NEW s \in MgmAgents, SendOk(a, s), s.term < MaxDistance,
           Message(a).kind \in {"IMPROVE", "START"}, Halted(a)' <=> Halts(s)
    PROVE  OutMail(a)'
<1>1. PICK v \in KnownViewsOver(Agents), x \in Messages : SentOk(a, s, v, x)
  BY SendOkEffect
<1>2. /\ out' = [out EXCEPT ![a] = ToNeighbors(a, x)]
      /\ x.from = a /\ x.kind = IF Halts(s) THEN "END" ELSE "OK"
  BY <1>1 DEF SentOk
<1>. QED
  BY <1>2, AnsweredOut

LEMMA StartHaltsEnd ==
    ASSUME IInv, EndInv, NEW a \in Agents, Start(a), Halts(mgm[a])
    PROVE  EndInv'
<1>1. PICK m : m = Message(a)
  OBVIOUS
<1>2. /\ Takes(a, m) /\ m.kind = "START" /\ Answers(a, "END") /\ out[a] = <<>>
      /\ \A p \in Agents \ {a} : Same(p)
      /\ ~ Halted(a) /\ Halted(a)' /\ SamePhase(a) /\ agent_view' = agent_view
      /\ mgm'[a].can_move = mgm[a].can_move /\ mgm'[a].improve = mgm[a].improve
      /\ mgm'[a].eval = mgm[a].eval /\ mgm'[a].consistent = mgm[a].consistent
  BY <1>1, StartHaltsEffect
<1>3. TypeOK /\ Receives(a) /\ SendOk(a, mgm[a]) /\ mgm[a] \in MgmAgents
      /\ mgm[a].term < MaxDistance
  <2>1. TypeOK /\ AgentInv(a)
    BY DEF IInv
  <2>. QED
    BY <1>2, <2>1, AgentTypes DEF Start, AgentInv
<1>4. OutMail(a)'
  BY <1>1, <1>2, <1>3, SendOkOut
<1>5. SameResult(a)
  BY <1>2 DEF SameResult
<1>6. \A b \in Neighbors(a) : Compared(a, b)' <=> Compared(a, b)
  <2>1. m.kind \notin Phases /\ \A c \in Agents : Heard(a, c)' <=> Heard(a, c)
    BY <1>2 DEF Phases, Heard, Cleared
  <2>. QED
    BY <1>2, <2>1, LinksAfterControl
<1>. QED
  BY <1>1, <1>2, <1>3, <1>4, <1>5, <1>6, StaysTheSame

LEMMA StartGoesOnEnd ==
    ASSUME IInv, EndInv, NEW a \in Agents, Start(a), ~ Halts(mgm[a])
    PROVE  EndInv'
<1>1. PICK m : m = Message(a)
  OBVIOUS
<1>2. /\ Takes(a, m) /\ m.kind = "START" /\ Answers(a, "OK") /\ out[a] = <<>>
      /\ \A p \in Agents \ {a} : Same(p)
      /\ Phase(a) = 0 /\ ~ Halted(a)
      /\ ~ Improving(a)' /\ ~ Halted(a)' /\ Phase(a)' = 2
  BY <1>1, StartGoesOnEffect
<1>3. TypeOK /\ Receives(a) /\ SendOk(a, mgm[a]) /\ mgm[a] \in MgmAgents
      /\ mgm[a].term < MaxDistance /\ ~ stop'[a] /\ mgm' = [mgm EXCEPT ![a] = Advanced(@)]
  <2>1. TypeOK /\ AgentInv(a)
    BY DEF IInv
  <2>. QED
    BY <1>2, <2>1, AgentTypes DEF Start, SendOk, AgentInv, TypeOK
<1>4. OutMail(a)'
  BY <1>1, <1>2, <1>3, SendOkOut
<1>5. mgm'[a].eval = mgm[a].eval /\ mgm'[a].consistent = mgm[a].consistent
  <2>1. mgm'[a] = Advanced(mgm[a])
    BY <1>3 DEF TypeOK
  <2>. QED
    BY <1>3, <2>1 DEF Advanced, MgmAgents
<1>6. EvalInv(a)'
  <2>1. EvalInv(a)
    BY DEF EndInv
  <2>2. mgm'[a].consistent
    BY <1>2, <1>5, <2>1 DEF EvalInv
  <2>3. \A b \in Neighbors(a) : ~ Seen(a, b)'
    BY <1>2 DEF Seen, Compared
  <2>. QED
    BY <1>2, <2>2, <2>3 DEF EvalInv
<1>7. ASSUME NEW p \in Neighbors(a) PROVE GoesOn(a, p)
  <2>0. p \in Agents \ {a} /\ Round(p) \in Nat
        /\ Phase(p) = IF Improving(p) THEN 2 * Round(p) + 1 ELSE 2 * Round(p)
    BY LinkFacts
  <2>1. SamePhase(p)
    BY <1>2, <2>0, SameFacts
  <2>2. Improving(p) /\ Round(p) > 0 => ~ (0 >= Phase(p)) /\ ~ (2 >= Phase(p))
    BY <2>0
  <2>3. ~ Compared(p, a) /\ ~ Compared(p, a)'
    BY <1>2, <2>1, <2>2 DEF Compared, SamePhase
  <2>. QED
    BY <1>2, <1>5, <2>3 DEF GoesOn
<1>. QED
  BY <1>1, <1>2, <1>3, <1>4, <1>5, <1>6, <1>7, EndTaker

(* An agent that reads an IMPROVE message: the result in it is that of its *)
(* sender, as it still is.                                                 *)
LEMMA ResultRead ==
    ASSUME IInv, EndInv, NEW a \in Agents, Receives(a), NEW m, m = Message(a),
           m.kind = "IMPROVE"
    PROVE  m.eval = mgm[m.from].eval
<1>1. PICK j \in DOMAIN queue[a] : m = queue[a][j]
  BY TakenMessage DEF IInv
<1>. QED
  BY <1>1 DEF EndInv, InMail, TellsEval

LEMMA LaterPhase == \A r \in Nat : r > 0 => 2 * r + 1 > 2 /\ 2 * r + 1 # 0
OBVIOUS

LEMMA NotedEnd ==
    ASSUME IInv, EndInv, NEW a \in Agents, Receives(a), NEW m, m = Message(a),
           m.kind = "IMPROVE", Answers(a, "") \/ Answers(a, "END"),
           \A p \in Agents \ {a} : Same(p), OutMail(a)', stop'[a] => Halted(a)',
           SamePhase(a), agent_view' = agent_view, mgm'[a].improve = mgm[a].improve,
           mgm'[a].can_move => mgm[a].can_move /\ Beats(a, m.from),
           mgm'[a].eval = mgm[a].eval,
           mgm'[a].consistent = (mgm[a].consistent /\ m.eval # "INF")
    PROVE  EndInv'
<1>1. Takes(a, m) /\ ~ Halted(a) /\ out[a] = <<>> /\ EvalInv(a)
  BY ReceivesTakes DEF EndInv
<1>2. /\ Improving(a) /\ m.from \in Neighbors(a) /\ Round(a) > 0
      /\ m.eval = mgm[m.from].eval /\ Improving(a)'
  BY <1>1, ImproveRead, ResultRead DEF SamePhase
<1>3. Phase(a) > 2 /\ Phase(a)' > 2 /\ Phase(a)' # 0
  <2>1. Round(a) \in Nat /\ Phase(a) = 2 * Round(a) + 1
    BY <1>2, PhaseFacts DEF IInv
  <2>2. Phase(a) > 2 /\ Phase(a) # 0
    BY <1>2, <2>1, LaterPhase
  <2>. QED
    BY <2>2 DEF SamePhase
<1>4. ComparedWith(a)' = ComparedWith(a) \union {m.from}
  <2>1. \A c \in Agents : Heard(a, c)' <=> Heard(a, c)
    BY DEF Heard, Cleared
  <2>. QED
    BY <1>1, <2>1, LinksAfterImprove
<1>5. \A b \in Neighbors(a) : mgm'[b] = mgm[b]
  BY NeighborFacts DEF Same
<1>6. /\ \A b \in Neighbors(a) : Compared(a, b)' <=> Compared(a, b) \/ b = m.from
  BY <1>2, <1>4 DEF ComparedWith
<1>7. ~ mgm'[a].consistent => \E b \in Neighbors(a) : Doubts(a, b)'
  <2>1. CASE m.eval = "INF"
    <3>1. Doubts(a, m.from)'
      BY <1>2, <1>5, <1>6, <2>1 DEF Doubts
    <3>. QED
      BY <1>2, <3>1
  <2>2. CASE ~ mgm[a].consistent
    <3>1. PICK b \in Neighbors(a) : Doubts(a, b)
      BY <1>1, <2>2 DEF EvalInv
    <3>2. Doubts(a, b)'
      BY <1>2, <1>5, <1>6, <3>1 DEF Doubts
    <3>. QED
      BY <3>2
  <2>. QED
    BY <2>1, <2>2
<1>8. ASSUME NEW b \in Neighbors(a), Seen(a, b)', mgm'[a].consistent
      PROVE  mgm'[b].eval # "INF"
  <2>1. Compared(a, b) \/ b = m.from
    BY <1>2, <1>6, <1>8 DEF Seen
  <2>2. CASE b = m.from
    BY <1>2, <1>5, <1>8, <2>2
  <2>3. CASE Compared(a, b)
    BY <1>1, <1>5, <1>8, <2>3 DEF EvalInv, Seen
  <2>. QED
    BY <2>1, <2>2, <2>3
<1>9. EvalInv(a)'
  BY <1>3, <1>7, <1>8 DEF EvalInv
<1>. QED
  BY <1>9, StaysPut

LEMMA ImproveButNotLastEnd ==
    ASSUME IInv, EndInv, NEW a \in Agents, ImproveButNotLast(a)
    PROVE  EndInv'
<1>1. PICK m : m = Message(a)
  OBVIOUS
<1>2. /\ Receives(a) /\ m.kind = "IMPROVE" /\ TypeOK
      /\ mgm' = [mgm EXCEPT ![a] = Noted(a)]
      /\ counter' = [counter EXCEPT ![a] = Counted(a)]
      /\ UNCHANGED <<view, agent_view, mode, stop, out, why>>
  BY <1>1 DEF ImproveButNotLast, IInv
<1>3. Takes(a, m) /\ ~ stop[a] /\ ~ Halted(a) /\ out[a] = <<>>
  BY <1>1, <1>2, ReceivesTakes
<1>4. \A p \in Agents \ {a} : Same(p)
  BY <1>2 DEF TypeOK, Same
<1>5. Answers(a, "") /\ OutMail(a)'
  BY <1>2, <1>3, Silence, SilentOut
<1>6. /\ mgm'[a] = Noted(a) /\ Noted(a).term = mgm[a].term
      /\ Noted(a).improve = mgm[a].improve
      /\ Noted(a).can_move => mgm[a].can_move /\ Beats(a, m.from)
      /\ Noted(a).eval = mgm[a].eval
      /\ Noted(a).consistent = (mgm[a].consistent /\ m.eval # "INF")
  <2>1. mgm'[a] = Noted(a)
    BY <1>2 DEF TypeOK
  <2>. QED
    BY <1>1, <1>2, <1>3, <2>1, NotedFacts, NotedResult
<1>7. SamePhase(a)
  <2>1. Round(a)' = Round(a)
    BY <1>2, <1>6 DEF Halted, Round
  <2>. QED
    BY <1>2, <2>1, PhaseKept
<1>8. /\ stop'[a] => Halted(a)'
      /\ mgm'[a].improve = mgm[a].improve /\ mgm'[a].eval = mgm[a].eval
      /\ mgm'[a].can_move => mgm[a].can_move /\ Beats(a, m.from)
      /\ mgm'[a].consistent = (mgm[a].consistent /\ m.eval # "INF")
  <2>1. ~ stop'[a]
    BY <1>2, <1>3
  <2>. QED
    BY <1>6, <2>1
<1>9. Receives(a) /\ m.kind = "IMPROVE" /\ agent_view' = agent_view
  BY <1>2
<1>. QED
  BY <1>1, <1>4, <1>5, <1>7, <1>8, <1>9, NotedEnd

LEMMA LastImproveHaltsEnd ==
    ASSUME IInv, EndInv, NEW a \in Agents, LastImprove(a), Halts(NotedAll(a))
    PROVE  EndInv'
<1>1. PICK s, m : s = NotedAll(a) /\ m = Message(a)
  OBVIOUS
<1>2. /\ m.kind = "IMPROVE" /\ Answers(a, "END")
      /\ \A p \in Agents \ {a} : Same(p)
      /\ Halted(a)' /\ SamePhase(a) /\ agent_view' = agent_view
      /\ mgm'[a].improve = mgm[a].improve
      /\ mgm'[a].can_move => mgm[a].can_move /\ Beats(a, m.from)
      /\ mgm'[a].eval = mgm[a].eval
      /\ mgm'[a].consistent = (mgm[a].consistent /\ m.eval # "INF")
  BY <1>1, LastImproveHaltsEffect
<1>3. Receives(a) /\ TypeOK
  BY DEF LastImprove, IInv
<1>4. OutMail(a)'
  <2>1. s \in MgmAgents /\ SendOk(a, s) /\ s.term < MaxDistance
    BY <1>1, LastImproveFacts
  <2>. QED
    BY <1>1, <1>2, <1>3, <2>1, SendOkOut
<1>5. Receives(a)
  BY <1>3
<1>. QED
  BY <1>1, <1>2, <1>4, <1>5, NotedEnd

LEMMA NextPhase ==
    \A r \in Nat : r > 0 => /\ 2 * (r + 1) > 2 /\ 2 * (r + 1) # 0 /\ 2 * (r + 1) \in Int
                            /\ 2 * (r + 1) >= 2 * r + 1
OBVIOUS

LEMMA LastImproveGoesOnEnd ==
    ASSUME IInv, EndInv, NEW a \in Agents, LastImprove(a), ~ Halts(NotedAll(a))
    PROVE  EndInv'
<1>1. PICK s, m : s = NotedAll(a) /\ m = Message(a)
  OBVIOUS
<1>2. /\ Answers(a, "OK") /\ m.kind = "IMPROVE"
      /\ \A p \in Agents \ {a} : Same(p)
      /\ Improving(a) /\ Round(a) > 0 /\ Round(a) \in Nat
      /\ ~ Improving(a)' /\ ~ Halted(a)' /\ Phase(a)' = 2 * (Round(a) + 1)
      /\ ComparedWith(a) \union {m.from} = Neighbors(a) /\ m.from \in Neighbors(a)
  BY <1>1, LastImproveGoesOnEffect
<1>3. Receives(a) /\ TypeOK /\ EvalInv(a)
  BY DEF LastImprove, IInv, EndInv
<1>4. s \in MgmAgents /\ SendOk(a, s) /\ s.term < MaxDistance /\ ~ Halts(s)
  BY <1>1, LastImproveFacts
<1>5. OutMail(a)'
  BY <1>1, <1>2, <1>3, <1>4, SendOkOut
<1>6. ~ stop'[a]
  BY <1>3, <1>4 DEF SendOk, TypeOK
<1>7. /\ mgm'[a].eval = mgm[a].eval
      /\ mgm'[a].consistent = (mgm[a].consistent /\ m.eval # "INF")
  <2>1. mgm'[a] = [Advanced(s) EXCEPT !.changed = FALSE]
    BY <1>1, <1>3, <1>4 DEF LastImprove, NotedAll, TypeOK
  <2>2. mgm'[a].eval = s.eval /\ mgm'[a].consistent = s.consistent
    BY <1>4, <2>1 DEF Advanced, MgmAgents
  <2>. QED
    BY <1>1, <1>3, <2>2, NotedResult
<1>8. /\ Phase(a)' > 2 /\ Phase(a)' # 0 /\ Phase(a)' \in Int /\ Phase(a)' >= Phase(a)
  <2>1. Phase(a) = 2 * Round(a) + 1
    BY <1>2 DEF Phase
  <2>. QED
    BY <1>2, <2>1, NextPhase
<1>9. m.eval = mgm[m.from].eval /\ \A b \in Neighbors(a) : mgm'[b] = mgm[b]
  BY <1>1, <1>2, <1>3, ResultRead, NeighborFacts DEF Same
<1>10. EvalInv(a)'
  <2>1. ASSUME ~ mgm'[a].consistent PROVE \E b \in Neighbors(a) : Doubts(a, b)'
    <3>1. CASE m.eval = "INF"
      <4>1. Doubts(a, m.from)'
        BY <1>2, <1>9, <3>1 DEF Doubts
      <4>. QED
        BY <1>2, <4>1
    <3>2. CASE ~ mgm[a].consistent
      <4>1. PICK b \in Neighbors(a) : Doubts(a, b)
        BY <1>3, <3>2 DEF EvalInv
      <4>2. Doubts(a, b)'
        BY <1>2, <1>9, <4>1 DEF Doubts
      <4>. QED
        BY <4>2
    <3>. QED
      BY <1>7, <2>1, <3>1, <3>2
  <2>2. ASSUME NEW b \in Neighbors(a), mgm'[a].consistent PROVE mgm'[b].eval # "INF"
    <3>1. CASE b = m.from
      BY <1>7, <1>9, <2>2, <3>1
    <3>2. CASE Compared(a, b)
      BY <1>3, <1>7, <1>9, <2>2, <3>2 DEF EvalInv, Seen
    <3>. QED
      BY <1>2, <3>1, <3>2 DEF ComparedWith
  <2>. QED
    BY <1>8, <2>1, <2>2 DEF EvalInv
<1>11. ASSUME NEW p \in Neighbors(a) PROVE GoesOn(a, p)
  BY <1>7, <1>8, ComparedWhenGoingOn DEF GoesOn
<1>. QED
  BY <1>1, <1>2, <1>3, <1>5, <1>6, <1>7, <1>8, <1>10, <1>11, EndTaker

LEMMA SearchPhase ==
    \A r \in Nat : /\ 2 * r + 1 # 0 /\ 2 * r + 1 \in Int /\ 2 * r + 1 >= 2 * r
                   /\ 2 * r + 1 > 2 * r /\ ~ (2 > 2)
OBVIOUS

LEMMA LastOkEnd ==
    ASSUME IInv, IInv', EndInv, NEW a \in Agents, LastOk(a)
    PROVE  EndInv'
<1>1. PICK m : m = Message(a)
  OBVIOUS
<1>2. /\ Takes(a, m) /\ m.kind = "OK" /\ Answers(a, "IMPROVE")
      /\ \A p \in Agents \ {a} : Same(p)
      /\ ~ Improving(a) /\ Improving(a)' /\ ~ Halted(a)'
      /\ Phase(a)' = 2 * Round(a) + 1
      /\ \A b \in Neighbors(a) :
            /\ Round(b) = Reads(a) /\ (Round(a) = 0 => Phase(b) = 2)
            /\ ~ Compared(a, b)' /\ ~ Compared(b, a)' /\ ~ Compared(b, a)
  BY <1>1, LastOkFacts
<1>3. Receives(a) /\ TypeOK /\ ~ stop[a]
  BY <1>1, ReceivesTakes DEF LastOk, IInv
<1>4. PICK g \in MgmAgents, x \in Messages :
              /\ g.term = mgm[a].term /\ g.can_move = (g.improve > 0) /\ g.stale = TRUE
              /\ g.consistent = TRUE /\ x.eval = g.eval
              /\ x.from = a /\ x.kind = "IMPROVE"
              /\ x.improve = g.improve /\ x.term = mgm[a].term
              /\ mgm' = [mgm EXCEPT ![a] = g]
              /\ out' = [out EXCEPT ![a] = ToNeighbors(a, x)]
              /\ view' = [view EXCEPT ![a] = Adopted(a)]
              /\ Adopted(a) \in KnownViewsOver(Agents)
  BY LastOkEffect
<1>5. mgm'[a] = g
  BY <1>3, <1>4 DEF TypeOK
<1>6. OutMail(a)'
  BY <1>2, <1>3, <1>4, <1>5, AnsweredOut
<1>7. ~ stop'[a]
  BY <1>3 DEF LastOk
<1>8. Round(a) \in Nat /\ Phase(a) = 2 * Round(a)
  BY <1>2, <1>3, PhaseFacts DEF IInv
<1>9. Phase(a)' # 0 /\ Phase(a)' \in Int /\ Phase(a)' >= Phase(a)
  BY <1>2, <1>8, SearchPhase
<1>10. EvalInv(a)'
  <2>1. \A b \in Neighbors(a) : ~ Seen(a, b)'
    BY <1>2 DEF Seen
  <2>. QED
    BY <1>4, <1>5, <1>9, <2>1 DEF EvalInv
<1>11. \A c \in Neighbors(a) : ~ Pending(a, c, "IMPROVE")
  BY <1>2, AllHeard
<1>12. ASSUME NEW p \in Neighbors(a) PROVE GoesOn(a, p)
  <2>1. ~ Compared(p, a) /\ ~ Compared(p, a)'
    BY <1>2
  <2>2. ASSUME ~ Improving(p), Phase(p) > 2 PROVE Phase(a)' > Phase(p)
    <3>1. /\ Phase(p) = 2 * Round(p)
          /\ Reads(a) = IF Round(a) = 0 THEN 1 ELSE Round(a)
      BY <2>2, LinkFacts
    <3>2. Round(a) # 0
      BY <1>2, <2>2, SearchPhase, <1>8
    <3>3. Phase(p) = 2 * Round(a)
      BY <1>2, <3>1, <3>2
    <3>. QED
      BY <1>2, <1>8, <3>3, SearchPhase
  <2>. QED
    BY <1>9, <2>1, <2>2 DEF GoesOn
<1>. QED
  BY <1>1, <1>2, <1>3, <1>6, <1>7, <1>9, <1>10, <1>11, <1>12, EndTaker

-----------------------------------------------------------------------------
(* Steps at which no agent takes a message.                                *)
LEMMA UnreadEnd ==
    ASSUME EndInv, UNCHANGED <<view, agent_view, mgm, mode, counter, stop, why>>,
           \A p \in Agents : \A q \in Neighbors(p) : SamePending(q, p),
           \A p \in Agents : OutMail(p)' /\ InMail(p)',
           \A p \in Agents : \A c \in Neighbors(p) :
              Halted(c) /\ Holds(queue'[p], c, "IMPROVE") => Holds(queue[p], c, "IMPROVE"),
           \A p \in Agents : Gone(p)' => Gone(p) \/ stop[p],
           MainInv'
    PROVE  EndInv'
<1>1. \A p : /\ SamePhase(p) /\ SameResult(p) /\ mgm'[p] = mgm[p] /\ stop'[p] = stop[p]
             /\ Halted(p)' <=> Halted(p)
             /\ Improving(p)' <=> Improving(p)
  <2>1. \A p : Same(p)
    BY DEF Same
  <2>. QED
    BY <2>1, SameFacts DEF SameResult, Same
<1>2. ASSUME NEW p \in Agents PROVE StopInv(p)'
  <2>1. StopInv(p)
    BY DEF EndInv
  <2>2. ASSUME NEW c \in Neighbors(p), EndedBy(p, c) PROVE EndedBy(p, c)'
    BY <1>1, <2>2 DEF EndedBy
  <2>. QED
    BY <1>1, <2>1, <2>2 DEF StopInv
<1>3. ASSUME NEW p \in Agents PROVE EvalInv(p)'
  <2>1. \A q \in Neighbors(p) : Compared(p, q)' <=> Compared(p, q)
    BY <1>1, ComparedKept
  <2>2. EvalInv(p)
    BY DEF EndInv
  <2>. QED
    BY <1>1, <2>1, <2>2, ResultKept
<1>. QED
  BY <1>2, <1>3 DEF EndInv

(* A message m reaches the mailbox of d.                                   *)
LEMMA PostedMail ==
    ASSUME TypeOK, \A p \in Agents : InMail(p), NEW d \in Agents, NEW m \in Messages,
           queue' = [queue EXCEPT ![d] = Append(@, m)], mgm' = mgm, why' = why,
           TellsEval(m), m.kind = "END" => m.from \in Neighbors(d) /\ Halted(m.from),
           m.kind = "IMPROVE" => ~ Holds(queue[d], m.from, "END")
    PROVE  \A p \in Agents : InMail(p)'
<1>1. /\ queue'[d] = Append(queue[d], m) /\ queue[d] \in Seq(Messages)
      /\ \A p \in Agents \ {d} : queue'[p] = queue[p]
  BY DEF TypeOK
<1>2. \A c : Halted(c)' <=> Halted(c)
  BY DEF Halted
<1>3. ASSUME NEW p \in Agents PROVE InMail(p)'
  <2>1. ASSUME NEW i \in DOMAIN queue'[p]
        PROVE  /\ TellsEval(queue'[p][i])
               /\ queue'[p][i].kind = "END" =>
                     queue'[p][i].from \in Neighbors(p) /\ Halted(queue'[p][i].from)
    <3>1. (p = d /\ queue'[p][i] = m) \/ \E j \in DOMAIN queue[p] : queue'[p][i] = queue[p][j]
      BY Posted
    <3>. QED
      BY <3>1 DEF InMail
  <2>2. ASSUME NEW c \in Neighbors(p) PROVE InOrder(queue'[p], c)
    <3>1. InOrder(queue[p], c)
      BY DEF InMail
    <3>2. CASE p # d
      BY <1>1, <3>1, <3>2
    <3>3. CASE p = d
      <4>1. PICK list, q : list = queue[d] /\ q = queue'[d]
        OBVIOUS
      <4>2. list \in Seq(Messages) /\ q = Append(list, m) /\ InOrder(list, c)
        BY <1>1, <3>1, <3>3, <4>1
      <4>3. IsFrom(m, c, "IMPROVE") => ~ Holds(list, c, "END")
        BY <4>1 DEF IsFrom
      <4>4. InOrder(q, c)
        BY <4>2, <4>3, AppendedInOrder
      <4>. QED
        BY <3>3, <4>1, <4>4
    <3>. QED
      BY <3>2, <3>3
  <2>. QED
    BY <1>2, <2>1, <2>2 DEF InMail, TellsEval, Halted
<1>. QED
  BY <1>3

LEMMA SendStartEnd ==
    ASSUME IInv, EndInv, SendStart
    PROVE  EndInv'
<1>1. PICK d, m : d = main.next /\ m = [kind |-> "START", from |-> Null]
  OBVIOUS
<1>2. /\ TypeOK /\ d \in Agents /\ m \in Messages /\ m.kind = "START" /\ main.phase = "start"
      /\ queue' = [queue EXCEPT ![d] = Append(@, m)]
      /\ UNCHANGED <<view, agent_view, mgm, mode, counter, stop, out, why,
                     ready, roi, verdict, warned, kill>>
      /\ main' \in {[phase |-> "join", next |-> 1], [main EXCEPT !.next = main.next + 1]}
  BY <1>1 DEF IInv, TypeOK, SendStart, Messages, ControlMessages
<1>3. \A p \in Agents : InMail(p)'
  <2>1. \A p \in Agents : InMail(p)
    BY DEF EndInv
  <2>2. TellsEval(m) /\ m.kind # "END" /\ m.kind # "IMPROVE"
    BY <1>2 DEF TellsEval
  <2>. QED
    BY <1>2, <2>1, <2>2, PostedMail
<1>4. \A p \in Agents : OutMail(p)'
  BY <1>2 DEF EndInv, OutMail, TellsEval, Halted
<1>5. \A p \in Agents : \A c : Holds(queue'[p], c, "IMPROVE") => Holds(queue[p], c, "IMPROVE")
  <2>1. \A c : ~ IsFrom(m, c, "IMPROVE")
    BY <1>2 DEF IsFrom
  <2>. QED
    BY <1>2, <2>1, Posted
<1>6. MainInv'
  <2>0. main \in [phase : {"start", "join", "merge", "done"}, next : Agents] /\ Agents \subseteq Nat
    BY <1>2, AgentFacts DEF TypeOK
  <2>1. \A p \in Agents : ~ Joined(p)
    BY <1>2 DEF Joined
  <2>2. main'.phase = "start" \/ (main'.phase = "join" /\ main'.next = 1)
    BY <1>2, <2>0
  <2>3. \A p \in Agents : ~ (p < 1)
    BY DEF Agents
  <2>4. \A p \in Agents : ~ Joined(p)'
    BY <2>2, <2>3 DEF Joined
  <2>. QED
    BY <1>2, <2>1, <2>4 DEF EndInv, MainInv
<1>7. /\ UNCHANGED <<view, agent_view, mgm, mode, counter, stop, why>>
      /\ \A p \in Agents : \A q \in Neighbors(p) : SamePending(q, p)
  BY UnreadFacts DEF MainStep
<1>8. \A p \in Agents : Gone(p)' => Gone(p)
  BY <1>2 DEF Gone
<1>. QED
  BY <1>3, <1>4, <1>5, <1>6, <1>7, <1>8, UnreadEnd

LEMMA SendNextEnd ==
    ASSUME IInv, EndInv, NEW a \in Agents, SendNext(a)
    PROVE  EndInv'
<1>1. PICK d, m : d = Head(out[a]).to /\ m = Head(out[a]).msg
  OBVIOUS
<1>2. TypeOK /\ MailInv(a) /\ out[a] # <<>> /\ out[a] \in Seq([to : Agents, msg : Messages])
  BY AgentTypes DEF IInv, SendNext
<1>3. /\ 1 \in DOMAIN out[a] /\ d = out[a][1].to /\ m = out[a][1].msg
      /\ \A i \in DOMAIN Tail(out[a]) : i + 1 \in DOMAIN out[a] /\ Tail(out[a])[i] = out[a][i + 1]
  <2>. DEFINE S == [to : Agents, msg : Messages]
              o == out[a]
  <2>1. o \in Seq(S) /\ o # <<>>
    BY <1>2
  <2>. HIDE DEF S, o
  <2>2. /\ Len(o) \in Nat /\ Len(o) > 0 /\ DOMAIN o = 1 .. Len(o)
        /\ Head(o) = o[1] /\ DOMAIN Tail(o) = 1 .. Len(o) - 1
        /\ \A i \in DOMAIN Tail(o) : Tail(o)[i] = o[i + 1]
    BY <2>1, EmptySeq, HeadTailProperties
  <2>3. 1 \in DOMAIN o /\ \A i \in DOMAIN Tail(o) : i + 1 \in DOMAIN o
    BY <2>2
  <2>. QED
    BY <1>1, <2>2, <2>3 DEF o
<1>4. /\ d \in Agents /\ d \in Neighbors(a) /\ m \in Messages /\ m.from = a
      /\ m.kind \in {"OK", "IMPROVE", "END"}
  BY <1>2, <1>3, OutTypes DEF MailInv
<1>5. /\ queue' = [queue EXCEPT ![d] = Append(@, m)]
      /\ out'[a] = Tail(out[a]) /\ \A b \in Agents \ {a} : out'[b] = out[b]
      /\ UNCHANGED <<mgm, why, roi, main, verdict, warned>>
  BY <1>1, <1>2 DEF SendNext, TypeOK, mainVars
<1>6. TellsEval(m) /\ (m.kind = "END" <=> Halted(a)) /\ a \in Neighbors(d)
  BY <1>3, <1>4, NeighborFacts DEF EndInv, OutMail
<1>7. \A p \in Agents : InMail(p)'
  <2>1. \A p \in Agents : InMail(p)
    BY DEF EndInv
  <2>2. ASSUME m.kind = "IMPROVE" PROVE ~ Holds(queue[d], m.from, "END")
    <3>1. ~ Halted(m.from)
      BY <1>4, <1>6, <2>2
    <3>. QED
      BY <1>4, <2>1, <3>1 DEF InMail, Holds, IsFrom
  <2>3. m.kind = "END" => m.from \in Neighbors(d) /\ Halted(m.from)
    BY <1>4, <1>6
  <2>. QED
    BY <1>2, <1>4, <1>5, <1>6, <2>1, <2>2, <2>3, PostedMail
<1>8. ASSUME NEW p \in Agents PROVE OutMail(p)'
  <2>1. OutMail(p)
    BY DEF EndInv
  <2>2. \A i \in DOMAIN out'[p] : \E j \in DOMAIN out[p] : out'[p][i] = out[p][j]
    BY <1>3, <1>5
  <2>. QED
    BY <1>5, <2>1, <2>2 DEF OutMail, TellsEval, Halted
<1>9. \A p \in Agents : \A c : Halted(c) /\ Holds(queue'[p], c, "IMPROVE")
                                  => Holds(queue[p], c, "IMPROVE")
  <2>1. \A c : Halted(c) => ~ IsFrom(m, c, "IMPROVE")
    BY <1>4, <1>6 DEF IsFrom
  <2>. QED
    BY <1>2, <1>4, <1>5, <2>1, Posted
<1>10. MainInv'
  BY <1>5 DEF EndInv, MainInv, Joined
<1>11. /\ UNCHANGED <<view, agent_view, mgm, mode, counter, stop, why>>
       /\ \A p \in Agents : \A q \in Neighbors(p) : SamePending(q, p)
  BY UnreadFacts
<1>12. \A p \in Agents : Gone(p)' => Gone(p)
  BY <1>5 DEF Gone
<1>. QED
  BY <1>7, <1>8, <1>9, <1>10, <1>11, <1>12, UnreadEnd

(* Steps of main, and of the region: they only look at the agents.         *)
LEMMA QuietEnd ==
    ASSUME EndInv, UNCHANGED agentVars,
           \A p \in Agents : Gone(p)' => Gone(p) \/ stop[p], MainInv'
    PROVE  EndInv'
<1>1. UNCHANGED <<queue, view, agent_view, mgm, mode, counter, stop, out, why>>
  BY DEF agentVars
<1>2. \A p \in Agents : \A q \in Neighbors(p) : SamePending(q, p)
  BY <1>1 DEF SamePending, Pending
<1>3. \A p \in Agents : OutMail(p)' /\ InMail(p)'
  BY <1>1 DEF EndInv, OutMail, InMail, TellsEval, Halted
<1>. QED
  BY <1>1, <1>2, <1>3, UnreadEnd

LEMMA JoinEnd ==
    ASSUME IInv, EndInv, Join
    PROVE  EndInv'
<1>1. /\ main.phase = "join" /\ roi[main.next] = "outside" /\ roi' = roi /\ warned' = warned
      /\ verdict' = (verdict /\ mgm[main.next].consistent)
      /\ main' = IF main.next = N THEN [phase |-> "merge", next |-> 1]
                                  ELSE [main EXCEPT !.next = @ + 1]
      /\ UNCHANGED agentVars
  BY DEF Join
<1>2. main \in [phase : {"start", "join", "merge", "done"}, next : Agents]
  BY DEF IInv, TypeOK
<1>3. \A p \in Agents : Joined(p)' <=> Joined(p) \/ p = main.next
  <2>1. \A p \in Agents : Joined(p) <=> p < main.next
    BY <1>1 DEF Joined
  <2>2. CASE main.next = N
    <3>1. \A p \in Agents : p < N \/ p = N
      BY AgentFacts DEF Agents
    <3>2. main'.phase = "merge"
      BY <1>1, <2>2
    <3>. QED
      BY <2>1, <2>2, <3>1, <3>2 DEF Joined
  <2>3. CASE main.next # N
    <3>1. main'.phase = "join" /\ main'.next = main.next + 1
      BY <1>1, <1>2, <2>3
    <3>2. \A p \in Agents : p < main.next + 1 <=> p < main.next \/ p = main.next
      BY <1>2 DEF Agents
    <3>. QED
      BY <2>1, <3>1, <3>2 DEF Joined
  <2>. QED
    BY <2>2, <2>3
<1>4. MainInv'
  <2>1. mgm' = mgm
    BY <1>1 DEF agentVars
  <2>. QED
    BY <1>1, <1>2, <1>3, <2>1 DEF EndInv, MainInv
<1>. QED
  BY <1>1, <1>4, QuietEnd DEF Gone

(* Once all have left the region, one of them has stopped in send_ok, and  *)
(* the views of all are the one that it has.                               *)
LEMMA SomeoneHalted ==
    ASSUME EndInv, NEW a \in Agents, Joined(a)
    PROVE  Halted(a) \/ \E c \in Neighbors(a) : EndedBy(a, c)
<1>1. Gone(a)
  BY DEF EndInv, MainInv, Gone
<1>. QED
  BY <1>1 DEF EndInv, StopInv

LEMMA OneFinalView ==
    ASSUME Complete, IInv, ViewInv, RoundInv, EndInv, NEW a \in Agents, Joined(a)
    PROVE  \E v \in KnownViewsOver(Agents) : \A b \in Agents : view[b] = v
<1>1. PICK c \in Agents : Halted(c)
  BY SomeoneHalted, NeighborFacts DEF EndedBy
<1>2. view[c] \in KnownViewsOver(Agents)
  BY DEF IInv, TypeOK
<1>3. \A b \in Agents : b # c => b \in Neighbors(c)
  BY DEF Complete
<1>4. \A b \in Agents : view[b] = view[c]
  BY <1>1, <1>3, FinalView
<1>. QED
  BY <1>2, <1>4

(* Merging views that are the same gives that view.                        *)
LEMMA MergedViews ==
    ASSUME NEW v \in KnownViewsOver(Agents), \A b \in Agents : view[b] = v
    PROVE  \A i \in 2 .. N : Compare(HardwareView[i - 1], view[i])
<1>1. \A x : Merge(x, v) = v
  <2>1. \A r \in Resources : v[r] # Unknown
    <3>1. \A r \in Resources : v[r] \in Agents \union {Free}
      BY DEF KnownViewsOver
    <3>2. Unknown \notin Agents \union {Free}
      BY DEF Unknown, Free, Agents
    <3>. QED
      BY <3>1, <3>2
  <2>2. v = [r \in Resources |-> v[r]]
    BY DEF KnownViewsOver
  <2>. QED
    BY <2>1, <2>2 DEF Merge
<1>. DEFINE Merges(f) == f = [i \in 0 .. N |->
                IF i = 0 THEN Cleared ELSE Merge(f[i - 1], view[i])]
            w == [i \in 0 .. N |-> IF i = 0 THEN Cleared ELSE v]
<1>2. \A i \in 0 .. N : i # 0 => view[i] = v
  BY DEF Agents
<1>3. Merges(w)
  BY <1>1, <1>2
<1>4. HardwareView = CHOOSE f : Merges(f)
  BY DEF HardwareView
<1>5. Merges(HardwareView)
  BY <1>3, <1>4
<1>6. \A i \in 1 .. N : HardwareView[i] = v
  <2>1. \A i \in 1 .. N : i \in 0 .. N /\ i # 0
    BY AgentFacts
  <2>. QED
    BY <1>1, <1>2, <1>5, <2>1
<1>7. Compare(v, v)
  BY DEF Compare
<1>8. \A i \in 2 .. N : i \in Agents /\ i - 1 \in 1 .. N
  BY AgentFacts DEF Agents
<1>. QED
  BY <1>6, <1>7, <1>8

LEMMA MergeEnd ==
    ASSUME Complete, IInv, ViewInv, RoundInv, EndInv, MergeViews
    PROVE  EndInv'
<1>1. /\ main.phase = "merge" /\ main' = [main EXCEPT !.phase = "done"]
      /\ warned' = \E i \in 2 .. N : ~ Compare(HardwareView[i - 1], view[i])
      /\ UNCHANGED agentVars /\ roi' = roi /\ verdict' = verdict
  BY DEF MergeViews
<1>2. \A p \in Agents : Joined(p) /\ Joined(p)'
  <2>1. main'.phase = "done"
    BY <1>1 DEF IInv, TypeOK
  <2>. QED
    BY <1>1, <2>1 DEF Joined
<1>3. ~ warned'
  <2>1. 1 \in Agents
    BY AgentFacts DEF Agents
  <2>2. PICK v \in KnownViewsOver(Agents) : \A b \in Agents : view[b] = v
    BY <1>2, <2>1, OneFinalView
  <2>. QED
    BY <1>1, <2>2, MergedViews
<1>4. MainInv'
  <2>1. mgm' = mgm
    BY <1>1 DEF agentVars
  <2>. QED
    BY <1>1, <1>2, <1>3, <2>1 DEF EndInv, MainInv
<1>. QED
  BY <1>1, <1>4, QuietEnd DEF Gone

LEMMA RegionEnd ==
    ASSUME IInv, EndInv, NEW a \in Agents, EnterRegion(a) \/ LeaveRegion(a) \/ PassBarrier(a)
    PROVE  EndInv'
<1>1. UNCHANGED agentVars /\ UNCHANGED <<main, verdict, warned, mgm>>
  BY DEF EnterRegion, LeaveRegion, PassBarrier, mainVars, agentVars
<1>2. roi \in [Agents -> Barrier!Stages]
  BY DEF IInv, TypeOK, Barrier!TypeOK
<1>3. \A p \in Agents : /\ roi[p] = "outside" => roi'[p] = "outside"
                        /\ Gone(p)' => Gone(p) \/ (p = a /\ LeaveRegion(a))
  <2>. DEFINE b == Barrier!Broadcast
  <2>1. /\ DOMAIN b = Agents
        /\ \A p \in Agents : /\ roi[p] = "outside" => b[p] = "outside"
                             /\ b[p] \in {"waitStop", "wokenStop", "outside"} => Gone(p)
    BY <1>2 DEF Barrier!Broadcast, Gone
  <2>. HIDE DEF b
  <2>2. CASE EnterRegion(a)
    <3>1. roi[a] = "new" /\ (roi' = [b EXCEPT ![a] = "inside"] \/ roi' = [roi EXCEPT ![a] = "waitStart"])
      BY <2>2 DEF EnterRegion, Barrier!StartROI, b
    <3>. QED
      BY <1>2, <2>1, <3>1 DEF Gone
  <2>3. CASE LeaveRegion(a)
    <3>1. /\ roi[a] = "inside"
          /\ \/ roi' = [b EXCEPT ![a] = "outside"] \/ roi' = [roi EXCEPT ![a] = "outside"]
             \/ roi' = [roi EXCEPT ![a] = "waitStop"]
      BY <2>3 DEF LeaveRegion, Barrier!StopROI, b
    <3>. QED
      BY <1>2, <2>1, <2>3, <3>1 DEF Gone
  <2>4. CASE PassBarrier(a)
    <3>1. \/ roi[a] = "wokenStart" /\ roi' = [roi EXCEPT ![a] = "inside"]
          \/ roi[a] = "wokenStop" /\ roi' = [roi EXCEPT ![a] = "outside"]
      BY <2>4 DEF PassBarrier, Barrier!Return
    <3>. QED
      BY <1>2, <3>1 DEF Gone
  <2>. QED
    BY <2>2, <2>3, <2>4
<1>4. \A p \in Agents : Gone(p)' => Gone(p) \/ stop[p]
  BY <1>3 DEF LeaveRegion
<1>5. MainInv'
  BY <1>1, <1>3 DEF EndInv, MainInv, Joined
<1>. QED
  BY <1>1, <1>4, <1>5, QuietEnd

-----------------------------------------------------------------------------
LEMMA InitEnd == Init => EndInv
<1>1. SUFFICES ASSUME Init PROVE EndInv
  OBVIOUS
<1>2. PICK v \in InitialViews :
          /\ view = [a \in Agents |-> v]
          /\ mgm = [a \in Agents |->
                [term |-> 0, can_move |-> FALSE, eval |-> "finite", improve |-> 0,
                 new_view |-> v, consistent |-> TRUE, stale |-> FALSE, changed |-> TRUE]]
  BY <1>1 DEF Init
<1>3. \A a \in Agents : mgm[a].eval = "finite" /\ mgm[a].consistent
  BY <1>2
<1>4. \A a \in Agents : /\ queue[a] = <<>> /\ out[a] = <<>> /\ ~ stop[a]
                        /\ roi[a] = "new"
  BY <1>1 DEF Init, Barrier!Init
<1>5. ASSUME NEW a \in Agents PROVE OutMail(a) /\ InMail(a)
  BY <1>4 DEF OutMail, InMail, InOrder
<1>6. ASSUME NEW a \in Agents PROVE StopInv(a)
  BY <1>4 DEF StopInv, Gone
<1>7. ASSUME NEW a \in Agents PROVE EvalInv(a)
  <2>1. \A b \in Neighbors(a) : mgm[b].eval # "INF"
    BY <1>3, NeighborFacts
  <2>. QED
    BY <1>3, <2>1 DEF EvalInv
<1>8. MainInv
  <2>1. main.phase = "start" /\ verdict /\ ~ warned
    BY <1>1 DEF Init
  <2>. QED
    BY <2>1 DEF MainInv, Joined
<1>. QED
  BY <1>5, <1>6, <1>7, <1>8 DEF EndInv

LEMMA NobodyIsAlone ==
    ASSUME Complete, N > 1, NEW a \in Agents
    PROVE  Neighbors(a) # {}
<1>1. 1 \in Agents /\ 2 \in Agents
  BY NAssumption DEF Agents
<1>2. PICK b \in Agents : b # a
  BY <1>1
<1>. QED
  BY <1>2 DEF Complete

LEMMA EndsStep ==
    ASSUME Complete, ~ KillEnabled, N > 1,
           IInv, IInv', ViewInv, RoundInv, EndInv, [Next]_vars
    PROVE  EndInv'
<1>1. ASSUME NEW a \in Agents, AgentStep(a) PROVE EndInv'
  <2>1. CASE LastImprove(a)
    BY <2>1, LastImproveHaltsEnd, LastImproveGoesOnEnd
  <2>2. CASE Start(a)
    BY <2>2, StartHaltsEnd, StartGoesOnEnd
  <2>3. CASE LastOk(a)
    BY <2>3, LastOkEnd
  <2>4. ~ StartAlone(a)
    BY NobodyIsAlone, NeighborFacts DEF StartAlone
  <2>5. CASE EnterRegion(a) \/ LeaveRegion(a) \/ PassBarrier(a)
    BY <2>5, RegionEnd
  <2>6. CASE OkButNotLast(a) \/ ImproveButNotLast(a) \/ End(a) \/ SendNext(a)
    BY <2>6, OkButNotLastEnd, ImproveButNotLastEnd, EndEnd, SendNextEnd
  <2>. QED
    BY <1>1, <2>1, <2>2, <2>3, <2>4, <2>5, <2>6 DEF AgentStep
<1>2. CASE MainStep
  BY <1>2, SendStartEnd, JoinEnd, MergeEnd DEF MainStep
<1>3. ~ SendKill
  BY DEF SendKill
<1>4. CASE Terminating \/ UNCHANGED vars
  <2>1. UNCHANGED agentVars /\ UNCHANGED <<roi, main, verdict, warned, mgm>>
    BY <1>4 DEF Terminating, vars, mainVars, agentVars
  <2>2. MainInv'
    BY <2>1 DEF EndInv, MainInv, Joined
  <2>. QED
    BY <2>1, <2>2, QuietEnd DEF Gone
<1>. QED
  BY <1>1, <1>2, <1>3, <1>4 DEF Next

LEMMA EndsInvariance ==
    ASSUME Complete, ~ KillEnabled, N > 1
    PROVE  Spec => [](IInv /\ RoundInv /\ EndInv)
<1>1. Init => IInv /\ EndInv
  BY InitHolds, InitEnd
<1>2. IInv /\ IInv' /\ ViewInv /\ RoundInv /\ EndInv /\ [Next]_vars => EndInv'
  BY EndsStep
<1>3. IInv /\ [Next]_vars => IInv'
  BY StepHolds
<1>4. Spec => [](IInv /\ ViewInv /\ RoundInv)
  BY CompleteIsMutual, RoundsInvariance
<1>. QED
  BY <1>1, <1>2, <1>3, <1>4, PTL DEF Spec

(* dcop_merge_view warns of views that differ: in the end there are none.  *)
THEOREM FinalViewsAgree ==
    ASSUME Complete, ~ KillEnabled
    PROVE  Spec => []NoInconsistentView
<1>1. CASE N > 1
  <2>1. EndInv => NoInconsistentView
    BY DEF EndInv, MainInv, NoInconsistentView
  <2>. QED
    BY <1>1, <2>1, EndsInvariance, PTL
<1>2. CASE ~ (N > 1)
  <2>1. 2 .. N = {}
    BY <1>2, NAssumption
  <2>2. Init => NoInconsistentView
    BY DEF Init, NoInconsistentView
  <2>3. NoInconsistentView /\ [Next]_vars => NoInconsistentView'
    <3>1. SUFFICES ASSUME ~ warned, [Next]_vars PROVE ~ warned'
      BY DEF NoInconsistentView
    <3>2. CASE MergeViews
      BY <2>1, <3>2 DEF MergeViews
    <3>3. CASE ~ MergeViews
      <4>1. warned' = warned
        BY <3>1, <3>3 DEF Next, AgentStep, OkButNotLast, LastOk, ImproveButNotLast, LastImprove,
           End, Start, StartAlone, Receives, SendNext, EnterRegion, LeaveRegion, PassBarrier,
           MainStep, SendStart, Join, SendKill, Terminating, vars, mainVars
      <4>. QED
        BY <3>1, <4>1
    <3>. QED
      BY <3>2, <3>3
  <2>. QED
    BY <2>2, <2>3, PTL DEF Spec
<1>. QED
  BY <1>1, <1>2

(* An agent c that has stopped in a later round and not for a START: it    *)
(* has seen the results of all others, and one of them has seen its own.   *)
LEMMA SeenByAnother ==
    ASSUME Complete, N > 1, IInv, RoundInv, EndInv, ~ Overtaken, \A a \in Agents : Joined(a),
           NEW c \in Agents, Halted(c), Phase(c) # 0
    PROVE  \E d \in Neighbors(c) : Seen(d, c)
<1>1. PICK d \in Neighbors(c) : TRUE
  BY NobodyIsAlone
<1>2. d \in Agents /\ c \in Neighbors(d) /\ \A x \in Agents : x # c => x \in Neighbors(c)
  BY NeighborFacts DEF Complete
<1>3. \A x \in Agents : why[x] # "overtaken"
  BY DEF Overtaken
<1>4. Improving(c) /\ Phase(c) > 2
      /\ \/ Improving(d) /\ Phase(d) = Phase(c)
         \/ ~ Improving(d) /\ Phase(d) = Phase(c) + 1
  BY <1>3, HaltedFacts
<1>5. ASSUME NEW x \in Neighbors(c), Halted(x) PROVE Seen(x, c)
  <2>1. x \in Agents /\ c \in Neighbors(x)
    BY NeighborFacts
  <2>2. Compared(x, c)
    BY <1>3, <1>5, <2>1, HaltedFacts
  <2>. QED
    BY <2>2 DEF Seen
<1>6. CASE \E x \in Neighbors(c) : Halted(x)
  BY <1>5, <1>6
<1>7. CASE ~ \E x \in Neighbors(c) : Halted(x)
  <2>1. PICK x \in Neighbors(d) : EndedBy(d, x)
    BY <1>2, <1>7, SomeoneHalted
  <2>2. x = c
    BY <1>2, <1>7, <2>1, NeighborFacts DEF EndedBy
  <2>3. CASE Improving(d)
    <3>1. ~ Holds(queue[d], c, "IMPROVE")
      BY <2>1, <2>2, <2>3 DEF EndedBy
    <3>2. \A i \in DOMAIN out[c] : out[c][i].msg.kind = "END"
      BY DEF EndInv, OutMail
    <3>3. ~ Pending(c, d, "IMPROVE")
      BY <3>1, <3>2 DEF Pending, Sends
    <3>4. Phase(c) >= Phase(d) /\ Phase(d) = Phase(c) /\ Phase(d) > 2
      <4>1. Phase(c) \in Int
        BY PhaseIsInteger DEF IInv
      <4>. QED
        BY <1>4, <2>3, <4>1
    <3>5. Round(d) > 0
      <4>1. Round(d) \in Nat /\ Phase(d) = 2 * Round(d) + 1
        BY <1>2, <2>3, PhaseFacts DEF IInv
      <4>2. \A r \in Nat : 2 * r + 1 > 2 => r > 0
        OBVIOUS
      <4>. QED
        BY <3>4, <4>1, <4>2
    <3>6. Compared(d, c)
      BY <2>3, <3>3, <3>4, <3>5 DEF Compared
    <3>. QED
      BY <3>6 DEF Seen
  <2>4. CASE ~ Improving(d)
    <3>1. Phase(c) \in Int
      BY PhaseIsInteger DEF IInv
    <3>2. Phase(d) > 2 /\ Phase(c) <= Phase(d)
      BY <1>4, <2>4, <3>1
    <3>. QED
      BY <2>4, <3>2 DEF Seen
  <2>. QED
    BY <2>3, <2>4
<1>. QED
  BY <1>6, <1>7

LEMMA FinalVerdict ==
    ASSUME Complete, N > 1, IInv, RoundInv, EndInv, ~ Overtaken, \A a \in Agents : Joined(a)
    PROVE  verdict <=> \A a \in Agents : mgm[a].eval = "finite"
<1>1. verdict <=> \A a \in Agents : mgm[a].consistent
  BY DEF EndInv, MainInv
<1>2. PICK c \in Agents : Halted(c)
  <2>1. 1 \in Agents
    BY AgentFacts DEF Agents
  <2>. QED
    BY <2>1, SomeoneHalted, NeighborFacts DEF EndedBy
<1>3. \A b \in Agents : b # c => b \in Neighbors(c)
  BY DEF Complete
<1>4. ASSUME NEW b \in Neighbors(c)
      PROVE  \/ Phase(c) = 0 /\ Phase(b) = 0
             \/ /\ Improving(c) /\ Compared(c, b) /\ Phase(c) > 2
                /\ Phase(b) = Phase(c) \/ Phase(b) = Phase(c) + 1
  BY <1>2, <1>4, HaltedFacts DEF Overtaken
<1>5. \A a \in Agents : mgm[a].eval \in {"finite", "INF"} /\ EvalInv(a) /\ Phase(a) \in Int
  BY AgentTypes, PhaseIsInteger DEF IInv, EndInv, TypeOK, MgmAgents
<1>6. CASE Phase(c) = 0
  <2>1. \A a \in Agents : Phase(a) = 0
    BY <1>3, <1>4, <1>6
  <2>2. \A a \in Agents : mgm[a].eval = "finite" /\ mgm[a].consistent
    BY <1>5, <2>1 DEF EvalInv
  <2>. QED
    BY <1>1, <2>2
<1>7. CASE Phase(c) # 0
  <2>1. ASSUME NEW b \in Neighbors(c)
        PROVE  /\ Improving(c) /\ Compared(c, b)
               /\ Phase(b) = Phase(c) \/ Phase(b) = Phase(c) + 1
    BY <1>4, <1>7
  <2>2. ASSUME NEW d \in Agents, ~ mgm[d].consistent
        PROVE  \E b \in Agents : mgm[b].eval = "INF"
    <3>1. PICK b \in Neighbors(d) : Doubts(d, b)
      BY <1>5, <2>2 DEF EvalInv
    <3>2. b \in Agents /\ (b = c \/ b \in Neighbors(c))
      BY <1>3, NeighborFacts
    <3>3. ~ (~ Improving(d) /\ Phase(b) > Phase(d))
      <4>1. SUFFICES ASSUME ~ Improving(d), Phase(b) > Phase(d) PROVE FALSE
        OBVIOUS
      <4>2. d \in Neighbors(c) /\ Phase(d) \in {Phase(c), Phase(c) + 1}
        BY <1>2, <1>3, <2>1, <4>1, NobodyIsAlone
      <4>3. Phase(d) = Phase(c) + 1
        <5>1. /\ Phase(d) = 2 * Round(d) /\ Phase(c) = 2 * Round(c) + 1
              /\ Round(d) \in Nat /\ Round(c) \in Nat
          BY <2>1, <4>1, <4>2, PhaseFacts DEF IInv
        <5>2. \A r, q \in Nat : 2 * r # 2 * q + 1
          OBVIOUS
        <5>. QED
          BY <4>2, <5>1, <5>2
      <4>. QED
        BY <1>5, <2>1, <3>2, <4>1, <4>3
    <3>. QED
      BY <3>1, <3>2, <3>3 DEF Doubts
  <2>3. ASSUME NEW e \in Agents, \A a \in Agents : mgm[a].consistent
        PROVE  mgm[e].eval # "INF"
    <3>1. CASE e # c
      <4>1. e \in Neighbors(c) /\ Seen(c, e)
        BY <1>3, <2>1, <3>1 DEF Seen
      <4>. QED
        BY <1>5, <2>3, <4>1 DEF EvalInv
    <3>2. CASE e = c
      <4>1. PICK d \in Neighbors(c) : Seen(d, c)
        BY <1>2, <1>7, SeenByAnother
      <4>2. d \in Agents /\ c \in Neighbors(d)
        BY NeighborFacts
      <4>. QED
        BY <1>5, <2>3, <3>2, <4>1, <4>2 DEF EvalInv
    <3>. QED
      BY <3>1, <3>2
  <2>. QED
    BY <1>1, <1>5, <2>2, <2>3
<1>. QED
  BY <1>6, <1>7

(* mgm_cleanup, static bool consistent: the verdict is collected from what *)
(* the agents have heard of each other in different rounds, and still it   *)
(* is that on the results they have computed last.                         *)
THEOREM VerdictIsTrue ==
    ASSUME Complete, ~ KillEnabled, N > 1
    PROVE  Spec => []VerdictIsRight
<1>1. IInv /\ RoundInv /\ EndInv => VerdictIsRight
  BY FinalVerdict DEF VerdictIsRight, Joined
<1>. QED
  BY <1>1, EndsInvariance, PTL

-----------------------------------------------------------------------------
(* The assignment that the rounds of connected agents improve, and the     *)
(* agents that have it before their eyes.                                  *)
Assignment == view[CHOOSE a \in UpToDate : TRUE]
Settled == {a \in Ahead : Improving(a)}

LEMMA ConnectedFacts ==
    /\ Connected \subseteq Agents
    /\ \A a \in Agents : a \in Connected <=> Neighbors(a) # {}
    /\ Mutual => \A a, b \in Connected : a # b => b \in Neighbors(a)
<1>1. ASSUME NEW a \in Agents PROVE a \in Connected <=> Neighbors(a) # {}
  <2>1. /\ NeighborList[a] \in Seq(Agents)
        /\ Neighbors(a) = {NeighborList[a][i] : i \in DOMAIN NeighborList[a]}
    BY NeighborFacts DEF Neighbors, ToSet
  <2>2. DOMAIN NeighborList[a] = 1 .. Len(NeighborList[a]) /\ Len(NeighborList[a]) \in Nat
    BY <2>1
  <2>3. NeighborList[a] = <<>> <=> Len(NeighborList[a]) = 0
    BY <2>1
  <2>4. Len(NeighborList[a]) = 0 <=> DOMAIN NeighborList[a] = {}
    <3>. DEFINE n == Len(NeighborList[a])
    <3>. HIDE DEF n
    <3>1. n \in Nat => (n = 0 <=> 1 .. n = {})
      OBVIOUS
    <3>. QED
      BY <2>2, <3>1 DEF n
  <2>5. DOMAIN NeighborList[a] = {} <=> Neighbors(a) = {}
    <3>1. ASSUME NEW i \in DOMAIN NeighborList[a] PROVE NeighborList[a][i] \in Neighbors(a)
      BY <2>1
    <3>2. ASSUME NEW b \in Neighbors(a) PROVE DOMAIN NeighborList[a] # {}
      BY <2>1
    <3>. QED
      BY <3>1, <3>2
  <2>. QED
    BY <2>3, <2>4, <2>5 DEF Connected
<1>2. Connected \subseteq Agents
  BY DEF Connected
<1>3. ASSUME Mutual, NEW a \in Connected, NEW b \in Connected, a # b PROVE b \in Neighbors(a)
  BY <1>1, <1>2, <1>3 DEF Mutual
<1>. QED
  BY <1>1, <1>2, <1>3

AheadIsFirst ==
    Connected # {} =>
        /\ Ahead # {}
        /\ Ahead = {a \in Connected : \A b \in Connected : mgm[b].term <= mgm[a].term}

LEMMA Greatest ==
    ASSUME NEW S, NEW n \in Nat, S \subseteq 0 .. n, S # {}
    PROVE  Max(S) \in S /\ \A y \in S : y <= Max(S)
<1>. DEFINE T == {n - y : y \in S}
<1>1. T \subseteq Nat /\ T # {}
  <2>1. ASSUME NEW y \in S PROVE n - y \in Nat
    <3>1. y \in Nat /\ y <= n
      OBVIOUS
    <3>. QED
      BY <3>1
  <2>2. S # {}
    OBVIOUS
  <2>. QED
    BY <2>1, <2>2
<1>2. PICK x \in T : \A y \in T : x <= y
  BY <1>1, LeastNatural
<1>3. PICK z \in S : x = n - z
  BY <1>2
<1>4. ASSUME NEW y \in S PROVE z >= y
  <2>1. n - z <= n - y
    BY <1>2, <1>3
  <2>. QED
    BY <2>1
<1>5. Max(S) \in S /\ \A y \in S : Max(S) >= y
  BY <1>3, <1>4 DEF Max
<1>. QED
  BY <1>5

LEMMA AheadFacts == TypeOK => AheadIsFirst
<1>. SUFFICES ASSUME TypeOK, Connected # {}
     PROVE  /\ Ahead # {}
            /\ Ahead = {a \in Connected : \A b \in Connected : mgm[b].term <= mgm[a].term}
  BY DEF AheadIsFirst
<1>. DEFINE S == {mgm[a].term : a \in Connected}
<1>1. \A a \in Connected : mgm[a].term \in 0 .. MaxDistance
  BY AgentTypes, ConnectedFacts, DistanceAssumption
<1>2. S \subseteq 0 .. MaxDistance /\ S # {}
  BY <1>1
<1>3. LastTerm \in S /\ \A y \in S : y <= LastTerm
  <2>1. LastTerm = Max(S)
    BY DEF LastTerm
  <2>. QED
    BY <1>2, <2>1, Greatest, DistanceAssumption
<1>4. Ahead # {}
  BY <1>3 DEF Ahead
<1>5. ASSUME NEW a \in Connected
      PROVE  mgm[a].term = LastTerm <=> \A b \in Connected : mgm[b].term <= mgm[a].term
  <2>1. mgm[a].term \in Nat /\ LastTerm \in Nat
    BY <1>1, <1>2, <1>3
  <2>2. mgm[a].term <= LastTerm
    BY <1>3
  <2>3. PICK b \in Connected : mgm[b].term = LastTerm
    BY <1>3
  <2>4. \A c \in Connected : mgm[c].term <= LastTerm
    BY <1>3
  <2>. QED
    BY <2>1, <2>2, <2>3, <2>4
<1>. QED
  BY <1>4, <1>5 DEF Ahead

LEMMA AheadAgain == TypeOK' => AheadIsFirst'
BY AheadFacts, PTL

LEMMA AheadNext ==
    ASSUME TypeOK', Connected # {}
    PROVE  /\ Ahead' # {}
           /\ Ahead' = {a \in Connected : \A b \in Connected : mgm'[b].term <= mgm'[a].term}
BY AheadAgain DEF AheadIsFirst

LEMMA NobodyMoves ==
    ASSUME IInv, Settled = {}, Movers = {}, NEW z \in Ahead
    PROVE  ~ Improving(z) /\ ~ mgm[z].can_move
<1>0. TypeOK /\ z \in Agents /\ AgentInv(z)
  BY ConnectedFacts DEF IInv, Ahead
<1>1. ~ Improving(z)
  BY DEF Settled
<1>2. mode[z] = "WAIT_OK"
  BY <1>0, <1>1, AgentTypes DEF Improving
<1>3. CASE mgm[z].term > 0
  BY <1>1, <1>2, <1>3 DEF Movers, Decided
<1>4. CASE ~ (mgm[z].term > 0)
  <2>1. mgm[z].term = 0
    BY <1>0, <1>4, AgentTypes
  <2>2. Round(z) = 0
    BY <1>0, <2>1 DEF AgentInv, Round
  <2>3. Phase(z) = 0
    BY <1>1, <2>2 DEF Phase
  <2>. QED
    BY <1>0, <1>1, <2>3 DEF AgentInv
<1>. QED
  BY <1>3, <1>4

(* There is such an agent, and all of them have the same assignment.       *)
OneAssignment ==
    /\ UpToDate # {} /\ UpToDate \subseteq Ahead
    /\ \A x \in UpToDate : Assignment = view[x]

LEMMA AssignmentsAgree ==
    Mutual /\ Connected # {} /\ IInv /\ ViewInv => OneAssignment
<1>. SUFFICES ASSUME Mutual, Connected # {}, IInv, ViewInv PROVE OneAssignment
  OBVIOUS
<1>0. TypeOK
  BY DEF IInv
<1>1. Ahead # {} /\ Ahead \subseteq Connected /\ Connected \subseteq Agents
  BY <1>0, AheadFacts, ConnectedFacts DEF AheadIsFirst
<1>2. Settled = {a \in Ahead : mode[a] = "WAIT_IMPROVE"}
  BY DEF Settled, Improving
<1>3. UpToDate = IF Settled # {} THEN Settled ELSE IF Movers # {} THEN Movers ELSE Ahead
  BY <1>2 DEF UpToDate
<1>4. UpToDate # {} /\ UpToDate \subseteq Ahead
  BY <1>1, <1>3 DEF Settled, Movers
<1>5. ASSUME NEW x \in UpToDate, NEW y \in UpToDate, x # y PROVE view[x] = view[y]
  <2>1. /\ x \in Connected /\ y \in Connected /\ x \in Agents /\ y \in Agents
        /\ x \in Ahead /\ y \in Ahead
    BY <1>1, <1>4
  <2>2. x \in Neighbors(y) /\ y \in Neighbors(x)
    BY <1>5, <2>1, ConnectedFacts
  <2>3. ViewLink(x, y) /\ AgentInv(x) /\ AgentInv(y)
    BY <2>1, <2>2 DEF ViewInv, IInv
  <2>4. CASE Settled # {}
    <3>1. Improving(x) /\ Improving(y)
      BY <1>3, <2>4 DEF Settled
    <3>. QED
      BY <2>3, <3>1 DEF ViewLink
  <2>5. CASE Settled = {} /\ Movers # {}
    <3>1. ~ Improving(x) /\ ~ Improving(y) /\ mgm[x].can_move /\ mgm[y].can_move
      BY <1>3, <2>5 DEF Movers, Decided, Improving
    <3>. QED
      BY <2>1, <2>2, <3>1, MoverFacts
  <2>6. CASE Settled = {} /\ Movers = {}
    <3>1. ~ Improving(x) /\ ~ mgm[x].can_move /\ ~ Improving(y) /\ ~ mgm[y].can_move
      BY <2>1, <2>6, NobodyMoves
    <3>. QED
      BY <2>1, <2>3, <3>1 DEF ViewLink
  <2>. QED
    BY <2>4, <2>5, <2>6
<1>. QED
  BY <1>4, <1>5 DEF OneAssignment, Assignment

LEMMA AssignmentsAgreeAgain ==
    ASSUME Mutual, Connected # {}, IInv', ViewInv'
    PROVE  OneAssignment'
<1>. DEFINE C == Mutual /\ Connected # {}
<1>1. (C /\ IInv /\ ViewInv => OneAssignment)'
  BY AssignmentsAgree, PTL
<1>. QED
  BY <1>1

FinalViews == \A c \in Agents : Halted(c) => \A b \in Neighbors(c) : view[b] = view[c]

LEMMA FinalViewsNow == IInv /\ ViewInv /\ RoundInv => FinalViews
BY FinalView DEF FinalViews

LEMMA FinalViewAgain ==
    ASSUME IInv', ViewInv', RoundInv', NEW c \in Agents, Halted(c)', NEW b \in Neighbors(c)
    PROVE  view'[b] = view'[c]
<1>1. (IInv /\ ViewInv /\ RoundInv => FinalViews)'
  BY FinalViewsNow, PTL
<1>. QED
  BY <1>1 DEF FinalViews

LEMMA UpToDateIs ==
    /\ UpToDate = IF Settled # {} THEN Settled ELSE IF Movers # {} THEN Movers ELSE Ahead
    /\ UpToDate' = IF Settled' # {} THEN Settled' ELSE IF Movers' # {} THEN Movers' ELSE Ahead'
<1>1. Settled = {a \in Ahead : mode[a] = "WAIT_IMPROVE"}
  BY DEF Settled, Improving
<1>2. Settled' = {a \in Ahead' : mode'[a] = "WAIT_IMPROVE"}
  BY DEF Settled, Improving
<1>. QED
  BY <1>1, <1>2 DEF UpToDate

-----------------------------------------------------------------------------
(* A step changes the assignment only if the view of the agents that have  *)
(* it changes, or others take their place.                                 *)
LEMMA AssignmentStays ==
    ASSUME OneAssignment, OneAssignment', NEW x \in UpToDate, x \in UpToDate',
           view'[x] = view[x]
    PROVE  Assignment' = Assignment
<1>1. Assignment = view[x]
  BY DEF OneAssignment
<1>2. Assignment' = view'[x]
  BY DEF OneAssignment
<1>. QED
  BY <1>1, <1>2

LEMMA AssignmentIsCommon ==
    ASSUME TypeOK, TypeOK', Connected # {}, OneAssignment, OneAssignment',
           NEW v, \A p \in Connected : view[p] = v /\ view'[p] = v
    PROVE  Assignment' = Assignment
<1>1. PICK x \in UpToDate : TRUE
  BY DEF OneAssignment
<1>2. PICK y \in UpToDate' : TRUE
  BY DEF OneAssignment
<1>3. x \in Connected /\ y \in Connected
  <2>1. x \in Ahead /\ y \in Ahead'
    BY <1>1, <1>2 DEF OneAssignment
  <2>. QED
    BY <2>1 DEF Ahead
<1>4. Assignment = view[x] /\ Assignment' = view'[y]
  <2>1. Assignment = view[x]
    BY <1>1 DEF OneAssignment
  <2>2. Assignment' = view'[y]
    BY <1>2 DEF OneAssignment
  <2>. QED
    BY <2>1, <2>2
<1>. QED
  BY <1>3, <1>4

LEMMA QuietSearch ==
    ASSUME TypeOK, TypeOK', Connected # {}, OneAssignment, OneAssignment',
           \A p \in Connected :
              /\ view'[p] = view[p] /\ mode'[p] = mode[p] /\ mgm'[p].term = mgm[p].term
              /\ ~ Improving(p) => mgm'[p].can_move = mgm[p].can_move
    PROVE  Assignment' = Assignment
<1>1. Ahead' = Ahead
  BY AheadFacts, AheadNext DEF AheadIsFirst
<1>2. Ahead \subseteq Connected
  BY DEF Ahead
<1>3. Settled' = Settled
  BY <1>1, <1>2 DEF Settled, Improving
<1>4. Movers' = Movers
  BY <1>1, <1>2 DEF Movers, Decided, Improving
<1>5. UpToDate' = UpToDate
  BY <1>1, <1>3, <1>4, UpToDateIs
<1>6. PICK x \in UpToDate : x \in Connected
  BY <1>2 DEF OneAssignment
<1>. QED
  BY <1>5, <1>6, AssignmentStays

(* An agent that stops early has found everyone with its view.             *)
LEMMA HaltingSearch ==
    ASSUME Mutual, TypeOK, IInv', ViewInv', RoundInv', Connected # {},
           OneAssignment, OneAssignment', NEW a \in Connected, Halted(a)',
           \A p \in Connected : view'[p] = view[p]
    PROVE  Assignment' = Assignment
<1>1. ASSUME NEW p \in Connected PROVE view'[p] = view'[a]
  <2>1. a \in Agents /\ (p # a => p \in Neighbors(a))
    BY ConnectedFacts
  <2>2. CASE p # a
    BY <2>1, <2>2, FinalViewAgain
  <2>. QED
    BY <2>2
<1>2. \A p \in Connected : view[p] = view[a] /\ view'[p] = view[a]
  BY <1>1
<1>3. TypeOK'
  BY DEF IInv
<1>. QED
  BY <1>2, <1>3, AssignmentIsCommon

LEMMA StartSearch ==
    ASSUME Mutual, IInv, TypeOK', RoundInv, Connected # {}, OneAssignment, OneAssignment',
           NEW a \in Connected, Phase(a) = 0,
           \A p \in Connected : view'[p] = view[p]
    PROVE  Assignment' = Assignment
<1>1. ASSUME NEW p \in Connected, p # a PROVE view[p] = view[a]
  <2>1. a \in Agents /\ p \in Neighbors(a)
    BY <1>1, ConnectedFacts
  <2>2. InStep(Phase(a), Phase(p)) /\ FirstLink(a, p)
    BY <2>1, LinkFacts, RoundFacts
  <2>. QED
    BY <2>2 DEF InStep, FirstLink
<1>2. \A p \in Connected : view[p] = view[a] /\ view'[p] = view[a]
  BY <1>1
<1>3. TypeOK
  BY DEF IInv
<1>. QED
  BY <1>2, <1>3, AssignmentIsCommon

(* An agent that is ahead and has heard from all its neighbors has the     *)
(* assignment: it has made the last move, or it has been told of it.       *)
LEMMA LastOkSearch ==
    ASSUME Mutual, IInv, IInv', ViewInv, Connected # {}, OneAssignment, OneAssignment',
           NEW a \in Agents, LastOk(a)
    PROVE  Assignment' = Assignment
<1>0. TypeOK /\ TypeOK' /\ AgentInv(a)
  BY DEF IInv
<1>1. PICK m : m = Message(a)
  OBVIOUS
<1>2. /\ \A p \in Agents \ {a} : Same(p) /\ view'[p] = view[p]
      /\ Neighbors(a) # {} /\ ~ Improving(a) /\ ~ Halted(a) /\ mgm[a].term = Round(a)
      /\ Improving(a)' /\ mgm'[a].term = mgm[a].term /\ view'[a] = Adopted(a)
      /\ \A b \in Neighbors(a) : Round(b) = Reads(a)
  BY <1>1, LastOkFacts
<1>3. a \in Connected /\ Connected \subseteq Agents /\ Ahead \subseteq Connected
  BY <1>2, ConnectedFacts DEF Ahead
<1>4. \A p \in Connected \ {a} :
         /\ view'[p] = view[p] /\ mode'[p] = mode[p] /\ mgm'[p] = mgm[p]
  BY <1>2, <1>3 DEF Same
<1>5. \A p \in Connected : mgm'[p].term = mgm[p].term
  BY <1>2, <1>4
<1>6. Ahead' = Ahead
  BY <1>0, <1>5, AheadFacts, AheadNext DEF AheadIsFirst
<1>7. Settled' = Settled \union ({a} \intersect Ahead)
  <2>1. \A p \in Connected \ {a} : Improving(p)' <=> Improving(p)
    BY <1>4 DEF Improving
  <2>. QED
    BY <1>2, <1>3, <1>6, <2>1 DEF Settled
<1>8. Movers' = Movers \ {a}
  <2>1. \A p \in Connected \ {a} : Decided(p)' <=> Decided(p)
    BY <1>4 DEF Decided
  <2>2. ~ Decided(a)'
    BY <1>2 DEF Decided, Improving
  <2>. QED
    BY <1>3, <1>4, <1>6, <2>1, <2>2 DEF Movers
<1>9. CASE Settled # {}
  <2>1. PICK x \in Settled : TRUE
    BY <1>9
  <2>2. x # a /\ x \in Connected
    BY <1>2, <1>3 DEF Settled
  <2>3. x \in UpToDate /\ x \in UpToDate'
    BY <1>7, <2>1, UpToDateIs
  <2>. QED
    BY <1>4, <2>2, <2>3, AssignmentStays
<1>10. CASE Settled = {} /\ a \notin Ahead
  <2>1. Settled' = Settled /\ Movers' = Movers
    BY <1>7, <1>8, <1>10 DEF Movers
  <2>2. UpToDate' = UpToDate
    BY <1>6, <2>1, UpToDateIs
  <2>3. PICK x \in UpToDate : x \in Ahead
    BY DEF OneAssignment
  <2>4. x # a /\ x \in Connected
    BY <1>3, <1>10, <2>3
  <2>. QED
    BY <1>4, <2>2, <2>3, <2>4, AssignmentStays
<1>11. CASE Settled = {} /\ a \in Ahead
  <2>1. Assignment' = Adopted(a)
    <3>1. a \in UpToDate'
      BY <1>7, <1>11, UpToDateIs
    <3>2. Assignment' = view'[a]
      BY <3>1 DEF OneAssignment
    <3>. QED
      BY <1>2, <3>2
  <2>2. AllTold(a) /\ AdoptsADifference(a)
    BY <1>0, TheLastViewTellsAll, AdoptionFacts
  <2>3. CASE Movers # {}
    <3>1. PICK x \in Movers : TRUE
      BY <2>3
    <3>2. Assignment = view[x]
      <4>1. x \in UpToDate
        BY <1>11, <2>3, <3>1, UpToDateIs
      <4>. QED
        BY <4>1 DEF OneAssignment
    <3>3. mgm[x].can_move /\ ~ Improving(x) /\ x \in Connected
      BY <1>3, <1>11, <3>1 DEF Movers, Settled
    <3>4. CASE x = a
      BY <2>1, <2>2, <3>2, <3>3, <3>4 DEF AdoptsADifference
    <3>5. CASE x # a
      <4>1. x \in Neighbors(a)
        BY <1>3, <3>3, <3>5, ConnectedFacts
      <4>2. view[x] = Adopted(a)
        BY <2>2, <3>3, <4>1, AdoptedIsHeard
      <4>. QED
        BY <2>1, <3>2, <4>2
    <3>. QED
      BY <3>4, <3>5
  <2>4. CASE Movers = {}
    <3>1. Assignment = view[a]
      <4>1. a \in UpToDate
        BY <1>11, <2>4, UpToDateIs
      <4>. QED
        BY <4>1 DEF OneAssignment
    <3>2. ASSUME NEW z \in Ahead PROVE ~ Improving(z) /\ ~ mgm[z].can_move
      BY <1>11, <2>4, <3>2, NobodyMoves
    <3>3. ASSUME NEW c \in Neighbors(a) PROVE c \in Ahead
      <4>1. c \in Connected /\ c \in Agents /\ AgentInv(c)
        BY NeighborFacts, ConnectedFacts DEF IInv
      <4>2. /\ Round(c) = Reads(a) /\ Reads(a) \in Nat /\ Reads(a) >= Round(a)
            /\ Round(a) \in Nat /\ mgm[a].term = Round(a)
        BY <1>0, <1>2, PhaseFacts
      <4>3. mgm[c].term \in Nat /\ mgm[c].term >= Round(c)
        BY <1>0, <4>1, AgentTypes DEF Round
      <4>4. mgm[c].term >= mgm[a].term
        BY <4>2, <4>3
      <4>5. \A b \in Connected : mgm[b].term <= mgm[a].term
        BY <1>0, <1>3, <1>11, AheadFacts DEF AheadIsFirst
      <4>6. \A b \in Connected : mgm[b].term \in Nat
        BY <1>0, <1>3, AgentTypes
      <4>7. mgm[a].term \in Nat
        BY <1>3, <4>6
      <4>8. \A b \in Connected : mgm[b].term <= mgm[c].term
        BY <4>3, <4>4, <4>5, <4>6, <4>7
      <4>. QED
        BY <1>0, <1>3, <4>1, <4>8, AheadFacts DEF AheadIsFirst
    <3>4. \A c \in Neighbors(a) : Told(a)[c] = view[a]
      <4>1. ASSUME NEW c \in Neighbors(a) PROVE Told(a)[c] = view[a]
        <5>1. ~ mgm[a].can_move /\ ~ mgm[c].can_move /\ ~ Improving(c)
          BY <1>11, <3>2, <3>3
        <5>. QED
          BY <2>2, <5>1, ToldFacts
      <4>. QED
        BY <4>1
    <3>. QED
      BY <2>1, <2>2, <3>1, <3>4 DEF AdoptsADifference
  <2>. QED
    BY <2>3, <2>4
<1>. QED
  BY <1>9, <1>10, <1>11

LEMMA ImprovingBehind ==
    ASSUME IInv, RoundInv, NEW a \in Agents, NEW b \in Neighbors(a), Improving(a),
           Round(a) > 0, mgm[a].term = Round(a),
           ~ Improving(b), mgm[b].term = mgm[a].term + 1
    PROVE  Past(b, a)
<1>1. /\ Round(a) \in Nat /\ Round(b) \in Nat
      /\ Phase(a) = 2 * Round(a) + 1 /\ Phase(b) = 2 * Round(b)
      /\ Reads(a) = Round(a) /\ Reads(b) = IF Round(b) = 0 THEN 1 ELSE Round(b)
      /\ InStep(Phase(b), Phase(a))
  BY LinkFacts
<1>2. HaltInv(b)
  BY RoundFacts
<1>3. Phase(b) # 0 /\ Phase(b) # 1
  BY <1>1 DEF InStep
<1>4. ~ Halted(b)
  BY <1>2, <1>3 DEF HaltInv
<1>5. Round(b) = Round(a) + 1
  BY <1>4 DEF Round
<1>6. Step(a) = 2 * Round(a) + 1 /\ Step(b) = 2 * (Round(a) + 1)
  BY <1>1, <1>5 DEF Step
<1>. QED
  BY <1>1, <1>6 DEF Past

(* An agent that begins another round, with its move or without one.       *)
LEMMA NextRoundSearch ==
    ASSUME Mutual, IInv, IInv', ViewInv, RoundInv, Connected # {},
           OneAssignment, OneAssignment',
           NEW a \in Agents, LastImprove(a), ~ Halts(NotedAll(a))
    PROVE  Assignment' = Assignment \/ Assignment' \in Reassignments(a, Assignment)
<1>0. TypeOK /\ TypeOK'
  BY DEF IInv
<1>1. PICK m : m = Message(a)
  OBVIOUS
<1>2. /\ \A p \in Agents \ {a} : Same(p) /\ view'[p] = view[p]
      /\ Improving(a) /\ Round(a) > 0 /\ Round(a) \in Nat /\ mgm[a].term = Round(a)
      /\ ~ Improving(a)' /\ mode'[a] = "WAIT_OK" /\ mgm'[a].term = Round(a) + 1
      /\ mgm'[a].can_move => mgm[a].can_move
      /\ view'[a] = IF mgm'[a].can_move THEN mgm[a].new_view ELSE view[a]
      /\ m.from \in Neighbors(a)
  BY <1>1, LastImproveGoesOnEffect
<1>3. Neighbors(a) # {}
  BY <1>2
<1>4. a \in Connected /\ Connected \subseteq Agents /\ Ahead \subseteq Connected
  BY <1>3, ConnectedFacts DEF Ahead
<1>5. \A p \in Connected \ {a} :
         /\ view'[p] = view[p] /\ mode'[p] = mode[p] /\ mgm'[p] = mgm[p]
  BY <1>2, <1>4 DEF Same
<1>6. mgm'[a].can_move => view'[a] \in Reassignments(a, view[a])
  <2>1. SearchInv(a)
    BY <1>3 DEF RoundInv
  <2>. QED
    BY <1>2, <2>1 DEF SearchInv
<1>7. ~ mgm'[a].can_move => view'[a] = view[a]
  BY <1>2
<1>8. /\ \A b \in Connected : mgm[b].term \in Nat
      /\ \A b \in Connected \ {a} : mgm'[b].term = mgm[b].term
      /\ mgm'[a].term = mgm[a].term + 1
  BY <1>0, <1>2, <1>4, <1>5, AgentTypes
<1>9. /\ \A b \in Connected \ {a} : Improving(b)' <=> Improving(b)
      /\ \A b \in Connected \ {a} : Decided(b)' <=> Decided(b)
  BY <1>5 DEF Improving, Decided
<1>10. CASE a \in Ahead
  <2>1. a \in Settled
    BY <1>2, <1>10 DEF Settled
  <2>2. Assignment = view[a]
    <3>1. a \in UpToDate
      BY <2>1, UpToDateIs
    <3>. QED
      BY <3>1 DEF OneAssignment
  <2>3. Ahead' = {a}
    <3>1. \A b \in Connected : mgm[b].term <= mgm[a].term
      BY <1>0, <1>4, <1>10, AheadFacts DEF AheadIsFirst
    <3>2. \A b \in Connected \ {a} : mgm'[b].term < mgm'[a].term
      BY <1>4, <1>8, <3>1
    <3>3. \A b \in Connected : mgm'[b].term <= mgm'[a].term
      BY <1>4, <1>8, <3>2
    <3>4. \A b \in Connected : mgm'[b].term \in Nat
      BY <1>4, <1>8
    <3>5. ASSUME NEW b \in Ahead' PROVE b = a
      <4>1. b \in Connected /\ mgm'[a].term <= mgm'[b].term
        BY <1>0, <1>4, AheadNext
      <4>. QED
        BY <1>4, <3>2, <3>4, <4>1
    <3>6. a \in Ahead'
      BY <1>0, <1>4, <3>3, AheadNext
    <3>. QED
      BY <3>5, <3>6
  <2>4. Assignment' = view'[a]
    BY <2>3 DEF OneAssignment
  <2>. QED
    BY <1>6, <1>7, <2>2, <2>4
<1>11. CASE a \notin Ahead
  <2>1. Ahead \subseteq Ahead' /\ Ahead' \subseteq Ahead \union {a}
    <3>1. PICK b \in Ahead : TRUE
      BY <1>0, AheadFacts DEF AheadIsFirst
    <3>2. b \in Connected \ {a} /\ \A c \in Connected : mgm[c].term <= mgm[b].term
      BY <1>0, <1>4, <1>11, <3>1, AheadFacts DEF AheadIsFirst
    <3>3. mgm[a].term < mgm[b].term
      <4>1. mgm[a].term <= mgm[b].term
        BY <1>4, <3>2
      <4>2. mgm[a].term # mgm[b].term
        BY <1>0, <1>4, <1>11, <3>2, AheadFacts DEF AheadIsFirst
      <4>. QED
        BY <1>4, <1>8, <3>2, <4>1, <4>2
    <3>4. \A c \in Connected : mgm'[c].term <= mgm'[b].term
      BY <1>4, <1>8, <3>2, <3>3
    <3>5. ASSUME NEW c \in Ahead PROVE c \in Ahead'
      <4>1. c \in Connected \ {a} /\ mgm[b].term <= mgm[c].term
        BY <1>0, <1>4, <1>11, <3>2, AheadFacts DEF AheadIsFirst
      <4>2. mgm'[b].term <= mgm'[c].term
        BY <1>8, <3>2, <4>1
      <4>3. \A d \in Connected : mgm'[d].term \in Nat
        BY <1>4, <1>8
      <4>4. \A d \in Connected : mgm'[d].term <= mgm'[c].term
        BY <3>2, <3>4, <4>1, <4>2, <4>3
      <4>. QED
        BY <1>0, <1>4, <4>1, <4>4, AheadNext
    <3>6. ASSUME NEW c \in Ahead', c # a PROVE c \in Ahead
      <4>1. c \in Connected \ {a} /\ mgm'[b].term <= mgm'[c].term
        BY <1>0, <1>4, <3>2, <3>6, AheadNext
      <4>2. mgm[b].term <= mgm[c].term
        BY <1>8, <3>2, <4>1
      <4>3. \A d \in Connected : mgm[d].term <= mgm[c].term
        BY <1>8, <3>2, <4>1, <4>2
      <4>. QED
        BY <1>0, <1>4, <4>1, <4>3, AheadFacts DEF AheadIsFirst
    <3>. QED
      BY <3>5, <3>6
  <2>2. Settled' = Settled /\ Movers \subseteq Movers' /\ Movers' \subseteq Movers \union {a}
    <3>1. Settled' = Settled
      BY <1>2, <1>4, <1>9, <1>11, <2>1 DEF Settled
    <3>2. Movers \subseteq Movers' /\ Movers' \subseteq Movers \union {a}
      BY <1>4, <1>5, <1>9, <1>11, <2>1 DEF Movers
    <3>. QED
      BY <3>1, <3>2
  <2>3. ASSUME NEW x \in UpToDate, x \in UpToDate', x # a PROVE Assignment' = Assignment
    <3>1. x \in Connected
      BY <1>4, <2>3 DEF OneAssignment
    <3>. QED
      BY <1>5, <2>3, <3>1, AssignmentStays
  <2>4. CASE Settled # {} \/ Movers # {} \/ Movers' = {}
    <3>1. PICK x \in UpToDate : x \in UpToDate'
      <4>1. CASE Settled # {}
        BY <2>2, <4>1, UpToDateIs
      <4>2. CASE Settled = {} /\ Movers # {}
        BY <2>2, <4>2, UpToDateIs
      <4>3. CASE Settled = {} /\ Movers = {} /\ Movers' = {}
        BY <1>0, <1>4, <2>1, <2>2, <4>3, UpToDateIs, AheadFacts DEF AheadIsFirst
      <4>. QED
        BY <2>4, <4>1, <4>2, <4>3
    <3>2. x # a
      BY <1>11, <3>1 DEF OneAssignment
    <3>. QED
      BY <2>3, <3>1, <3>2
  <2>5. CASE Settled = {} /\ Movers = {} /\ Movers' # {}
    <3>1. a \in Movers'
      BY <2>2, <2>5
    <3>2. mgm'[a].can_move /\ a \in Ahead'
      BY <3>1 DEF Movers
    <3>3. Assignment' = view'[a]
      <4>1. a \in UpToDate'
        BY <2>2, <2>5, <3>1, UpToDateIs
      <4>. QED
        BY <4>1 DEF OneAssignment
    <3>4. PICK b \in Ahead : TRUE
      BY <1>0, <1>4, AheadFacts DEF AheadIsFirst
    <3>5. Assignment = view[b]
      <4>1. b \in UpToDate
        BY <2>5, <3>4, UpToDateIs
      <4>. QED
        BY <4>1 DEF OneAssignment
    <3>6. b \in Connected /\ b # a /\ b \in Neighbors(a) /\ b \in Agents
      BY <1>4, <1>11, <3>4, ConnectedFacts
    <3>7. mgm[b].term = mgm[a].term + 1
      <4>1. mgm[a].term <= mgm[b].term
        BY <1>0, <1>4, <3>4, AheadFacts DEF AheadIsFirst
      <4>2. mgm[a].term # mgm[b].term
        BY <1>0, <1>4, <1>11, <3>4, AheadFacts DEF AheadIsFirst
      <4>3. mgm'[b].term <= mgm'[a].term
        BY <1>0, <1>4, <3>2, <3>6, AheadNext
      <4>. QED
        BY <1>4, <1>8, <3>6, <4>1, <4>2, <4>3
    <3>8. ~ Improving(b) /\ ~ mgm[b].can_move
      BY <2>5, <3>4, NobodyMoves
    <3>9. Past(b, a)
      BY <1>2, <3>6, <3>7, <3>8, ImprovingBehind
    <3>10. view[b] = view[a]
      BY <1>2, <3>6, <3>8, <3>9 DEF ViewInv, ViewLink
    <3>. QED
      BY <1>6, <3>2, <3>3, <3>5, <3>10
  <2>. QED
    BY <2>4, <2>5
<1>. QED
  BY <1>10, <1>11

(* The steps of agents that go on with what they have.                     *)
LEMMA UnreadSearch ==
    ASSUME TypeOK, TypeOK', Connected # {}, OneAssignment, OneAssignment',
           UNCHANGED <<view, mode, mgm>>
    PROVE  Assignment' = Assignment
BY QuietSearch

LEMMA NotedSearch ==
    ASSUME IInv, TypeOK', Connected # {}, OneAssignment, OneAssignment',
           NEW a \in Agents, ImproveButNotLast(a)
    PROVE  Assignment' = Assignment
<1>1. /\ TypeOK /\ ~ Halted(a) /\ Takes(a, Message(a)) /\ Message(a).kind = "IMPROVE"
      /\ mgm' = [mgm EXCEPT ![a] = Noted(a)] /\ UNCHANGED <<view, mode>>
  BY ReceivesTakes DEF ImproveButNotLast, IInv
<1>2. Improving(a)
  BY <1>1, ImproveRead
<1>3. Noted(a).term = mgm[a].term
  BY <1>1, NotedFacts
<1>4. mgm'[a].term = mgm[a].term /\ \A p \in Agents \ {a} : mgm'[p] = mgm[p]
  BY <1>1, <1>3 DEF TypeOK
<1>5. \A p \in Connected :
         /\ mgm'[p].term = mgm[p].term
         /\ ~ Improving(p) => mgm'[p].can_move = mgm[p].can_move
  BY <1>2, <1>4, ConnectedFacts
<1>6. TypeOK /\ UNCHANGED <<view, mode>>
  BY <1>1
<1>. QED
  BY <1>5, <1>6, QuietSearch

LEMMA StartAloneSearch ==
    ASSUME IInv, TypeOK', Connected # {}, OneAssignment, OneAssignment',
           NEW a \in Agents, StartAlone(a)
    PROVE  Assignment' = Assignment
<1>1. /\ TypeOK /\ UNCHANGED mode
      /\ a \notin Connected
  BY DEF StartAlone, IInv, Connected
<1>2. PICK o \in Improvements(a, mgm[a], view[a]) :
          /\ mgm' = [mgm EXCEPT ![a] = Improved(@, o)]
          /\ view' = [view EXCEPT ![a] = o.new_view]
  BY DEF StartAlone
<1>3. \A p \in Agents \ {a} : mgm'[p] = mgm[p] /\ view'[p] = view[p]
  BY <1>1, <1>2 DEF TypeOK
<1>4. \A p \in Connected : mgm'[p] = mgm[p] /\ view'[p] = view[p]
  BY <1>1, <1>3, ConnectedFacts
<1>. QED
  BY <1>1, <1>4, QuietSearch

LEMMA LastImproveHaltsSearch ==
    ASSUME Mutual, IInv, IInv', ViewInv', RoundInv', Connected # {},
           OneAssignment, OneAssignment',
           NEW a \in Agents, LastImprove(a), Halts(NotedAll(a))
    PROVE  Assignment' = Assignment
<1>1. PICK m : m = Message(a)
  OBVIOUS
<1>2. PICK s : s = NotedAll(a)
  OBVIOUS
<1>3. /\ \A p \in Agents \ {a} : view'[p] = view[p]
      /\ Halted(a)' /\ view'[a] = view[a]
      /\ ComparedWith(a) \union {m.from} = Neighbors(a)
  BY <1>1, <1>2, LastImproveHaltsEffect
<1>4. a \in Connected /\ Connected \subseteq Agents
  BY <1>3, ConnectedFacts
<1>5. \A p \in Connected : view'[p] = view[p]
  BY <1>3, <1>4
<1>6. TypeOK
  BY DEF IInv
<1>. QED
  BY <1>3, <1>4, <1>5, <1>6, HaltingSearch

LEMMA StartingSearch ==
    ASSUME Mutual, IInv, IInv', ViewInv', RoundInv, RoundInv', Connected # {},
           OneAssignment, OneAssignment', NEW a \in Agents, Start(a)
    PROVE  Assignment' = Assignment
<1>0. TypeOK /\ TypeOK'
  BY DEF IInv
<1>1. PICK m : m = Message(a)
  OBVIOUS
<1>2. CASE Halts(mgm[a])
  <2>1. /\ \A p \in Agents \ {a} : view'[p] = view[p]
        /\ Halted(a)' /\ view'[a] = view[a] /\ Neighbors(a) # {}
    BY <1>1, <1>2, StartHaltsEffect
  <2>2. a \in Connected /\ \A p \in Connected : view'[p] = view[p]
    BY <2>1, ConnectedFacts
  <2>. QED
    BY <1>0, <2>1, <2>2, HaltingSearch
<1>3. CASE ~ Halts(mgm[a])
  <2>1. /\ \A p \in Agents \ {a} : view'[p] = view[p]
        /\ Phase(a) = 0 /\ view'[a] = view[a] /\ Neighbors(a) # {}
    BY <1>1, <1>3, StartGoesOnEffect
  <2>2. a \in Connected /\ \A p \in Connected : view'[p] = view[p]
    BY <2>1, ConnectedFacts
  <2>. QED
    BY <1>0, <2>1, <2>2, StartSearch
<1>. QED
  BY <1>2, <1>3

(* AssignmentSearch.tla and Mgm.tla mean the same by their views. *)
LEMMA SameReassignments ==
    /\ Search!KnownViewsOver(Agents) = KnownViewsOver(Agents)
    /\ \A a, v : Search!Reassignments(a, v) = Reassignments(a, v)
BY DEF Search!KnownViewsOver, KnownViewsOver, Search!Reassignments, Reassignments,
       Search!Free, Free

LEMMA SearchStep ==
    ASSUME Mutual, Connected # {}, IInv, ViewInv, RoundInv,
           IInv', ViewInv', RoundInv', [Next]_vars
    PROVE  [Search!Next]_Assignment
<1>1. OneAssignment /\ OneAssignment' /\ TypeOK /\ TypeOK'
  BY AssignmentsAgree, AssignmentsAgreeAgain DEF IInv
<1>. DEFINE Stays == Assignment' = Assignment
            Moves(a) == Assignment' \in Reassignments(a, Assignment)
<1>. HIDE DEF Stays, Moves
<1>2. ASSUME NEW a \in Agents, AgentStep(a) PROVE Stays \/ Moves(a)
  <2>1. CASE LastImprove(a)
    BY <1>1, <2>1, LastImproveHaltsSearch, NextRoundSearch DEF Stays, Moves
  <2>2. CASE LastOk(a)
    BY <1>1, <2>2, LastOkSearch DEF Stays
  <2>3. CASE Start(a)
    BY <1>1, <2>3, StartingSearch DEF Stays
  <2>4. CASE StartAlone(a)
    BY <1>1, <2>4, StartAloneSearch DEF Stays
  <2>5. CASE ImproveButNotLast(a)
    BY <1>1, <2>5, NotedSearch DEF Stays
  <2>6. CASE \/ OkButNotLast(a) \/ End(a) \/ SendNext(a)
             \/ EnterRegion(a) \/ LeaveRegion(a) \/ PassBarrier(a)
    <3>1. UNCHANGED <<view, mode, mgm>>
      BY <2>6 DEF OkButNotLast, End, SendNext, EnterRegion, LeaveRegion, PassBarrier, agentVars
    <3>. QED
      BY <1>1, <3>1, UnreadSearch DEF Stays
  <2>. QED
    BY <1>2, <2>1, <2>2, <2>3, <2>4, <2>5, <2>6 DEF AgentStep
<1>3. ASSUME MainStep \/ SendKill \/ Terminating \/ UNCHANGED vars PROVE Stays
  <2>1. UNCHANGED <<view, mode, mgm>>
    BY <1>3 DEF MainStep, SendStart, Join, MergeViews, SendKill, Terminating, vars, agentVars
  <2>. QED
    BY <1>1, <2>1, UnreadSearch DEF Stays
<1>4. Stays \/ \E a \in Agents : Moves(a)
  BY <1>2, <1>3 DEF Next
<1>5. CASE Stays
  BY <1>5 DEF Stays
<1>6. CASE \E a \in Agents : Moves(a)
  <2>1. PICK a \in Agents : Assignment' \in Search!Reassignments(a, Assignment)
    BY <1>6, SameReassignments DEF Moves
  <2>2. Search!Move(a)
    BY <2>1 DEF Search!Move, Assignment
  <2>. QED
    BY <2>2 DEF Search!Next
<1>. QED
  BY <1>4, <1>5, <1>6

LEMMA SearchInit ==
    ASSUME Mutual, Connected # {}, Init
    PROVE  Search!Init
<1>1. IInv /\ ViewInv
  BY InitHolds, InitViews
<1>2. OneAssignment
  BY <1>1, AssignmentsAgree
<1>3. PICK x \in UpToDate : x \in Ahead
  BY <1>2 DEF OneAssignment
<1>4. x \in Agents /\ Assignment = view[x]
  BY <1>2, <1>3, ConnectedFacts DEF OneAssignment, Ahead
<1>5. view[x] \in KnownViewsOver(Agents)
  BY <1>1, <1>4, AgentTypes DEF IInv
<1>. QED
  BY <1>4, <1>5, SameReassignments DEF Search!Init, Assignment

(* The rounds of agents that all have constraints with each other change   *)
(* one assignment, one agent at a time, and the one that moves claims or   *)
(* yields resources for itself only (mgm.c, the last MGM_IMPROVE of a      *)
(* round), even when SIGINT ends them; that agents adopt views, may have   *)
(* ended or may not have begun yet changes nothing.                        *)
THEOREM RoundsAreASearch ==
    ASSUME Mutual, Connected # {}
    PROVE  Spec => IsAssignmentSearch
<1>1. Init => Search!Init
  BY SearchInit
<1>2. /\ IInv /\ ViewInv /\ RoundInv
      /\ (IInv /\ ViewInv /\ RoundInv)'
      /\ [Next]_vars
      => [Search!Next]_Assignment
  BY SearchStep
<1>. QED
  BY <1>1, <1>2, RoundsInvariance, PTL DEF Spec, IsAssignmentSearch, Search!Spec, Assignment
=============================================================================
