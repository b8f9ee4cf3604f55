------------------------------- MODULE MCMgm -------------------------------
(***************************************************************************)
(* Small instances of Mgm.tla: how the agents are connected.               *)
(***************************************************************************)
EXTENDS Mgm

\* Every specification in lua/ connects all agents with each other.
Pair == <<<<2>>, <<1>>>>
Triangle == <<<<2, 3>>, <<3, 1>>, <<1, 2>>>>

\* Agents 1 and 3 constrain only their common neighbor 2.
Line == <<<<2>>, <<1, 3>>, <<2>>>>

\* Agent 3 has no neighbors.
PairAndOne == <<<<2>>, <<1>>, <<>>>>

\* All resources are free; or agents 1 and 2 have some, one of them agent 1.
AllFree == {[r \in Resources |-> Free]}
Disputed == {v \in KnownViewsOver({1, 2}) : \E r \in Resources : v[r] = 1}
=============================================================================
