--------------------------- MODULE CoreOwnership ---------------------------
(***************************************************************************)
(* What DistRM promises: every core has one owner, one agent at a time     *)
(* invades, and only the invading agent gains cores.                       *)
(***************************************************************************)
CONSTANTS Agents, \* the agents that may invade
          Owners, \* whoever may own a core: the agents and the idle agent
          Cores,
          None

VARIABLES owner,   \* the owner of each core
          invading \* the invading agent, or None

Init ==
    /\ owner \in [Cores -> Owners]
    /\ invading = None

Elect(a) ==
    /\ invading = None
    /\ invading' = a
    /\ UNCHANGED owner

TakeOver(cores) ==
    /\ invading # None
    /\ owner' = [c \in Cores |-> IF c \in cores THEN invading ELSE owner[c]]
    /\ UNCHANGED invading

Finish ==
    /\ invading # None
    /\ invading' = None
    /\ UNCHANGED owner

Next ==
    \/ \E a \in Agents : Elect(a)
    \/ \E cores \in SUBSET Cores : TakeOver(cores)
    \/ Finish

Spec == Init /\ [][Next]_<<owner, invading>>
=============================================================================
