----------------------------- MODULE MgmSearch -----------------------------
(***************************************************************************)
(* How an agent of MGM looks for a better assignment (mgm.c:135-564): the  *)
(* search through its part of the resources, the shortcuts that spare it,  *)
(* and the rounds that carry their state from one search to the next.      *)
(* Module Mgm leaves the outcome of a search open; here the messages are   *)
(* left out, and what the neighbors of agent Self do in a round is any     *)
(* move that Mgm allows them.                                              *)
(*                                                                         *)
(* Resources are numbered in the order in which every view lists them,     *)
(* tile by tile.  A subview is the list of its resources; its contents are *)
(* kept in a view of all resources, where nothing else changes.            *)
(***************************************************************************)
EXTENDS Constraints

CONSTANTS Self, Neighbors,
          Problems,     \* the constraints of Self and the --partition size
          InitialViews,
          MaxMoves      \* bound on the moves of neighbors

Tiles == {Tile[r] : r \in Resources}

ASSUME ResourcesAreNumbered ==
    /\ Resources = 1 .. Cardinality(Resources)
    /\ Tiles = 1 .. Cardinality(Tiles)
    /\ \A r, s \in Resources : r < s => Tile[r] <= Tile[s]

ASSUME PartsAreNotEmpty == \A p \in Problems : p.max_tiles > 0

ASSUME SelfIsNoNeighbor == Self \notin Neighbors

Agents == Neighbors \union {Self}

VARIABLES problem, phase,
          view, seen,           \* view and agent_view of Self
          new_view, can_move, changed,
          eval, improve,        \* of the last call of improve()
          best_eval, max_resources,
          outcome,              \* what the last call of improve() did
          moves

own == <<problem, best_eval, max_resources>>
vars == <<problem, phase, view, seen, new_view, can_move, changed, eval, improve,
          best_eval, max_resources, outcome, moves>>

Cost(v) == Evaluate(problem.constraints, Self, v, seen)

Count(list, v) == Cardinality({i \in DOMAIN list : v[list[i]] = Self})

InOrder(S) == SetToSortSeq(S, <)

----------------------------------------------------------------------------
(* get_improvement: how much better a cost is than another. *)
Gain(from, to) ==
    CASE to = Infinity -> IF from = Infinity THEN 0 ELSE -Infinity
      [] from = Infinity /\ to # Infinity -> Infinity
      [] OTHER -> from - to

(* What a search carries along: the assignment it is trying, the best it   *)
(* has found, the cost of that and by how much it is better.               *)
Searches == [trying : KnownViewsOver(Agents), found : KnownViewsOver(Agents),
             eval : Int, improve : Int, done : BOOLEAN]

(* A wrong variant: the best cost found is not remembered. *)
Tried_ForgetsBest(list, best, s, new) ==
    IF Gain(s.eval, new) > 0
    THEN [s EXCEPT !.found = s.trying, !.improve = Plus(@, Gain(s.eval, new))]
    ELSE s

(* The end of a branch of permutate_assignment, with the cost of what it   *)
(* has tried.  While the best utility is not known (best < 0), the         *)
(* assignment with more resources wins a tie.                              *)
Tried(list, best, s, new) ==
    LET gain == Gain(s.eval, new)
    IN  IF gain > 0
        THEN [s EXCEPT !.found = s.trying, !.eval = new, !.improve = Plus(@, gain),
                       !.done = best >= 0 /\ new \in {best, 0}]
        ELSE IF gain = 0 /\ best < 0 /\ Count(list, s.found) < Count(list, s.trying)
        THEN [s EXCEPT !.found = s.trying]
        ELSE s

(* permutate_assignment on the resources of a list: each is kept or        *)
(* yielded by its owner Self, or left alone or claimed.  A resource that   *)
(* was yielded stays so; one that was claimed is given back.               *)
Permutate(list, best, max, s0) ==
    LET search[i \in 1 .. Len(list) + 1, s \in Searches] ==
          IF best >= 0 /\ s.eval = best THEN [s EXCEPT !.done = TRUE]
          ELSE IF i > Len(list) \/ (max >= 0 /\ Count(list, s.trying) >= max)
          THEN Tried(list, best, s, Cost(s.trying))
          ELSE LET r == list[i]
                   first == search[i + 1, s]
                   Second(owner) == search[i + 1, [first EXCEPT !.trying[r] = owner]]
               IN  IF first.done THEN first
                   ELSE IF s.trying[r] = Self THEN Second(Free)
                   ELSE [Second(Self) EXCEPT !.trying[r] = s.trying[r]]
    IN  search[1, s0]

StartFrom(v, from) == [trying |-> v, found |-> v, eval |-> from, improve |-> 0, done |-> FALSE]

(* split: max_tiles tiles at a time. *)
Parts(max_tiles) ==
    [k \in 1 .. (Cardinality(Tiles) + max_tiles - 1) \div max_tiles |->
        InOrder({r \in Resources : Tile[r] \in (k - 1) * max_tiles + 1 .. k * max_tiles})]

(* A wrong variant: a later part with the same improvement wins. *)
Better_Later(sofar, s, best) ==
    [IF s.improve >= sofar.improve THEN s ELSE sofar EXCEPT !.done = s.done \/ best < 0]

Better(sofar, s, best) ==
    [IF s.improve > sofar.improve THEN s ELSE sofar EXCEPT !.done = s.done \/ best < 0]

(* try_subregions: the part with the most improvement, until one reaches   *)
(* the best utility.  While that is not known, only the first is searched. *)
TrySubregions(v, from, best, max) ==
    FoldLeft(LAMBDA sofar, list :
                 IF sofar.done THEN sofar
                 ELSE Better(sofar, Permutate(list, best, max, StartFrom(v, from)), best),
             StartFrom(v, from), Parts(problem.max_tiles))

(* A wrong variant: resources of others are on the list, too. *)
FreeList_All(v) == InOrder(Resources)

(* try_free_resources counts only if it reaches the best utility. *)
FreeList(v) == InOrder({r \in Resources : v[r] \in {Free, Self}})

TryFree(list, v, from, best, max) ==
    IF \/ Len(list) > (Cardinality(Resources) \div Cardinality(Tiles)) * problem.max_tiles
       \/ list = <<>>
    THEN StartFrom(v, from)
    ELSE Permutate(list, best, max, StartFrom(v, from))

(* improve(): what becomes of new_view, and why. *)
Skips(now, why) == [eval |-> now, improve |-> 0, view |-> new_view, why |-> why]
Takes(now, s, why) == [eval |-> now, improve |-> s.improve, view |-> s.found, why |-> why]

Searched(v, now, free) ==
    IF free.done THEN Takes(now, free, "free")
    ELSE Takes(now, TrySubregions(v, now, best_eval, max_resources), "parts")

Improved(v, is_changed, now) ==
    IF improve = 0 /\ ~is_changed THEN Skips(now, "unchanged")
    ELSE IF now = best_eval THEN Skips(now, "optimal")
    ELSE IF can_move THEN Skips(now, "moved")
    ELSE Searched(v, now, TryFree(FreeList(v), v, now, best_eval, max_resources))

----------------------------------------------------------------------------
Blind == [n \in Neighbors |-> Cleared]

(* The agents see each other's views. *)
Init ==
    /\ problem \in Problems
    /\ phase = "start"
    /\ view \in InitialViews
    /\ seen = Blind
    /\ new_view = view
    /\ can_move = FALSE /\ changed = TRUE
    /\ eval = 0 /\ improve = 0
    /\ best_eval = 0 /\ max_resources = 0
    /\ outcome = "none"
    /\ moves = 0

(* get_optimal_utility searches the first part of a view where everything  *)
(* that is not its own is free.                                            *)
Freed(v) == [r \in Resources |-> IF v[r] = Self THEN Self ELSE Free]

(* A wrong variant: what the search finds is not taken over. *)
FoundBest_AtTheStart(s) == [eval |-> Cost(Freed(view)), view |-> s.found]

FoundBest(s) ==
    [eval |-> Cost(IF s.improve > 0 THEN s.found ELSE Freed(view)), view |-> s.found]

Optimum == FoundBest(TrySubregions(Freed(view), Cost(Freed(view)), -1, -1))

(* The thread starts: it knows nothing of its neighbors yet.  On MGM_START *)
(* everyone sends its view.                                                *)
Start ==
    /\ phase = "start"
    /\ \E s \in {Optimum} :
           /\ best_eval' = s.eval
           /\ max_resources' = Cardinality(Owned(s.view, Self))
           /\ new_view' = s.view
    /\ seen' = [n \in Neighbors |-> view]
    /\ phase' = "ok"
    /\ UNCHANGED <<problem, view, can_move, changed, eval, improve, outcome, moves>>

(* The last MGM_OK of a round: a neighbor whose view differs is believed,  *)
(* unless Self has just moved.  Then Self looks for an improvement.        *)
Believed ==
    LET differing == {n \in Neighbors : ~Compare(view, seen[n])}
    IN  IF can_move THEN {[view |-> view, changed |-> TRUE]}
        ELSE IF differing = {} THEN {[view |-> view, changed |-> changed]}
        ELSE {[view |-> seen[n], changed |-> changed \/ IsAffected(view, Self, seen[n])] :
                 n \in differing}

LastOk ==
    /\ phase = "ok" /\ phase' = "improve"
    /\ \E b \in Believed : \E i \in {Improved(b.view, b.changed, Cost(b.view))} :
           /\ view' = b.view /\ changed' = b.changed
           /\ eval' = i.eval /\ improve' = i.improve
           /\ new_view' = i.view
           /\ can_move' = (i.improve > 0)
           /\ outcome' = i.why
    /\ UNCHANGED <<own, seen, moves>>

(* The last MGM_IMPROVE of a round, and send_ok: Self moves if it had the  *)
(* best improvement; otherwise one of its neighbors may.  The views that   *)
(* the neighbors send were made before they learnt of a move of Self.      *)
Move ==
    /\ phase = "improve" /\ phase' = "ok"
    /\ can_move
    /\ view' = new_view
    /\ seen' = [n \in Neighbors |-> view]
    /\ changed' = FALSE
    /\ UNCHANGED <<own, new_view, can_move, eval, improve, outcome, moves>>

GiveWay ==
    /\ phase = "improve" /\ phase' = "ok"
    /\ can_move' = FALSE
    /\ changed' = FALSE
    /\ \/ /\ moves < MaxMoves
          /\ moves' = moves + 1
          /\ \E n \in Neighbors, w \in KnownViewsOver(Agents) :
                /\ w \in Reassignments(n, view)
                /\ seen' = [m \in Neighbors |-> IF m = n THEN w ELSE view]
       \/ /\ seen' = [n \in Neighbors |-> view]
          /\ UNCHANGED moves
    /\ UNCHANGED <<own, view, new_view, eval, improve, outcome>>

Next == Start \/ LastOk \/ Move \/ GiveWay

Spec == Init /\ [][Next]_vars

----------------------------------------------------------------------------
TypeOK ==
    /\ problem \in Problems
    /\ phase \in {"start", "ok", "improve"}
    /\ view \in KnownViewsOver(Agents) /\ new_view \in KnownViewsOver(Agents)
    /\ seen \in [Neighbors -> ViewsOver(Agents)]
    /\ can_move \in BOOLEAN /\ changed \in BOOLEAN
    /\ eval \in Int /\ eval <= Infinity
    /\ improve \in 0 .. Infinity
    /\ best_eval \in Int /\ best_eval <= Infinity
    /\ max_resources \in 0 .. Cardinality(Resources)
    /\ outcome \in {"none", "unchanged", "optimal", "moved", "free", "parts"}
    /\ moves \in 0 .. MaxMoves

(* What Self can make of v by changing resources of a list only. *)
Variants(v, list) ==
    {w \in Reassignments(Self, v) : \A r \in Resources : w[r] # v[r] => Contains(list, r)}

Cheapest(S) == CHOOSE c \in {Cost(w) : w \in S} : \A w \in S : c <= Cost(w)

(* The depth-first search of get_optimal_utility, which changes the view   *)
(* it walks through and does not restore yielded resources, finds the      *)
(* lowest cost in the first part; max_resources is what some assignment of *)
(* that cost takes.                                                        *)
OptimumIsKnown ==
    [][phase = "start" =>
          LET S == Variants(Freed(view), Parts(problem.max_tiles)[1])
          IN  /\ best_eval' = Cheapest(S)
              /\ \E w \in S : /\ Cost(w) = best_eval'
                              /\ Cardinality(Owned(w, Self)) = max_resources']_vars

(* What an agent announces as its improvement, summed up on the way        *)
(* through the search, is by how much the assignment it then moves to is   *)
(* better, and it only claims and yields for itself (mgm.c:195-217).       *)
EveryImprovementIsReal ==
    phase = "improve" /\ can_move =>
        /\ new_view \in Reassignments(Self, view)
        /\ improve = Gain(Cost(view), Cost(new_view))

(* The shortcuts of the search lose nothing in the parts where the agent   *)
(* owns nothing, which are all of them for an invading agent: among the    *)
(* assignments of such a part that take no more than max_resources none is *)
(* cheaper than what it ends at, unless that is the best utility or 0.     *)
(* For an agent whose constraints are not satisfied this holds of the      *)
(* first part only that can satisfy them: every improvement is infinite,   *)
(* and no later part has more of it (mgm.c:342).                           *)
Affordable(list) == {w \in Variants(view, list) : Count(list, w) <= max_resources}

SearchFindsTheBest ==
    phase = "improve" /\ outcome = "parts" /\ best_eval >= 0 =>
        LET parts == Parts(problem.max_tiles)
            untouched == {k \in DOMAIN parts : Count(parts[k], view) = 0}
            satisfying == {k \in untouched : Cheapest(Affordable(parts[k])) < Infinity}
            Best(k) == Cost(new_view) \in {best_eval, 0, Cheapest(Affordable(parts[k]))}
        IN  IF eval < Infinity
            THEN \/ Cost(new_view) \in {best_eval, 0}
                 \/ \A k \in untouched : Cost(new_view) <= Cheapest(Affordable(parts[k]))
            ELSE untouched = DOMAIN parts =>
                 IF satisfying = {} THEN ~can_move
                 ELSE LET k == Min(satisfying)
                      IN  new_view \in Affordable(parts[k]) /\ Best(k)

(* Resources of other agents are left alone if free ones do: if few enough *)
(* are free and some of them give the best utility, those are taken.       *)
FreeBeforeForeign ==
    phase = "improve" /\ outcome \in {"free", "parts"} /\ Owned(view, Self) = {} /\ best_eval >= 0 =>
        LET list == InOrder(Owned(view, Free))
        IN  \/ Len(list) * Cardinality(Tiles) > Cardinality(Resources) * problem.max_tiles
            \/ \A w \in Variants(view, list) :
                   Cardinality(Owned(w, Self)) <= max_resources => Cost(w) \notin {best_eval, 0}
            \/ /\ Cost(new_view) \in {best_eval, 0}
               /\ \A r \in Resources : new_view[r] # view[r] => view[r] = Free

(* A native constraint is satisfied, or costs nothing, where the Lua       *)
(* constraint it replaces is; by how much others are missed differs, and   *)
(* so does TILE.                                                           *)
HasTwin(c) == c.kind \notin {"TILE", "DOWNEY", "SPEEDUP"}

NativeAndLuaAgree ==
    \A i \in DOMAIN problem.constraints :
        LET c == problem.constraints[i]
        IN  HasTwin(c) => (Native(c, Self, view, seen) = 0 <=> Lua(c, Self, view, seen) = 0)
=============================================================================
