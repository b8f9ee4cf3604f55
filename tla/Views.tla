------------------------------- MODULE Views -------------------------------
(***************************************************************************)
(* Views of the hardware (view.c): what an agent believes about the status *)
(* and the owner of every resource.  Views of one problem list the same    *)
(* resources in the same order, so the pairwise walks of view.c are taken  *)
(* resource by resource.  An entry is the owner of a resource, or says     *)
(* that it is free or that nothing is known of it.                         *)
(***************************************************************************)
EXTENDS Integers

CONSTANT Resources

Unknown == -1
Free == 0

ViewsOver(agents) == [Resources -> agents \union {Free, Unknown}]
KnownViewsOver(agents) == [Resources -> agents \union {Free}]

(* view_compare: an unknown entry differs from nothing. *)
Compare(v, w) ==
    \A r \in Resources : v[r] = Unknown \/ w[r] = Unknown \/ v[r] = w[r]

(* view_is_affected: w takes something from agent id that v gives to it. *)
IsAffected(v, id, w) ==
    \E r \in Resources : v[r] = id /\ w[r] \notin {id, Unknown}

(* view_merge with override. *)
Merge(v, w) ==
    [r \in Resources |-> IF v[r] = Unknown \/ w[r] # Unknown THEN w[r] ELSE v[r]]

(* view_clear *)
Cleared == [r \in Resources |-> Unknown]

(* The assignments an agent considers: it claims a resource, yields one it *)
(* owns (agent_claim_resource, agent_yield_resource), or leaves it alone.  *)
Reassignments(id, v) ==
    {w \in [Resources -> {v[r] : r \in Resources} \union {id, Free}] :
        \A r \in Resources :
            w[r] \in {v[r], id} \union (IF v[r] = id THEN {Free} ELSE {})}
=============================================================================
