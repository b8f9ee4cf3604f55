---------------------------- MODULE Constraints ----------------------------
(***************************************************************************)
(* What a view costs an agent: the native constraints (native.c), the      *)
(* constraints of lua/constraint.lua that they replace, and the two sums   *)
(* of them that agent_evaluate and rate_view take.  The cost of a view v   *)
(* to agent a also depends on what a has seen of the views of its          *)
(* neighbors.                                                              *)
(*                                                                         *)
(* A cost is a double in the code.  Here it is a multiple of 1/Scale that  *)
(* the constraints of the problem make exact, or Infinity.                 *)
(***************************************************************************)
EXTENDS Views, FiniteSets, Sequences, SequencesExt

CONSTANTS Tile,  \* the tile of every resource
          Type,  \* the type of every resource
          Scale

ASSUME ScaleIsEven == Scale \in Nat /\ Scale > 0 /\ Scale % 2 = 0

Infinity == 1000000

(* A wrong variant: infinities add up. *)
Plus_Finite(x, y) == x + y

Plus(x, y) == IF Infinity \in {x, y} THEN Infinity ELSE x + y

Larger(x, y) == IF x < y THEN y ELSE x
Smaller(x, y) == IF x < y THEN x ELSE y

Owned(v, a) == {r \in Resources : v[r] = a}

OwnedOfType(v, a, type) == {r \in Owned(v, a) : Type[r] = type}

(* What a has in v and b in w: agent_has_conflicting_view counts them. *)
Conflicts(v, a, w, b) == Cardinality(Owned(v, a) \intersect Owned(w, b))

(* A wrong variant: the bounds are excluded. *)
Within_Strictly(n, least, most) == IF least < n /\ n < most THEN 0 ELSE Infinity

Within(n, least, most) == IF n \in least .. most THEN 0 ELSE Infinity

(* _downey, as a fraction.  The speedup of an application on n cores, with *)
(* an average parallelism of A and an integer variance: one core gives     *)
(* none, and no core a negative one.                                       *)
Downey(A, sigma, n) ==
    CASE n >= A + A * sigma - sigma -> <<A, 1>>
      [] n > 1 /\ n < A + A * sigma - sigma ->
             <<n * A * (sigma + 1), sigma * (n + A - 1) + A>>
      [] n = 1 /\ n < A + A * sigma - sigma -> <<0, 1>>
      [] OTHER -> <<-1, 1>>

Difference(p, q) == <<p[1] * q[2] - q[1] * p[2], p[2] * q[2]>>

Greater(p, q) == p[1] * q[2] > q[1] * p[2]

(* How much an agent's speedup drops by the cores it is in conflict about. *)
Loss(param, n, conflicts) ==
    Difference(Downey(param.A, param.sigma, n),
               Downey(param.A, param.sigma, n - conflicts))

Absolute(p) == IF p[1] < 0 THEN <<-p[1], p[2]>> ELSE p

NativeDowney(c, a, v, seen) ==
    LET b == c.neighbor
        conflicts == Conflicts(v, a, seen[b], b)
    IN  IF conflicts = 0
            \/ Greater(Loss(c.mine, Cardinality(Owned(v, a)), conflicts),
                       Absolute(Loss(c.theirs, Cardinality(Owned(seen[b], b)), conflicts)))
        THEN 0 ELSE Infinity

NativeSpeedup(c, a, v) ==
    LET S == Downey(c.mine.A, c.mine.sigma, Cardinality(Owned(v, a)))
    IN  CASE S[1] = 0 -> Scale
          [] S[1] < 0 -> -Scale
          [] S[1] > 0 -> (Scale * S[2]) \div S[1]

(* The native constraints that have no constraint as an argument. *)
NativeSimple(c, a, v, seen) ==
    CASE c.kind \in {"TILE", "NOP"} -> 0
      [] c.kind = "NEC_RE" -> Within(Cardinality(Owned(v, a)), c.least, c.most)
      [] c.kind = "TYPE" ->
             Within(Cardinality(OwnedOfType(v, a, c.type)), c.least, c.most)
      [] c.kind = "SHARE" ->
             IF Conflicts(v, a, seen[c.neighbor], c.neighbor) = 0 THEN 0 ELSE Infinity
      [] c.kind = "PREFER_FREE" ->
             (Scale \div 2) * Conflicts(v, a, seen[c.neighbor], c.neighbor)
      [] c.kind = "DOWNEY" -> NativeDowney(c, a, v, seen)
      [] c.kind = "SPEEDUP" -> NativeSpeedup(c, a, v)

(* The arguments of AND and OR are simple here; those with a neighbor      *)
(* cannot be arguments in the code either, see dcop.load.                  *)
Native(c, a, v, seen) ==
    CASE c.kind = "AND" -> Larger(NativeSimple(c.left, a, v, seen),
                                  NativeSimple(c.right, a, v, seen))
      [] c.kind = "OR" -> Smaller(NativeSimple(c.left, a, v, seen),
                                  NativeSimple(c.right, a, v, seen))
      [] OTHER -> NativeSimple(c, a, v, seen)

(* agent_evaluate of an agent with native constraints. *)
Evaluate(constraints, a, v, seen) ==
    FoldLeft(LAMBDA sum, c : Plus(sum, Native(c, a, v, seen)), 0, constraints)

----------------------------------------------------------------------------
(* The Lua versions of the constraints that do not compute a speedup. *)

LuaTile(a, v) ==
    IF \E r, s \in Owned(v, a) : Tile[r] # Tile[s] THEN Infinity ELSE 0

(* How far n is from what is asked for. *)
LuaWithin(n, least, most) ==
    Scale * (IF n \in least .. most THEN 0 ELSE IF n < least THEN least - n ELSE n - most)

LuaSimple(c, a, v, seen) ==
    CASE c.kind = "NOP" -> 0
      [] c.kind = "TILE" -> LuaTile(a, v)
      [] c.kind = "NEC_RE" -> LuaWithin(Cardinality(Owned(v, a)), c.least, c.most)
      [] c.kind = "TYPE" ->
             LuaWithin(Cardinality(OwnedOfType(v, a, c.type)), c.least, c.most)
      [] c.kind = "SHARE" ->
             IF Owned(v, a) \intersect Owned(seen[c.neighbor], c.neighbor) = {}
             THEN 0 ELSE Infinity
      [] c.kind = "PREFER_FREE" ->
             (Scale * Conflicts(v, a, seen[c.neighbor], c.neighbor)) \div 2

Lua(c, a, v, seen) ==
    CASE c.kind = "AND" -> Larger(LuaSimple(c.left, a, v, seen), LuaSimple(c.right, a, v, seen))
      [] c.kind = "OR" -> Smaller(LuaSimple(c.left, a, v, seen), LuaSimple(c.right, a, v, seen))
      [] OTHER -> LuaSimple(c, a, v, seen)

(* rate_view *)
RateView(constraints, a, v, seen) ==
    FoldLeft(LAMBDA sum, c : Plus(sum, Lua(c, a, v, seen)), 0, constraints)
=============================================================================
