-------------------------------- MODULE Tlm --------------------------------
(***************************************************************************)
(* The allocator for tile-local memory (tlm.c).  One arena of fixed size   *)
(* is cut into entries, free or taken, that are kept in a list and         *)
(* accounted for in a table with room for a fixed number of them.  An      *)
(* arena belongs to an agent, but other threads use it as well: a message  *)
(* is allocated by its sender and freed by its receiver.                   *)
(*                                                                         *)
(* Each call holds the mutex of the arena while it works on the entries;   *)
(* clearing and copying happen after it, and tlm_realloc gives the mutex   *)
(* up before it moves a block.  Sizes are in words, the granularity of the *)
(* callers' requests.  The list is the set of its entries: its order only  *)
(* decides which one of several that fit is taken, and that is left open.  *)
(***************************************************************************)
EXTENDS Integers, FiniteSets, FiniteSetsExt

CONSTANTS Threads,    \* the threads that use the arena
          Size,       \* tlm->size
          Align,      \* the words in eight bytes
          MaxEntries, \* MAX_ENTRIES
          Sizes,      \* the sizes of blocks that callers ask for
          MaxUsed     \* bound: no block is moved once more than this is counted

ASSUME SizeAssumption == Size \in Nat \ {0} /\ Size % Align = 0
(* The blocks that callers resize hold ints or pointers: the words have    *)
(* four or eight bytes.                                                    *)
ASSUME AlignAssumption == Align \in {1, 2}
ASSUME MaxEntriesAssumption == MaxEntries \in Nat \ {0}
ASSUME SizesAssumption == Sizes \subseteq Nat \ {0}
ASSUME MaxUsedAssumption == MaxUsed \in Nat

VARIABLES entries,  \* tlm->entries
          cur_used, \* tlm->cur_used
          max_used, \* tlm->max_used
          blocks,   \* the blocks that callers have, with the sizes they asked for
          memory,   \* what is in the arena: the i-th word of a block holds i
          op        \* the call each thread is in, between its critical sections

vars == <<entries, cur_used, max_used, blocks, memory, op>>

Addresses == 0 .. Size - 1
Entries == [base : Addresses, size : 1 .. Size, free : BOOLEAN]
Blocks == [base : Addresses, size : Sizes]

(* A call under way: the block it makes, and the one it moves it from. *)
Nothing == [base |-> -1, size |-> 0]
Idle == [step |-> "idle", new |-> Nothing, old |-> Nothing]
Calls ==
    [step : {"idle", "clear", "move", "copy", "free", "crashed"},
     new : {Nothing} \union Blocks \union [base : {-1}, size : Sizes],
     old : {Nothing} \union Blocks]

TypeOK ==
    /\ entries \subseteq Entries
    /\ cur_used \in Nat
    /\ max_used \in Nat
    /\ blocks \subseteq Blocks
    /\ memory \in [Addresses -> Nat]
    /\ op \in [Threads -> Calls]

Entry(base, size, free) == [base |-> base, size |-> size, free |-> free]
End(e) == e.base + e.size

(* tlm_create *)
Init ==
    /\ entries = {Entry(0, Size, TRUE)}
    /\ cur_used = 0
    /\ max_used = 0
    /\ blocks = {}
    /\ memory = [x \in Addresses |-> 0]
    /\ op = [t \in Threads |-> Idle]

-----------------------------------------------------------------------------
(* Names with an underscore are deliberately wrong variants: each of them   *)
(* breaks a property that the variant it is named after satisfies.         *)

(* What remains of a free entry: one that has become empty is unlinked. *)
Remaining_Always(base, size) == {Entry(base, size, TRUE)}
Remaining(base, size) == IF size = 0 THEN {} ELSE {Entry(base, size, TRUE)}

(* The entry of a block, and the free entries that tlm_prev and tlm_next   *)
(* find next to an entry.                                                  *)
EntryOf(b) == CHOOSE e \in entries : ~e.free /\ e.base = b.base
FreeBefore(e) == {f \in entries : f.free /\ End(f) = e.base}
FreeAfter_OrTaken(e) == {f \in entries : f.base = End(e)}
FreeAfter(e) == {f \in entries : f.free /\ f.base = End(e)}

Used(n) ==
    /\ cur_used' = n
    /\ max_used' = IF n > max_used THEN n ELSE max_used

(* The memory when the words of a block from the given one on are stored.  *)
Stored(m, b, from) ==
    [x \in Addresses |-> IF x \in b.base + from - 1 .. b.base + b.size - 1
                            THEN x - b.base + 1 ELSE m[x]]

-----------------------------------------------------------------------------
(* tlm_malloc.  It needs an entry of the table even where it uses up a     *)
(* free one.  No caller looks whether it gets NULL.                        *)
Rounded(n) == ((n + Align - 1) \div Align) * Align
Fitting(n) == {e \in entries : e.free /\ e.size >= Rounded(n)}
Fails(n) == Fitting(n) = {} \/ Cardinality(entries) >= MaxEntries

TakeFrom(e, n) ==
    /\ entries' = (entries \ {e})
                     \union {Entry(e.base, Rounded(n), FALSE)}
                     \union Remaining(e.base + Rounded(n), e.size - Rounded(n))
    /\ Used(cur_used + Rounded(n))

Malloc(t, n) ==
    /\ op[t] = Idle
    /\ ~Fails(n)
    /\ \E e \in Fitting(n) :
          /\ TakeFrom(e, n)
          /\ op' = [op EXCEPT ![t] =
                       [Idle EXCEPT !.step = "clear",
                                    !.new = [base |-> e.base, size |-> n]]]
    /\ UNCHANGED <<blocks, memory>>

(* The memset after the unlock covers the whole entry; the caller then     *)
(* fills its block.                                                        *)
ClearedMemory(b) ==
    [x \in Addresses |->
        IF x \in b.base .. b.base + Rounded(b.size) - 1 THEN 0 ELSE memory[x]]

Clear(t) ==
    /\ op[t].step = "clear"
    /\ memory' = Stored(ClearedMemory(op[t].new), op[t].new, 1)
    /\ blocks' = blocks \union {op[t].new}
    /\ op' = [op EXCEPT ![t] = Idle]
    /\ UNCHANGED <<entries, cur_used, max_used>>

(* tlm_free: the entry absorbs the free ones on both sides. *)
Absorbed_OnlyNext(e) == FreeAfter(e)
Absorbed(e) == FreeBefore(e) \union FreeAfter(e)
Coalesced_InPlace(e) ==
    LET high == Max({End(f) : f \in {e} \union Absorbed(e)})
    IN  Entry(e.base, high - e.base, TRUE)
Coalesced(e) ==
    LET low == Min({f.base : f \in {e} \union Absorbed(e)})
        high == Max({End(f) : f \in {e} \union Absorbed(e)})
    IN  Entry(low, high - low, TRUE)

GiveBack(b) ==
    LET e == EntryOf(b)
    IN  /\ entries' = (entries \ ({e} \union Absorbed(e))) \union {Coalesced(e)}
        /\ cur_used' = cur_used - e.size
        /\ UNCHANGED max_used

(* A block that tlm_realloc is moving is not freed by anyone else. *)
Moving == {op[t].old : t \in Threads}

Free(t, b) ==
    /\ op[t] = Idle
    /\ b \in blocks \ Moving
    /\ GiveBack(b)
    /\ blocks' = blocks \ {b}
    /\ UNCHANGED <<memory, op>>

-----------------------------------------------------------------------------
(* tlm_realloc of a block to a larger size, as all its callers ask for.    *)
(* They fill the words they have got as soon as it returns.                *)
Reallocates(t, b, n) ==
    /\ op[t] = Idle
    /\ b \in blocks \ Moving
    /\ n > b.size

Becomes(b, c) == blocks' = (blocks \ {b}) \union {c}
Filled(m, b, c) == memory' = Stored(m, c, b.size + 1)

Missing(b, n) == n - EntryOf(b).size
LargeEnough(free, b, n) == {f \in free : f.size >= Missing(b, n)}
Below(b, n) == LargeEnough(FreeBefore(EntryOf(b)), b, n)
Above(b, n) == LargeEnough(FreeAfter(EntryOf(b)), b, n)

(* The entry has the size already. *)
Keep(t, b, n) ==
    /\ Reallocates(t, b, n)
    /\ Missing(b, n) = 0
    /\ Becomes(b, [b EXCEPT !.size = n])
    /\ Filled(memory, b, [b EXCEPT !.size = n])
    /\ UNCHANGED <<entries, cur_used, max_used, op>>

(* It grows into the free entry before it, and its contents move down... *)
MovedDown_Not(e, d) == memory
MovedDown(e, d) ==
    [x \in Addresses |-> IF x \in e.base - d .. End(e) - d - 1
                            THEN memory[x + d] ELSE memory[x]]

GrowDown(t, b, n) ==
    /\ Reallocates(t, b, n)
    /\ Missing(b, n) > 0
    /\ \E f \in Below(b, n) :
          LET e == EntryOf(b)
              d == Missing(b, n)
              c == [base |-> b.base - d, size |-> n]
          IN  /\ entries' = (entries \ {e, f})
                               \union {Entry(e.base - d, n, FALSE)}
                               \union Remaining(f.base, f.size - d)
              /\ Used(cur_used + d)
              /\ Becomes(b, c)
              /\ Filled(MovedDown(e, d), b, c)
    /\ UNCHANGED op

(* ... or else into the one after it... *)
GrowUp(t, b, n) ==
    /\ Reallocates(t, b, n)
    /\ Missing(b, n) > 0
    /\ Below(b, n) = {}
    /\ \E f \in Above(b, n) :
          LET e == EntryOf(b)
              d == Missing(b, n)
          IN  /\ entries' = (entries \ {e, f})
                               \union {Entry(e.base, n, FALSE)}
                               \union Remaining(f.base + d, f.size - d)
              /\ Used(cur_used + d)
    /\ Becomes(b, [b EXCEPT !.size = n])
    /\ Filled(memory, b, [b EXCEPT !.size = n])
    /\ UNCHANGED op

(* ... or else it is moved, by calls of tlm_malloc and tlm_free.  The      *)
(* growth has been counted by then.                                        *)
StartMove(t, b, n) ==
    /\ Reallocates(t, b, n)
    /\ Missing(b, n) > 0
    /\ Below(b, n) = {} /\ Above(b, n) = {}
    /\ cur_used < MaxUsed
    /\ Used(cur_used + Missing(b, n))
    /\ op' = [op EXCEPT ![t] =
                 [step |-> "move", new |-> [base |-> -1, size |-> n], old |-> b]]
    /\ UNCHANGED <<entries, blocks, memory>>

MoveMalloc(t) ==
    /\ op[t].step = "move"
    /\ ~Fails(op[t].new.size)
    /\ \E e \in Fitting(op[t].new.size) :
          /\ TakeFrom(e, op[t].new.size)
          /\ op' = [op EXCEPT ![t].step = "copy", ![t].new.base = e.base]
    /\ UNCHANGED <<blocks, memory>>

(* memset, and memcpy of all that the old entry holds. *)
Copy(t) ==
    /\ op[t].step = "copy"
    /\ LET new == op[t].new
           old == EntryOf(op[t].old)
       IN  memory' = [x \in Addresses |->
                         IF x \in new.base .. new.base + old.size - 1
                            THEN memory[x - new.base + old.base]
                            ELSE ClearedMemory(new)[x]]
    /\ op' = [op EXCEPT ![t].step = "free"]
    /\ UNCHANGED <<entries, cur_used, max_used, blocks>>

MoveFree(t) ==
    /\ op[t].step = "free"
    /\ GiveBack(op[t].old)
    /\ Becomes(op[t].old, op[t].new)
    /\ Filled(memory, op[t].old, op[t].new)
    /\ op' = [op EXCEPT ![t] = Idle]

-----------------------------------------------------------------------------
(* A caller that gets NULL writes to it, as does tlm_realloc itself: the   *)
(* program ends there.                                                     *)
Crash(t) ==
    /\ \/ op[t] = Idle /\ \E n \in Sizes : Fails(n)
       \/ op[t].step = "move" /\ Fails(op[t].new.size)
    /\ op' = [op EXCEPT ![t].step = "crashed"]
    /\ UNCHANGED <<entries, cur_used, max_used, blocks, memory>>

Crashed == \E t \in Threads : op[t].step = "crashed"

Step(t) ==
    \/ \E n \in Sizes : Malloc(t, n)
    \/ Clear(t)
    \/ \E b \in blocks : Free(t, b)
    \/ \E b \in blocks, n \in Sizes :
          Keep(t, b, n) \/ GrowDown(t, b, n) \/ GrowUp(t, b, n) \/ StartMove(t, b, n)
    \/ MoveMalloc(t)
    \/ Copy(t)
    \/ MoveFree(t)
    \/ Crash(t)

Next ==
    \/ ~Crashed /\ \E t \in Threads : Step(t)
    \/ Crashed /\ UNCHANGED vars

Spec == Init /\ [][Next]_vars

-----------------------------------------------------------------------------
Words(e) == e.base .. End(e) - 1

(* The entries cut the arena into pieces: every word of it belongs to      *)
(* exactly one of them, whatever is split, merged, grown and moved.  None  *)
(* is larger than the next size that its caller asks for, so the branch of *)
(* tlm_realloc that shrinks a block (tlm.c:220) is never reached.          *)
EntriesTileTheArena ==
    /\ \A e \in entries : Words(e) \subseteq Addresses
    /\ \A e, f \in entries : e # f => Words(e) \intersect Words(f) = {}
    /\ Addresses = UNION {Words(e) : e \in entries}
    /\ \A b \in blocks : EntryOf(b).size <= b.size + 1

(* Free memory is never broken up: two free entries are never neighbors,   *)
(* though each call looks only at the neighbors of the entry it works on.  *)
FreeEntriesAreMerged ==
    \A e, f \in entries : e.free /\ f.free => End(e) # f.base

(* No call of any thread disturbs the contents of a block of another, and  *)
(* growing or moving a block keeps what it holds.                          *)
ContentsSurvive ==
    \A b \in blocks : \A i \in 1 .. b.size : memory[b.base + i - 1] = i

(* The memory in use. *)
Taken == UNION {Words(e) : e \in {f \in entries : ~f.free}}

(* "tlm: memory currently used: %u KB" (tlm.c:99): what is counted is what *)
(* is in use whenever no call is under way.                                *)
CountIsRight ==
    (\A t \in Threads : op[t] = Idle) => cur_used = Cardinality(Taken)

(* The arena is a heap whose calls are atomic: a call that allocates takes *)
(* effect when it returns, and so does one that moves a block.             *)
TheHeap == INSTANCE Heap
IsHeap == TheHeap!Spec
=============================================================================
