------------------------------ MODULE TlmProofs ------------------------------
(***************************************************************************)
(* Proofs about the allocator, for any threads, arena, table and sizes of  *)
(* blocks: the entries stay a partition of the arena with its free parts   *)
(* merged, blocks keep their contents, no memory in use goes uncounted,    *)
(* and callers see the heap of Heap.tla.                                   *)
(***************************************************************************)
EXTENDS Tlm, FiniteSetTheorems, TLAPS

(* The entries in terms of their bounds. *)
Apart(e, f) == End(e) <= f.base \/ End(f) <= e.base
Covers(e, x) == e.base <= x /\ x < End(e)

Tiles(E) ==
    /\ E \subseteq Entries
    /\ \A e \in E : End(e) <= Size
    /\ \A e, f \in E : e # f => Apart(e, f)
    /\ \A x \in Addresses : \E e \in E : Covers(e, x)

Merged(E) == \A e, f \in E : e.free /\ f.free => End(e) # f.base

-----------------------------------------------------------------------------
(* Facts about single entries.                                             *)
LEMMA EntryType ==
    ASSUME NEW e \in Entries
    PROVE  /\ e.base \in Nat /\ e.size \in Nat /\ e.size > 0 /\ e.free \in BOOLEAN
           /\ End(e) \in Nat /\ e.base < End(e)
           /\ e = Entry(e.base, e.size, e.free)
BY SizeAssumption DEF Entries, Addresses, End, Entry

LEMMA EntryInArena ==
    ASSUME NEW base \in Nat, NEW size \in Nat, size > 0, base + size <= Size,
           NEW free \in BOOLEAN
    PROVE  /\ Entry(base, size, free) \in Entries
           /\ Entry(base, size, free).base = base
           /\ Entry(base, size, free).size = size
           /\ Entry(base, size, free).free = free
           /\ End(Entry(base, size, free)) = base + size
BY SizeAssumption DEF Entries, Addresses, End, Entry

LEMMA RoundedBounds ==
    ASSUME NEW n \in Sizes
    PROVE  Rounded(n) \in Nat /\ n > 0 /\ n <= Rounded(n) /\ Rounded(n) <= n + 1
<1>1. n \in Nat /\ n > 0
  BY SizesAssumption
<1>2. CASE Align = 1
  BY <1>1, <1>2 DEF Rounded
<1>3. CASE Align = 2
  BY <1>1, <1>3 DEF Rounded
<1>. QED
  BY <1>1, <1>2, <1>3, AlignAssumption

(* D is what lies in an interval of the arena, and F fills it.             *)
Occupies(D, E, low, high) ==
    /\ D \subseteq E
    /\ \A e \in E \ D : End(e) <= low \/ high <= e.base
    /\ \A d \in D : low <= d.base /\ End(d) <= high

Fills(F, low, high) ==
    /\ F \subseteq Entries
    /\ \A f \in F : low <= f.base /\ End(f) <= high
    /\ \A f, g \in F : f # g => Apart(f, g)
    /\ \A x \in Nat : low <= x /\ x < high => \E f \in F : Covers(f, x)

LEMMA Refill ==
    ASSUME NEW E, Tiles(E), NEW D, NEW F, NEW low \in Nat, NEW high \in Nat, high <= Size,
           Occupies(D, E, low, high), Fills(F, low, high)
    PROVE  Tiles((E \ D) \union F)
<1>. USE DEF Occupies, Fills
<1>. DEFINE G == (E \ D) \union F
<1>0. E \subseteq Entries
  BY DEF Tiles
<1>1. ASSUME NEW e \in G PROVE e \in Entries /\ End(e) <= Size
  <2>1. CASE e \in E
    BY <2>1 DEF Tiles
  <2>2. CASE e \in F
    BY <2>2, EntryType, SizeAssumption
  <2>. QED
    BY <2>1, <2>2
<1>2. ASSUME NEW e \in G, NEW f \in G, e # f PROVE Apart(e, f)
  <2>1. CASE e \in F /\ f \in F
    BY <1>2, <2>1
  <2>2. CASE e \in E \ D /\ f \in E \ D
    BY <1>2, <2>2 DEF Tiles
  <2>3. CASE e \in F /\ f \in E \ D
    BY <2>3, EntryType DEF Tiles, Apart
  <2>4. CASE e \in E \ D /\ f \in F
    BY <2>4, EntryType DEF Tiles, Apart
  <2>. QED
    BY <2>1, <2>2, <2>3, <2>4
<1>3. ASSUME NEW x \in Addresses PROVE \E e \in G : Covers(e, x)
  <2>0. x \in Nat
    BY SizeAssumption DEF Addresses
  <2>1. PICK e \in E : Covers(e, x)
    BY DEF Tiles
  <2>2. CASE e \in D
    <3>1. low <= x /\ x < high
      BY <2>0, <2>1, <2>2, EntryType DEF Covers, Tiles
    <3>. QED
      BY <2>0, <3>1
  <2>3. CASE e \notin D
    BY <2>1, <2>3
  <2>. QED
    BY <2>2, <2>3
<1>. QED
  BY <1>1, <1>2, <1>3 DEF Tiles

LEMMA RemainingType ==
    ASSUME NEW base \in Nat, NEW size \in Nat, base + size <= Size
    PROVE  \/ size = 0 /\ Remaining(base, size) = {}
           \/ /\ size > 0
              /\ Remaining(base, size) = {Entry(base, size, TRUE)}
BY DEF Remaining, Entry

-----------------------------------------------------------------------------
(* The changes that the calls make to the entries.  tlm_malloc cuts a      *)
(* block off a free entry.                                                 *)
LEMMA TakeTiles ==
    ASSUME NEW E, Tiles(E), Merged(E), NEW e \in E, e.free,
           NEW m \in Nat, m > 0, m <= e.size
    PROVE  LET G == (E \ {e}) \union {Entry(e.base, m, FALSE)}
                        \union Remaining(e.base + m, e.size - m)
           IN  Tiles(G) /\ Merged(G)
<1>. DEFINE new == Entry(e.base, m, FALSE)
            F == {new} \union Remaining(e.base + m, e.size - m)
            G == (E \ {e}) \union F
<1>0. /\ E \subseteq Entries /\ e \in Entries /\ End(e) <= Size
      /\ e.base \in Nat /\ e.size \in Nat /\ End(e) = e.base + e.size
      /\ \A f \in E \ {e} : End(f) <= e.base \/ End(e) <= f.base
      /\ \A f \in E \ {e} : f.free => End(f) # e.base /\ f.base # End(e)
      /\ \A f \in E : f.base \in Nat /\ End(f) \in Nat /\ f.base < End(f)
  BY EntryType DEF Tiles, Merged, Apart, End
<1>1. /\ new \in Entries /\ new.base = e.base /\ new.free = FALSE
      /\ End(new) = e.base + m
  BY <1>0, SizeAssumption DEF Entries, Addresses, Entry, End
<1>o. Occupies({e}, E, e.base, End(e))
  BY <1>0 DEF Occupies
<1>. HIDE DEF new
<1>2. ASSUME e.size - m = 0 PROVE Tiles(G) /\ Merged(G)
  <2>1. F = {new}
    BY <1>2 DEF Remaining, Entry, new
  <2>a. Fills(F, e.base, End(e))
    BY <1>0, <1>1, <1>2, <2>1 DEF Fills, Covers
  <2>2. Tiles(G)
    BY <1>0, <1>o, <2>a, Refill
  <2>3. Merged(G)
    BY <1>1, <2>1 DEF Merged
  <2>. QED
    BY <2>2, <2>3
<1>3. ASSUME e.size - m > 0 PROVE Tiles(G) /\ Merged(G)
  <2>. DEFINE rest == Entry(e.base + m, e.size - m, TRUE)
  <2>1. F = {new, rest}
    BY <1>0, <1>3 DEF Remaining, Entry
  <2>2. /\ rest \in Entries /\ rest.base = e.base + m /\ rest.free = TRUE
        /\ End(rest) = End(e)
    BY <1>0, <1>3, SizeAssumption DEF Entries, Addresses, Entry, End
  <2>. HIDE DEF rest
  <2>a. Fills(F, e.base, End(e))
    BY <1>0, <1>1, <1>3, <2>1, <2>2 DEF Fills, Covers, Apart
  <2>3. Tiles(G)
    BY <1>0, <1>o, <2>a, Refill
  <2>4. Merged(G)
    BY <1>0, <1>1, <1>3, <2>1, <2>2 DEF Merged
  <2>. QED
    BY <2>3, <2>4
<1>g. G = (E \ {e}) \union {new} \union Remaining(e.base + m, e.size - m)
  OBVIOUS
<1>. HIDE DEF G, F
<1>. QED
  BY <1>0, <1>2, <1>3, <1>g DEF new

(* tlm_realloc grows a block into the free entry before it...                *)
LEMMA GrowDownTiles ==
    ASSUME NEW E, Tiles(E), Merged(E), NEW e \in E, NEW f \in E,
           ~e.free, f.free, End(f) = e.base, NEW d \in Nat, d > 0, d <= f.size
    PROVE  LET G == (E \ {e, f}) \union {Entry(e.base - d, e.size + d, FALSE)}
                        \union Remaining(f.base, f.size - d)
           IN  Tiles(G) /\ Merged(G)
<1>. DEFINE new == Entry(e.base - d, e.size + d, FALSE)
            F == {new} \union Remaining(f.base, f.size - d)
            G == (E \ {e, f}) \union F
<1>0. /\ E \subseteq Entries /\ e \in Entries /\ f \in Entries /\ e # f
      /\ End(e) <= Size /\ End(f) <= Size
      /\ e.base \in Nat /\ e.size \in Nat /\ End(e) = e.base + e.size
      /\ f.base \in Nat /\ f.size \in Nat /\ End(f) = f.base + f.size
      /\ \A g \in E : g.base \in Nat /\ End(g) \in Nat /\ g.base < End(g)
  BY EntryType DEF Tiles, Apart, End
<1>m. \A g \in E \ {e, f} : g.free => End(g) # f.base /\ g.base # End(f)
  BY DEF Merged
<1>1. /\ new \in Entries /\ new.base = e.base - d /\ new.free = FALSE
      /\ End(new) = e.base - d + e.size + d
  BY <1>0, SizeAssumption DEF Entries, Addresses, Entry, End
<1>a. ASSUME NEW g \in E \ {e, f} PROVE End(g) <= f.base \/ End(e) <= g.base
  <2>1. /\ g.base \in Nat /\ End(g) \in Nat /\ g.base < End(g)
        /\ Apart(g, e) /\ Apart(g, f)
    BY EntryType DEF Tiles
  <2>. QED
    BY <1>0, <2>1 DEF Apart
<1>b. f.base <= e.base /\ f.base <= f.base /\ End(e) <= End(e) /\ End(f) <= End(e)
  BY <1>0
<1>o. Occupies({e, f}, E, f.base, End(e))
  BY <1>a, <1>b DEF Occupies
<1>. HIDE DEF new
<1>2. ASSUME f.size - d = 0 PROVE Tiles(G) /\ Merged(G)
  <2>1. F = {new}
    BY <1>2 DEF Remaining, Entry, new
  <2>2. Fills(F, f.base, End(e))
    BY <1>0, <1>1, <1>2, <2>1 DEF Fills, Covers
  <2>3. Tiles(G)
    BY <1>0, <1>o, <2>2, Refill
  <2>4. Merged(G)
    BY <1>1, <2>1 DEF Merged
  <2>. QED
    BY <2>3, <2>4
<1>3. ASSUME f.size - d > 0 PROVE Tiles(G) /\ Merged(G)
  <2>. DEFINE rest == Entry(f.base, f.size - d, TRUE)
  <2>1. F = {new, rest}
    BY <1>0, <1>3 DEF Remaining, Entry
  <2>2. /\ rest \in Entries /\ rest.base = f.base /\ rest.free = TRUE
        /\ End(rest) = e.base - d
    BY <1>0, <1>3, SizeAssumption DEF Entries, Addresses, Entry, End
  <2>. HIDE DEF rest
  <2>3. Fills(F, f.base, End(e))
    BY <1>0, <1>1, <1>3, <2>1, <2>2 DEF Fills, Covers, Apart
  <2>4. Tiles(G)
    BY <1>0, <1>o, <2>3, Refill
  <2>5. Merged(G)
    BY <1>0, <1>1, <1>3, <1>a, <1>m, <2>1, <2>2 DEF Merged
  <2>. QED
    BY <2>4, <2>5
<1>4. G = (E \ {e, f}) \union {new} \union Remaining(f.base, f.size - d)
  OBVIOUS
<1>. HIDE DEF G, F
<1>5. Tiles(G) /\ Merged(G)
  BY <1>0, <1>2, <1>3
<1>. QED
  BY <1>4, <1>5 DEF new

(* ... or into the free entry after it.                                      *)
LEMMA GrowUpTiles ==
    ASSUME NEW E, Tiles(E), Merged(E), NEW e \in E, NEW f \in E,
           ~e.free, f.free, f.base = End(e), NEW d \in Nat, d > 0, d <= f.size
    PROVE  LET G == (E \ {e, f}) \union {Entry(e.base, e.size + d, FALSE)}
                        \union Remaining(f.base + d, f.size - d)
           IN  Tiles(G) /\ Merged(G)
<1>. DEFINE new == Entry(e.base, e.size + d, FALSE)
            F == {new} \union Remaining(f.base + d, f.size - d)
            G == (E \ {e, f}) \union F
<1>0. /\ E \subseteq Entries /\ e \in Entries /\ f \in Entries /\ e # f
      /\ End(e) <= Size /\ End(f) <= Size
      /\ e.base \in Nat /\ e.size \in Nat /\ End(e) = e.base + e.size
      /\ f.base \in Nat /\ f.size \in Nat /\ End(f) = f.base + f.size
      /\ \A g \in E : g.base \in Nat /\ End(g) \in Nat /\ g.base < End(g)
  BY EntryType DEF Tiles, Apart, End
<1>m. \A g \in E \ {e, f} : g.free => End(g) # f.base /\ g.base # End(f)
  BY DEF Merged
<1>1. /\ new \in Entries /\ new.base = e.base /\ new.free = FALSE
      /\ End(new) = e.base + e.size + d
  BY <1>0, SizeAssumption DEF Entries, Addresses, Entry, End
<1>a. ASSUME NEW g \in E \ {e, f} PROVE End(g) <= e.base \/ End(f) <= g.base
  <2>1. /\ g.base \in Nat /\ End(g) \in Nat /\ g.base < End(g)
        /\ Apart(g, e) /\ Apart(g, f)
    BY EntryType DEF Tiles
  <2>. QED
    BY <1>0, <2>1 DEF Apart
<1>o. Occupies({e, f}, E, e.base, End(f))
  BY <1>0, <1>a DEF Occupies
<1>. HIDE DEF new
<1>2. ASSUME f.size - d = 0 PROVE Tiles(G) /\ Merged(G)
  <2>1. F = {new}
    BY <1>2 DEF Remaining, Entry, new
  <2>2. Fills(F, e.base, End(f))
    BY <1>0, <1>1, <1>2, <2>1 DEF Fills, Covers
  <2>3. Tiles(G)
    BY <1>0, <1>o, <2>2, Refill
  <2>4. Merged(G)
    BY <1>1, <2>1 DEF Merged
  <2>. QED
    BY <2>3, <2>4
<1>3. ASSUME f.size - d > 0 PROVE Tiles(G) /\ Merged(G)
  <2>. DEFINE rest == Entry(f.base + d, f.size - d, TRUE)
  <2>1. F = {new, rest}
    BY <1>0, <1>3 DEF Remaining, Entry
  <2>2. /\ rest \in Entries /\ rest.base = f.base + d /\ rest.free = TRUE
        /\ End(rest) = End(f)
    BY <1>0, <1>3, SizeAssumption DEF Entries, Addresses, Entry, End
  <2>. HIDE DEF rest
  <2>3. Fills(F, e.base, End(f))
    BY <1>0, <1>1, <1>3, <2>1, <2>2 DEF Fills, Covers, Apart
  <2>4. Tiles(G)
    BY <1>0, <1>o, <2>3, Refill
  <2>5. Merged(G)
    BY <1>0, <1>1, <1>3, <1>a, <1>m, <2>1, <2>2 DEF Merged
  <2>. QED
    BY <2>4, <2>5
<1>4. G = (E \ {e, f}) \union {new} \union Remaining(f.base + d, f.size - d)
  OBVIOUS
<1>. HIDE DEF G, F
<1>5. Tiles(G) /\ Merged(G)
  BY <1>0, <1>2, <1>3
<1>. QED
  BY <1>4, <1>5 DEF new

-----------------------------------------------------------------------------
(* tlm_free merges an entry with its free neighbors.                       *)
LEMMA MinIs ==
    ASSUME NEW S \in SUBSET Int, NEW x \in S, \A y \in S : x <= y
    PROVE  Min(S) = x
<1>1. Min(S) \in S /\ \A y \in S : Min(S) <= y
  BY DEF Min
<1>2. Min(S) \in Int /\ x \in Int /\ Min(S) <= x /\ x <= Min(S)
  BY <1>1
<1>. QED
  BY <1>2

LEMMA MaxIs ==
    ASSUME NEW S \in SUBSET Int, NEW x \in S, \A y \in S : x >= y
    PROVE  Max(S) = x
<1>1. Max(S) \in S /\ \A y \in S : Max(S) >= y
  BY DEF Max
<1>2. Max(S) \in Int /\ x \in Int /\ Max(S) >= x /\ x >= Max(S)
  BY <1>1
<1>. QED
  BY <1>2

(* The bounds of what is merged: there is at most one free entry on each   *)
(* side, and the bounds are those of an entry that is merged.              *)
LEMMA CoalescedBounds ==
    ASSUME Tiles(entries), NEW e \in entries
    PROVE  \E low, high \in Nat :
              /\ Coalesced(e) = Entry(low, high - low, TRUE)
              /\ low <= e.base /\ End(e) <= high /\ high <= Size
              /\ low = e.base \/ \E f \in FreeBefore(e) : low = f.base
              /\ high = End(e) \/ \E f \in FreeAfter(e) : high = End(f)
              /\ \A f \in FreeBefore(e) : low = f.base
              /\ \A f \in FreeAfter(e) : high = End(f)
<1>0. /\ entries \subseteq Entries /\ e \in Entries
      /\ \A f \in entries : /\ f.base \in Nat /\ End(f) \in Nat
                            /\ f.base < End(f) /\ End(f) <= Size
      /\ \A f, g \in entries : f # g => End(f) <= g.base \/ End(g) <= f.base
  BY EntryType DEF Tiles, Apart
<1>1. \A f, g \in FreeBefore(e) : f = g
  BY <1>0 DEF FreeBefore
<1>2. \A f, g \in FreeAfter(e) : f = g
  BY <1>0 DEF FreeAfter
<1>. DEFINE M == {e} \union Absorbed(e)
            lows == {f.base : f \in M}
            highs == {End(f) : f \in M}
<1>3. M \subseteq entries /\ e \in M
  BY <1>0 DEF Absorbed, FreeBefore, FreeAfter
<1>low. ASSUME NEW f \in M, \A g \in M : f.base <= g.base
        PROVE  Min(lows) = f.base
  <2>1. f.base \in lows /\ lows \in SUBSET Int
    BY <1>0, <1>3
  <2>2. \A y \in lows : f.base <= y
    BY <1>low
  <2>. QED
    BY <2>1, <2>2, MinIs
<1>high. ASSUME NEW f \in M, \A g \in M : End(f) >= End(g)
         PROVE  Max(highs) = End(f)
  <2>1. End(f) \in highs /\ highs \in SUBSET Int
    BY <1>0, <1>3
  <2>2. \A y \in highs : End(f) >= y
    BY <1>high
  <2>. QED
    BY <2>1, <2>2, MaxIs
<1>m. \A f \in M : f = e \/ f \in FreeBefore(e) \/ f \in FreeAfter(e)
  BY DEF Absorbed
<1>c. Coalesced(e) = Entry(Min(lows), Max(highs) - Min(lows), TRUE)
  BY DEF Coalesced
<1>. HIDE DEF lows, highs
<1>4. PICK low \in Nat : /\ Min(lows) = low /\ low <= e.base
                         /\ low = e.base \/ \E f \in FreeBefore(e) : low = f.base
                         /\ \A f \in FreeBefore(e) : low = f.base
  <2>1. CASE FreeBefore(e) = {}
    <3>1. \A f \in M : e.base <= f.base
      BY <1>0, <1>m, <2>1 DEF FreeAfter
    <3>2. Min(lows) = e.base
      BY <1>3, <1>low, <3>1
    <3>. QED
      BY <1>0, <2>1, <3>2
  <2>2. CASE FreeBefore(e) # {}
    <3>. PICK b \in FreeBefore(e) : TRUE
      BY <2>2
    <3>2. b \in entries /\ End(b) = e.base
      BY DEF FreeBefore
    <3>3. b.base < e.base
      BY <1>0, <3>2
    <3>4. \A f \in M : b.base <= f.base
      BY <1>0, <1>1, <1>m, <3>2, <3>3 DEF FreeAfter
    <3>5. b \in M
      BY DEF Absorbed
    <3>6. Min(lows) = b.base
      BY <1>low, <3>4, <3>5
    <3>7. b.base \in Nat
      BY <1>0, <3>2
    <3>. QED
      BY <1>0, <1>1, <3>3, <3>6, <3>7
  <2>. QED
    BY <2>1, <2>2
<1>5. PICK high \in Nat : /\ Max(highs) = high /\ End(e) <= high /\ high <= Size
                          /\ high = End(e) \/ \E f \in FreeAfter(e) : high = End(f)
                          /\ \A f \in FreeAfter(e) : high = End(f)
  <2>1. CASE FreeAfter(e) = {}
    <3>1. \A f \in M : End(e) >= End(f)
      BY <1>0, <1>m, <2>1 DEF FreeBefore
    <3>2. Max(highs) = End(e)
      BY <1>3, <1>high, <3>1
    <3>. QED
      BY <1>0, <2>1, <3>2
  <2>2. CASE FreeAfter(e) # {}
    <3>. PICK a \in FreeAfter(e) : TRUE
      BY <2>2
    <3>2. a \in entries /\ a.base = End(e)
      BY DEF FreeAfter
    <3>3. End(e) < End(a)
      BY <1>0, <3>2
    <3>4. \A f \in M : End(a) >= End(f)
      BY <1>0, <1>2, <1>m, <3>2, <3>3 DEF FreeBefore
    <3>5. a \in M
      BY DEF Absorbed
    <3>6. Max(highs) = End(a)
      BY <1>high, <3>4, <3>5
    <3>7. End(a) \in Nat /\ End(a) <= Size
      BY <1>0, <3>2
    <3>. QED
      BY <1>0, <1>2, <3>3, <3>6, <3>7
  <2>. QED
    BY <2>1, <2>2
<1>6. Coalesced(e) = Entry(low, high - low, TRUE)
  BY <1>c, <1>4, <1>5
<1>. QED
  BY <1>4, <1>5, <1>6

LEMMA CoalesceTiles ==
    ASSUME Tiles(entries), Merged(entries), NEW e \in entries, ~e.free
    PROVE  LET G == (entries \ ({e} \union Absorbed(e))) \union {Coalesced(e)}
           IN  Tiles(G) /\ Merged(G)
<1>. DEFINE D == {e} \union Absorbed(e)
            new == Coalesced(e)
            G == (entries \ D) \union {new}
<1>0. /\ entries \subseteq Entries /\ e \in Entries
      /\ \A f \in entries : /\ f.base \in Nat /\ End(f) \in Nat
                            /\ f.base < End(f) /\ End(f) <= Size
      /\ \A f, g \in entries : f # g => End(f) <= g.base \/ End(g) <= f.base
  BY EntryType DEF Tiles, Apart
<1>1. PICK low, high \in Nat :
              /\ Coalesced(e) = Entry(low, high - low, TRUE)
              /\ low <= e.base /\ End(e) <= high /\ high <= Size
              /\ low = e.base \/ \E f \in FreeBefore(e) : low = f.base
              /\ high = End(e) \/ \E f \in FreeAfter(e) : high = End(f)
              /\ \A f \in FreeBefore(e) : low = f.base
              /\ \A f \in FreeAfter(e) : high = End(f)
  BY CoalescedBounds
<1>2. low < high
  BY <1>0, <1>1
<1>3. /\ new \in Entries /\ new.base = low /\ End(new) = high
  BY <1>1, <1>2, SizeAssumption DEF Entries, Addresses, Entry, End
<1>4. D \subseteq entries /\ \A f \in D : low <= f.base /\ End(f) <= high
  BY <1>0, <1>1 DEF Absorbed, FreeBefore, FreeAfter
<1>5. ASSUME NEW g \in entries \ D PROVE End(g) <= low \/ high <= g.base
  <2>1. End(g) <= e.base \/ End(e) <= g.base
    BY <1>0
  <2>2. End(g) <= e.base => End(g) <= low
    <3>1. CASE low = e.base
      BY <3>1
    <3>2. CASE low # e.base
      <4>1. PICK f \in FreeBefore(e) : low = f.base
        BY <1>1, <3>2
      <4>2. f \in entries /\ End(f) = e.base /\ f # g
        BY <4>1 DEF FreeBefore, Absorbed
      <4>. QED
        BY <1>0, <4>1, <4>2
    <3>. QED
      BY <3>1, <3>2
  <2>3. End(e) <= g.base => high <= g.base
    <3>1. CASE high = End(e)
      BY <3>1
    <3>2. CASE high # End(e)
      <4>1. PICK f \in FreeAfter(e) : high = End(f)
        BY <1>1, <3>2
      <4>2. f \in entries /\ f.base = End(e) /\ f # g
        BY <4>1 DEF FreeAfter, Absorbed
      <4>. QED
        BY <1>0, <4>1, <4>2
    <3>. QED
      BY <3>1, <3>2
  <2>. QED
    BY <2>1, <2>2, <2>3
<1>6. ASSUME NEW g \in entries \ D, g.free PROVE End(g) # low /\ g.base # high
  <2>1. CASE End(g) = low
    <3>1. low # e.base
      BY <1>6, <2>1 DEF Absorbed, FreeBefore
    <3>2. PICK f \in FreeBefore(e) : low = f.base
      BY <1>1, <3>1
    <3>. QED
      BY <1>6, <2>1, <3>2 DEF Merged, FreeBefore
  <2>2. CASE g.base = high
    <3>1. high # End(e)
      BY <1>6, <2>2 DEF Absorbed, FreeAfter
    <3>2. PICK f \in FreeAfter(e) : high = End(f)
      BY <1>1, <3>1
    <3>. QED
      BY <1>6, <2>2, <3>2 DEF Merged, FreeAfter
  <2>. QED
    BY <2>1, <2>2
<1>7. Occupies(D, entries, low, high)
  BY <1>4, <1>5 DEF Occupies
<1>. HIDE DEF new, D
<1>8. Fills({new}, low, high)
  BY <1>3 DEF Fills, Covers
<1>9. Tiles(G)
  BY <1>1, <1>7, <1>8, Refill
<1>10. Merged(G)
  BY <1>0, <1>2, <1>3, <1>6 DEF Merged
<1>. QED
  BY <1>9, <1>10 DEF new, D

-----------------------------------------------------------------------------
(* The inductive invariant.  Every block of a caller, and every one that a *)
(* call is making, has an entry of its own; a call that moves a block has  *)
(* it to itself and moves it to a larger one.                              *)
IsEntryOf(e, b) == ~e.free /\ e.base = b.base
Fits(E, b) == \E e \in E : IsEntryOf(e, b) /\ b.size <= e.size /\ e.size <= b.size + 1
IsNew(E, b) == \E e \in E : IsEntryOf(e, b) /\ e.size = Rounded(b.size)
Outgrown(E, b, n) == \E e \in E : IsEntryOf(e, b) /\ e.size < n

MakesBlock(r) == r.step \in {"clear", "copy", "free"}
MovesBlock(r) == r.step \in {"move", "copy", "free"}

CallIsRight(r, E, B) ==
    /\ r.step = "idle" => r = Idle
    /\ MakesBlock(r) => /\ r.new \in Blocks /\ IsNew(E, r.new)
                        /\ \A b \in B : b.base # r.new.base
    /\ MovesBlock(r) => /\ r.old \in B /\ r.new.size \in Sizes
                        /\ Outgrown(E, r.old, r.new.size)

CallsAreApart(r, s) ==
    /\ MakesBlock(r) /\ MakesBlock(s) => r.new.base # s.new.base
    /\ MovesBlock(r) /\ MovesBlock(s) => r.old # s.old

EntriesInv == Tiles(entries) /\ Merged(entries)

BlocksInv ==
    /\ blocks \subseteq Blocks
    /\ \A b \in blocks : Fits(entries, b)
    /\ \A b, c \in blocks : b.base = c.base => b = c

CallsInv ==
    /\ op \in [Threads -> Calls]
    /\ \A t \in Threads : CallIsRight(op[t], entries, blocks)
    /\ \A t, u \in Threads : t # u => CallsAreApart(op[t], op[u])

Holds(m, base, size) == \A i \in 1 .. size : m[base + i - 1] = i

MemoryInv ==
    /\ memory \in [Addresses -> Nat]
    /\ \A b \in blocks : Holds(memory, b.base, b.size)
    /\ \A t \in Threads :
          op[t].step = "free" => Holds(memory, op[t].new.base, op[t].old.size)

CountInv ==
    /\ cur_used \in Nat /\ max_used \in Nat
    /\ Cardinality(Taken) <= cur_used

IInv == EntriesInv /\ BlocksInv /\ CallsInv /\ MemoryInv /\ CountInv

StructInv == EntriesInv /\ BlocksInv /\ CallsInv

-----------------------------------------------------------------------------
(* The entries of other blocks when one entry is worked on.                *)
Keeps(E, G, base) == \A e \in E : ~e.free /\ e.base # base => e \in G

LEMMA OthersFit ==
    ASSUME NEW E, NEW G, NEW base, Keeps(E, G, base), NEW b, b.base # base
    PROVE  /\ Fits(E, b) => Fits(G, b)
           /\ IsNew(E, b) => IsNew(G, b)
           /\ \A n : Outgrown(E, b, n) => Outgrown(G, b, n)
BY DEF Keeps, Fits, IsNew, Outgrown, IsEntryOf

LEMMA SameBaseSameEntry ==
    ASSUME NEW E, Tiles(E), NEW e \in E, NEW f \in E, e.base = f.base
    PROVE  e = f
BY EntryType DEF Tiles, Apart

(* No block begins in free memory.                                         *)
LEMMA BaseNotFree ==
    ASSUME NEW E, Tiles(E), NEW f \in E, f.free, NEW b, Fits(E, b) \/ IsNew(E, b)
    PROVE  b.base \in Nat /\ (b.base < f.base \/ End(f) <= b.base)
<1>1. PICK e \in E : ~e.free /\ e.base = b.base
  BY DEF Fits, IsNew, IsEntryOf
<1>2. e # f /\ Apart(e, f)
  BY <1>1 DEF Tiles
<1>. QED
  BY <1>1, <1>2, EntryType DEF Tiles, Apart

LEMMA EntryOfIs ==
    ASSUME Tiles(entries), NEW b, NEW e \in entries, IsEntryOf(e, b)
    PROVE  EntryOf(b) = e
<1>1. EntryOf(b) \in entries /\ ~EntryOf(b).free /\ EntryOf(b).base = b.base
  BY DEF EntryOf, IsEntryOf
<1>. QED
  BY <1>1, SameBaseSameEntry DEF IsEntryOf

LEMMA EntryOfBlock ==
    ASSUME Tiles(entries), NEW b, Fits(entries, b)
    PROVE  /\ EntryOf(b) \in entries /\ EntryOf(b) \in Entries
           /\ ~EntryOf(b).free /\ EntryOf(b).base = b.base
           /\ b.size <= EntryOf(b).size /\ EntryOf(b).size <= b.size + 1
<1>1. PICK e \in entries : IsEntryOf(e, b) /\ b.size <= e.size /\ e.size <= b.size + 1
  BY DEF Fits
<1>2. EntryOf(b) = e
  BY <1>1, EntryOfIs
<1>. QED
  BY <1>1, <1>2 DEF IsEntryOf, Tiles

(* What the calls do to the entries.                                       *)
LEMMA TakeEffect ==
    ASSUME EntriesInv, NEW n \in Sizes, NEW e \in Fitting(n), TakeFrom(e, n)
    PROVE  /\ EntriesInv'
           /\ Keeps(entries, entries', e.base)
           /\ [base |-> e.base, size |-> n] \in Blocks
           /\ IsNew(entries', [base |-> e.base, size |-> n])
           /\ \A b : Fits(entries, b) \/ IsNew(entries, b) => b.base # e.base
<1>1. /\ e \in entries /\ e.free /\ Rounded(n) \in Nat /\ Rounded(n) > 0
      /\ Rounded(n) <= e.size /\ e \in Entries
  <2>1. e \in entries /\ e.free /\ e.size >= Rounded(n) /\ e \in Entries
    BY DEF Fitting, EntriesInv, Tiles
  <2>2. Rounded(n) \in Nat /\ Rounded(n) > 0
    BY RoundedBounds, SizesAssumption
  <2>. QED
    BY <2>1, <2>2, EntryType
<1>2. entries' = (entries \ {e}) \union {Entry(e.base, Rounded(n), FALSE)}
                     \union Remaining(e.base + Rounded(n), e.size - Rounded(n))
  BY DEF TakeFrom
<1>3. Tiles(entries') /\ Merged(entries')
  BY <1>1, <1>2, TakeTiles DEF EntriesInv
<1>4. Keeps(entries, entries', e.base)
  BY <1>2 DEF Keeps
<1>5. [base |-> e.base, size |-> n] \in Blocks
  BY <1>1 DEF Blocks, Entries
<1>6. IsNew(entries', [base |-> e.base, size |-> n])
  <2>. DEFINE x == Entry(e.base, Rounded(n), FALSE)
  <2>1. x \in entries' /\ x.base = e.base /\ x.size = Rounded(n) /\ x.free = FALSE
    BY <1>2 DEF Entry
  <2>. HIDE DEF x
  <2>. QED
    BY <2>1 DEF IsNew, IsEntryOf
<1>7. ASSUME NEW b, Fits(entries, b) \/ IsNew(entries, b) PROVE b.base # e.base
  BY <1>1, <1>7, BaseNotFree, EntryType DEF EntriesInv
<1>. QED
  BY <1>3, <1>4, <1>5, <1>6, <1>7 DEF EntriesInv

LEMMA GiveBackEffect ==
    ASSUME EntriesInv, NEW b, Fits(entries, b), GiveBack(b)
    PROVE  EntriesInv' /\ Keeps(entries, entries', b.base)
<1>. DEFINE e == EntryOf(b)
<1>1. e \in entries /\ ~e.free /\ e.base = b.base
  BY EntryOfBlock DEF EntriesInv
<1>2. entries' = (entries \ ({e} \union Absorbed(e))) \union {Coalesced(e)}
  BY DEF GiveBack
<1>. HIDE DEF e
<1>3. Tiles(entries') /\ Merged(entries')
  BY <1>1, <1>2, CoalesceTiles DEF EntriesInv
<1>4. Keeps(entries, entries', b.base)
  BY <1>1, <1>2 DEF Keeps, Absorbed, FreeBefore, FreeAfter
<1>. QED
  BY <1>3, <1>4 DEF EntriesInv

(* A block that grows by d within the arena: the entries afterwards.       *)
LEMMA GrowDownEffect ==
    ASSUME EntriesInv, NEW b \in Blocks, Fits(entries, b),
           NEW n \in Sizes, n > b.size, Missing(b, n) > 0,
           NEW f \in Below(b, n),
           entries' = (entries \ {EntryOf(b), f})
                         \union {Entry(EntryOf(b).base - Missing(b, n), n, FALSE)}
                         \union Remaining(f.base, f.size - Missing(b, n))
    PROVE  LET e == EntryOf(b)
               d == Missing(b, n)
               c == [base |-> b.base - d, size |-> n]
           IN  /\ EntriesInv'
               /\ Keeps(entries, entries', b.base)
               /\ c \in Blocks /\ Fits(entries', c)
               /\ f \in entries /\ f.free /\ f.base <= c.base /\ c.base < End(f)
               /\ d \in Nat /\ n = e.size + d /\ c.base >= 0
<1>. DEFINE e == EntryOf(b)
            d == Missing(b, n)
            c == [base |-> b.base - d, size |-> n]
            x == Entry(e.base - d, n, FALSE)
<1>1. /\ e \in entries /\ e \in Entries /\ ~e.free /\ e.base = b.base
      /\ b.size <= e.size /\ e.size <= b.size + 1
  BY EntryOfBlock DEF EntriesInv
<1>2. d = n - e.size
  BY DEF Missing
<1>3. f \in entries /\ f.free /\ End(f) = e.base /\ f.size >= d
  BY DEF Below, LargeEnough, FreeBefore
<1>4. /\ e.base \in Nat /\ e.size \in Nat /\ n \in Nat /\ b.size \in Nat
      /\ f.base \in Nat /\ f.size \in Nat /\ End(f) = f.base + f.size /\ f \in Entries
  <2>1. f \in Entries
    BY <1>3 DEF EntriesInv, Tiles
  <2>2. n \in Nat /\ b.size \in Nat
    BY SizesAssumption DEF Blocks
  <2>3. e.base \in Nat /\ e.size \in Nat /\ f.base \in Nat /\ f.size \in Nat
    BY <1>1, <2>1, EntryType
  <2>. QED
    BY <2>1, <2>2, <2>3 DEF End
<1>d. d \in Nat /\ d > 0 /\ d <= f.size
  BY <1>2, <1>3, <1>4
<1>5. c \in Blocks /\ f.base <= c.base /\ c.base < End(f) /\ c.base >= 0
  <2>0. b.base = e.base /\ End(f) = b.base /\ b.base \in Addresses
    BY <1>1, <1>3 DEF Blocks
  <2>. HIDE DEF e, d
  <2>1. b.base - d \in Nat /\ f.base <= b.base - d /\ b.base - d < End(f)
    BY <2>0, <1>4, <1>d
  <2>2. b.base - d \in Addresses
    BY <2>0, <2>1, <1>4, <1>d, SizeAssumption DEF Addresses
  <2>. QED
    BY <2>1, <2>2 DEF Blocks
<1>6. n = e.size + d
  BY <1>2, <1>4
<1>. HIDE DEF e, d
<1>7. entries' = (entries \ {e, f}) \union {Entry(e.base - d, e.size + d, FALSE)}
                    \union Remaining(f.base, f.size - d)
  BY <1>6 DEF e, d
<1>8. Tiles(entries') /\ Merged(entries')
  BY <1>1, <1>3, <1>d, <1>7, GrowDownTiles DEF EntriesInv, Entry
<1>9. Keeps(entries, entries', b.base)
  BY <1>1, <1>3, <1>7 DEF Keeps
<1>10. Fits(entries', c)
  <2>1. x \in entries' /\ x.base = c.base /\ x.size = n /\ x.free = FALSE
    BY <1>1, <1>6, <1>7 DEF Entry
  <2>2. c.size = n
    OBVIOUS
  <2>. HIDE DEF x, c
  <2>. QED
    <3>1. IsEntryOf(x, c)
      BY <2>1 DEF IsEntryOf
    <3>2. c.size <= x.size /\ x.size <= c.size + 1
      BY <1>4, <2>1, <2>2
    <3>. QED
      BY <2>1, <3>1, <3>2 DEF Fits
<1>. QED
  BY <1>3, <1>d, <1>5, <1>6, <1>8, <1>9, <1>10 DEF EntriesInv, e, d

LEMMA GrowUpEffect ==
    ASSUME EntriesInv, NEW b \in Blocks, Fits(entries, b),
           NEW n \in Sizes, n > b.size, Missing(b, n) > 0,
           NEW f \in Above(b, n),
           entries' = (entries \ {EntryOf(b), f})
                         \union {Entry(EntryOf(b).base, n, FALSE)}
                         \union Remaining(f.base + Missing(b, n), f.size - Missing(b, n))
    PROVE  LET c == [b EXCEPT !.size = n]
           IN  /\ EntriesInv'
               /\ Keeps(entries, entries', b.base)
               /\ c \in Blocks /\ c.base = b.base /\ c.size = n /\ Fits(entries', c)
<1>. DEFINE e == EntryOf(b)
            d == Missing(b, n)
            c == [b EXCEPT !.size = n]
            x == Entry(e.base, n, FALSE)
<1>1. /\ e \in entries /\ e \in Entries /\ ~e.free /\ e.base = b.base
      /\ b.size <= e.size /\ e.size <= b.size + 1
  BY EntryOfBlock DEF EntriesInv
<1>2. d = n - e.size
  BY DEF Missing
<1>3. f \in entries /\ f.free /\ f.base = End(e) /\ f.size >= d
  BY DEF Above, LargeEnough, FreeAfter
<1>4. /\ e.base \in Nat /\ e.size \in Nat /\ n \in Nat /\ b.size \in Nat
      /\ f.base \in Nat /\ f.size \in Nat /\ End(f) = f.base + f.size /\ f \in Entries
  <2>1. f \in Entries
    BY <1>3 DEF EntriesInv, Tiles
  <2>2. n \in Nat /\ b.size \in Nat
    BY SizesAssumption DEF Blocks
  <2>3. e.base \in Nat /\ e.size \in Nat /\ f.base \in Nat /\ f.size \in Nat
    BY <1>1, <2>1, EntryType
  <2>. QED
    BY <2>1, <2>2, <2>3 DEF End
<1>d. d \in Nat /\ d > 0 /\ d <= f.size
  BY <1>2, <1>3, <1>4
<1>5. c \in Blocks /\ c.base = b.base /\ c.size = n
  BY DEF Blocks
<1>6. n = e.size + d
  BY <1>2, <1>4
<1>. HIDE DEF e, d
<1>7. entries' = (entries \ {e, f}) \union {Entry(e.base, e.size + d, FALSE)}
                    \union Remaining(f.base + d, f.size - d)
  BY <1>6 DEF e, d
<1>8. Tiles(entries') /\ Merged(entries')
  BY <1>1, <1>3, <1>d, <1>7, GrowUpTiles DEF EntriesInv, Entry
<1>9. Keeps(entries, entries', b.base)
  BY <1>1, <1>3, <1>7 DEF Keeps
<1>10. Fits(entries', c)
  <2>1. x \in entries' /\ x.base = c.base /\ x.size = n /\ x.free = FALSE
    BY <1>1, <1>5, <1>6, <1>7 DEF Entry
  <2>. HIDE DEF x, c
  <2>. QED
    <3>1. IsEntryOf(x, c)
      BY <1>5, <2>1 DEF IsEntryOf
    <3>2. c.size <= x.size /\ x.size <= c.size + 1
      BY <1>4, <1>5, <2>1
    <3>. QED
      BY <2>1, <3>1, <3>2 DEF Fits
<1>. QED
  BY <1>5, <1>8, <1>9, <1>10 DEF EntriesInv

-----------------------------------------------------------------------------
(* What a step does to the calls and blocks of the others.                 *)
LEMMA CallStaysRight ==
    ASSUME NEW r, NEW E, NEW B, CallIsRight(r, E, B), NEW F, NEW C,
           NEW base, Keeps(E, F, base),
           MakesBlock(r) => r.new.base # base /\ \A b \in C \ B : b.base # r.new.base,
           MovesBlock(r) => r.old.base # base /\ r.old \in C
    PROVE  CallIsRight(r, F, C)
<1>1. MakesBlock(r) => /\ r.new \in Blocks /\ IsNew(F, r.new)
                       /\ \A b \in C : b.base # r.new.base
  BY OthersFit DEF CallIsRight
<1>2. MovesBlock(r) => /\ r.old \in C /\ r.new.size \in Sizes
                       /\ Outgrown(F, r.old, r.new.size)
  BY OthersFit DEF CallIsRight
<1>. QED
  BY <1>1, <1>2 DEF CallIsRight

(* One thread's call changes.                                              *)
LEMMA OneCallChanges ==
    ASSUME op \in [Threads -> Calls], NEW t \in Threads, NEW r \in Calls,
           op' = [op EXCEPT ![t] = r],
           CallIsRight(r, entries', blocks'),
           \A u \in Threads \ {t} : /\ CallIsRight(op[u], entries', blocks')
                                    /\ CallsAreApart(r, op[u]),
           \A u, v \in Threads : u # v => CallsAreApart(op[u], op[v])
    PROVE  CallsInv'
<1>1. /\ op' \in [Threads -> Calls] /\ op'[t] = r
      /\ \A u \in Threads \ {t} : op'[u] = op[u]
  OBVIOUS
<1>2. \A u \in Threads : CallIsRight(op'[u], entries', blocks')
  BY <1>1
<1>3. ASSUME NEW u \in Threads, NEW v \in Threads, u # v
      PROVE  CallsAreApart(op'[u], op'[v])
  <2>1. CASE u = t
    BY <1>1, <1>3, <2>1
  <2>2. CASE v = t
    BY <1>1, <1>3, <2>2 DEF CallsAreApart
  <2>3. CASE u # t /\ v # t
    BY <1>1, <1>3, <2>3
  <2>. QED
    BY <2>1, <2>2, <2>3
<1>. QED
  BY <1>1, <1>2, <1>3 DEF CallsInv

(* A block of the callers is replaced by another, or just freed.           *)
LEMMA BlockIsReplaced ==
    ASSUME BlocksInv, NEW b \in blocks, NEW base, Keeps(entries, entries', base),
           \A d \in blocks \ {b} : d.base # base,
           NEW c \in Blocks, Fits(entries', c), \A d \in blocks \ {b} : d.base # c.base,
           Becomes(b, c)
    PROVE  BlocksInv'
<1>1. blocks' = (blocks \ {b}) \union {c}
  BY DEF Becomes
<1>2. \A d \in blocks \ {b} : Fits(entries', d)
  BY OthersFit DEF BlocksInv
<1>. QED
  BY <1>1, <1>2 DEF BlocksInv

(* The blocks and calls of others while a block that no call is moving is  *)
(* worked on.                                                              *)
LEMMA OthersAreElsewhere ==
    ASSUME StructInv, NEW b \in blocks \ Moving
    PROVE  /\ \A d \in blocks \ {b} : d.base # b.base
           /\ \A u \in Threads : MakesBlock(op[u]) => op[u].new.base # b.base
           /\ \A u \in Threads : MovesBlock(op[u]) =>
                  op[u].old \in blocks \ {b} /\ op[u].old.base # b.base
<1>1. \A d \in blocks \ {b} : d.base # b.base
  BY DEF StructInv, BlocksInv
<1>2. \A u \in Threads : CallIsRight(op[u], entries, blocks) /\ op[u].old # b
  BY DEF StructInv, CallsInv, Moving
<1>. QED
  BY <1>1, <1>2 DEF CallIsRight

LEMMA ResizedInPlace ==
    ASSUME StructInv, NEW b \in blocks \ Moving, Keeps(entries, entries', b.base),
           EntriesInv', NEW c \in Blocks, Fits(entries', c),
           \A d \in blocks \ {b} : d.base # c.base,
           \A u \in Threads : MakesBlock(op[u]) => op[u].new.base # c.base,
           Becomes(b, c), UNCHANGED op
    PROVE  StructInv'
<1>1. BlocksInv'
  BY OthersAreElsewhere, BlockIsReplaced DEF StructInv
<1>2. blocks' = (blocks \ {b}) \union {c}
  BY DEF Becomes
<1>3. ASSUME NEW u \in Threads PROVE CallIsRight(op[u], entries', blocks')
  <2>1. CallIsRight(op[u], entries, blocks)
    BY DEF StructInv, CallsInv
  <2>2. MakesBlock(op[u]) => /\ op[u].new.base # b.base
                             /\ \A d \in blocks' \ blocks : d.base # op[u].new.base
    BY <1>2, OthersAreElsewhere
  <2>3. MovesBlock(op[u]) => op[u].old.base # b.base /\ op[u].old \in blocks'
    BY <1>2, OthersAreElsewhere
  <2>. QED
    BY <2>1, <2>2, <2>3, CallStaysRight
<1>4. CallsInv'
  BY <1>3 DEF StructInv, CallsInv
<1>. QED
  BY <1>1, <1>4 DEF StructInv

-----------------------------------------------------------------------------
(* A step that makes the call r, works on the entry at base and leaves the *)
(* blocks C of B does not disturb another call.                            *)
Undisturbed(call, r, base, B, C) ==
    /\ MakesBlock(call) => call.new.base # base /\ \A b \in C \ B : b.base # call.new.base
    /\ MovesBlock(call) => call.old.base # base /\ call.old \in C
    /\ CallsAreApart(r, call)

(* The steps keep every block in an entry of its own.                      *)
LEMMA NewCall ==
    ASSUME NEW t \in Threads, NEW r \in Calls, StructInv, op' = [op EXCEPT ![t] = r],
           CallIsRight(r, entries', blocks'), EntriesInv', BlocksInv',
           NEW base, Keeps(entries, entries', base),
           \A u \in Threads \ {t} : Undisturbed(op[u], r, base, blocks, blocks')
    PROVE  StructInv'
<1>1. ASSUME NEW u \in Threads \ {t}
      PROVE  CallIsRight(op[u], entries', blocks') /\ CallsAreApart(r, op[u])
  BY CallStaysRight DEF StructInv, CallsInv, Undisturbed
<1>2. CallsInv'
  BY <1>1, OneCallChanges DEF StructInv, CallsInv
<1>. QED
  BY <1>2 DEF StructInv

LEMMA CallUpdate ==
    ASSUME NEW r \in Calls, NEW step, NEW new
    PROVE  [r EXCEPT !.step = step, !.new = new] = [step |-> step, new |-> new, old |-> r.old]
<1>1. PICK a, b, c : r = [step |-> a, new |-> b, old |-> c]
  BY DEF Calls
<1>2. r.old = c
  BY <1>1
<1>3. [[step |-> a, new |-> b, old |-> c] EXCEPT !.step = step]
         = [step |-> step, new |-> b, old |-> c]
  OBVIOUS
<1>4. [[step |-> step, new |-> b, old |-> c] EXCEPT !.new = new]
         = [step |-> step, new |-> new, old |-> c]
  OBVIOUS
<1>. QED
  BY <1>1, <1>2, <1>3, <1>4

LEMMA CallType ==
    ASSUME NEW r \in Calls
    PROVE  /\ r = [step |-> r.step, new |-> r.new, old |-> r.old]
           /\ r.new = [base |-> r.new.base, size |-> r.new.size]
BY DEF Calls, Blocks, Nothing

(* tlm_malloc has cut a block off, called alone or by tlm_realloc.         *)
Makes(t, n, e, r) ==
    /\ TakeFrom(e, n) /\ UNCHANGED blocks
    /\ r \in Calls /\ op' = [op EXCEPT ![t] = r]
    /\ r.new = [base |-> e.base, size |-> n]
    /\ \/ r.step = "clear"
       \/ /\ r.step = "copy" /\ op[t].step = "move"
          /\ r.old = op[t].old /\ op[t].new.size = n

LEMMA BlockIsMade ==
    ASSUME StructInv, NEW t \in Threads, NEW n \in Sizes, NEW e \in Fitting(n),
           NEW r, Makes(t, n, e, r)
    PROVE  StructInv'
<1>. USE DEF Makes
<1>1. /\ EntriesInv'
      /\ Keeps(entries, entries', e.base)
      /\ r.new \in Blocks /\ r.new.base = e.base /\ r.new.size = n
      /\ IsNew(entries', r.new)
      /\ \A b : Fits(entries, b) \/ IsNew(entries, b) => b.base # e.base
  BY TakeEffect DEF StructInv
<1>2. /\ \A b \in blocks : b.base # e.base
      /\ BlocksInv'
  BY <1>1, OthersFit DEF StructInv, BlocksInv
<1>3. ASSUME NEW u \in Threads
      PROVE  /\ MakesBlock(op[u]) => op[u].new.base # e.base
             /\ MovesBlock(op[u]) => op[u].old.base # e.base /\ op[u].old \in blocks'
  BY <1>1, <1>2 DEF StructInv, CallsInv, CallIsRight
<1>4. CallIsRight(r, entries', blocks')
  <2>1. CASE r.step = "clear"
    BY <1>1, <1>2, <2>1 DEF CallIsRight, MovesBlock
  <2>2. CASE r.step # "clear"
    <3>1. /\ r.step = "copy" /\ op[t].step = "move"
          /\ r.old = op[t].old /\ op[t].new.size = n
      BY <2>2
    <3>2. CallIsRight(op[t], entries, blocks) /\ MovesBlock(op[t])
      BY <3>1 DEF StructInv, CallsInv, MovesBlock
    <3>3. r.old \in blocks' /\ r.new.size \in Sizes /\ Outgrown(entries', r.old, r.new.size)
      BY <1>1, <1>2, <3>1, <3>2, OthersFit DEF CallIsRight
    <3>. QED
      BY <1>1, <1>2, <3>1, <3>3 DEF CallIsRight
  <2>. QED
    BY <2>1, <2>2
<1>5. ASSUME NEW u \in Threads \ {t} PROVE CallsAreApart(r, op[u])
  <2>1. CallsAreApart(op[t], op[u])
    BY DEF StructInv, CallsInv
  <2>2. MakesBlock(op[u]) => op[u].new.base # r.new.base
    BY <1>1, <1>3
  <2>. QED
    BY <2>1, <2>2 DEF CallsAreApart, MovesBlock
<1>6. ASSUME NEW u \in Threads \ {t}
      PROVE  Undisturbed(op[u], r, e.base, blocks, blocks')
  BY <1>3, <1>5 DEF Undisturbed
<1>. QED
  BY <1>1, <1>2, <1>4, <1>6, NewCall

LEMMA MallocStruct ==
    ASSUME StructInv, NEW t \in Threads, NEW n \in Sizes, Malloc(t, n)
    PROVE  StructInv'
<1>1. PICK e \in Fitting(n) :
         /\ TakeFrom(e, n)
         /\ op' = [op EXCEPT ![t] = [Idle EXCEPT !.step = "clear",
                                                 !.new = [base |-> e.base, size |-> n]]]
  BY DEF Malloc
<1>. DEFINE r == [Idle EXCEPT !.step = "clear", !.new = [base |-> e.base, size |-> n]]
<1>2. r.step = "clear" /\ r.new = [base |-> e.base, size |-> n]
  BY DEF Idle
<1>3. r \in Calls
  <2>1. [base |-> e.base, size |-> n] \in Blocks
    BY <1>1, TakeEffect DEF StructInv
  <2>. QED
    BY <2>1 DEF Calls, Idle
<1>. HIDE DEF r
<1>4. op' = [op EXCEPT ![t] = r] /\ UNCHANGED blocks
  BY <1>1 DEF Malloc, r
<1>. QED
  BY <1>1, <1>2, <1>3, <1>4, BlockIsMade DEF Makes

LEMMA MoveMallocStruct ==
    ASSUME StructInv, NEW t \in Threads, MoveMalloc(t)
    PROVE  StructInv'
<1>. DEFINE n == op[t].new.size
<1>0. /\ op \in [Threads -> Calls] /\ op[t] \in Calls
      /\ op[t].step = "move" /\ n \in Sizes
  BY DEF StructInv, CallsInv, CallIsRight, MovesBlock, MoveMalloc
<1>1. PICK e \in Fitting(n) :
         /\ TakeFrom(e, n)
         /\ op' = [op EXCEPT ![t].step = "copy", ![t].new.base = e.base]
  BY DEF MoveMalloc
<1>. DEFINE r == [step |-> "copy", new |-> [base |-> e.base, size |-> n],
                  old |-> op[t].old]
<1>2. /\ r.step = "copy" /\ r.old = op[t].old
      /\ r.new = [base |-> e.base, size |-> n]
  OBVIOUS
<1>3. r \in Calls
  <2>1. [base |-> e.base, size |-> n] \in Blocks
    BY <1>0, <1>1, TakeEffect DEF StructInv
  <2>. QED
    BY <1>0, <2>1 DEF Calls
<1>4. op' = [op EXCEPT ![t] = r]
  <2>1. /\ op[t] = [step |-> op[t].step, new |-> op[t].new, old |-> op[t].old]
        /\ op[t].new = [base |-> op[t].new.base, size |-> op[t].new.size]
    BY <1>0, CallType
  <2>2. [op[t].new EXCEPT !.base = e.base] = [base |-> e.base, size |-> n]
    BY <2>1
  <2>3. [op[t] EXCEPT !.step = "copy", !.new = [base |-> e.base, size |-> n]] = r
    BY <1>0, CallUpdate
  <2>4. op' = [op EXCEPT ![t] = [op[t] EXCEPT !.step = "copy",
                                              !.new = [op[t].new EXCEPT !.base = e.base]]]
    BY <1>0, <1>1
  <2>. QED
    BY <2>2, <2>3, <2>4
<1>5. UNCHANGED blocks
  BY DEF MoveMalloc
<1>. HIDE DEF r, n
<1>6. op[t].new.size = n
  BY DEF n
<1>. QED
  BY <1>0, <1>1, <1>2, <1>3, <1>4, <1>5, <1>6, BlockIsMade DEF Makes

(* A call that goes on or ends while the entries stay as they are.         *)
LEMMA SameEntries ==
    ASSUME StructInv, NEW t \in Threads, NEW r \in Calls, op' = [op EXCEPT ![t] = r],
           UNCHANGED entries, CallIsRight(r, entries, blocks'), BlocksInv',
           \A u \in Threads \ {t} :
              Undisturbed(op[u], r, -1, blocks, blocks')
    PROVE  StructInv'
<1>1. Keeps(entries, entries', -1)
  BY DEF Keeps
<1>2. EntriesInv'
  BY DEF StructInv, EntriesInv
<1>. QED
  BY <1>1, <1>2, NewCall

LEMMA CallsBases ==
    ASSUME StructInv, NEW u \in Threads
    PROVE  /\ MakesBlock(op[u]) => /\ op[u].new \in Blocks /\ op[u].new.base # -1
                                   /\ op[u].new.base \in Nat /\ op[u].new.size \in Nat
           /\ MovesBlock(op[u]) => /\ op[u].old \in blocks /\ op[u].old.base # -1
                                   /\ op[u].old.base \in Nat /\ op[u].old.size \in Nat
<1>1. CallIsRight(op[u], entries, blocks)
  BY DEF StructInv, CallsInv
<1>2. ASSUME NEW b \in Blocks PROVE b.base # -1 /\ b.base \in Nat /\ b.size \in Nat
  <2>1. b.base \in Addresses /\ b.size \in Sizes
    BY DEF Blocks
  <2>2. b.base \in Nat
    BY <2>1, SizeAssumption DEF Addresses
  <2>3. b.size \in Nat
    BY <2>1, SizesAssumption
  <2>4. b.base # -1
    BY <2>2
  <2>. QED
    BY <2>2, <2>3, <2>4
<1>. QED
  BY <1>1, <1>2 DEF CallIsRight, StructInv, BlocksInv

LEMMA ClearStruct ==
    ASSUME StructInv, NEW t \in Threads, Clear(t)
    PROVE  StructInv'
<1>. DEFINE new == op[t].new
<1>0. /\ op[t].step = "clear" /\ MakesBlock(op[t])
      /\ blocks' = blocks \union {new} /\ UNCHANGED entries
      /\ op' = [op EXCEPT ![t] = Idle]
  BY DEF Clear, MakesBlock
<1>1. /\ new \in Blocks /\ IsNew(entries, new)
      /\ \A b \in blocks : b.base # new.base
  BY <1>0 DEF StructInv, CallsInv, CallIsRight
<1>2. Fits(entries, new)
  BY <1>1, RoundedBounds DEF Fits, IsNew, Blocks
<1>3. BlocksInv'
  BY <1>0, <1>1, <1>2 DEF StructInv, BlocksInv
<1>4. Idle \in Calls /\ Idle.step = "idle"
  BY DEF Idle, Calls
<1>5. CallIsRight(Idle, entries, blocks') /\ ~MakesBlock(Idle) /\ ~MovesBlock(Idle)
  BY <1>4 DEF CallIsRight, MakesBlock, MovesBlock
<1>6. ASSUME NEW u \in Threads \ {t}
      PROVE  Undisturbed(op[u], Idle, -1, blocks, blocks')
  <2>1. CallsAreApart(op[t], op[u])
    BY DEF StructInv, CallsInv
  <2>2. MakesBlock(op[u]) => op[u].new.base # new.base
    BY <1>0, <2>1 DEF CallsAreApart
  <2>3. CallsAreApart(Idle, op[u])
    BY <1>5 DEF CallsAreApart
  <2>. QED
    BY <1>0, <2>2, <2>3, CallsBases DEF Undisturbed
<1>. QED
  BY <1>0, <1>3, <1>4, <1>5, <1>6, SameEntries

LEMMA FreeStruct ==
    ASSUME StructInv, NEW t \in Threads, NEW b \in blocks, Free(t, b)
    PROVE  StructInv'
<1>0. /\ b \in blocks \ Moving /\ GiveBack(b)
      /\ blocks' = blocks \ {b} /\ UNCHANGED op
  BY DEF Free
<1>1. EntriesInv' /\ Keeps(entries, entries', b.base)
  BY <1>0, GiveBackEffect DEF StructInv, BlocksInv
<1>2. /\ \A d \in blocks \ {b} : d.base # b.base
      /\ \A u \in Threads : MakesBlock(op[u]) => op[u].new.base # b.base
      /\ \A u \in Threads : MovesBlock(op[u]) =>
             op[u].old \in blocks \ {b} /\ op[u].old.base # b.base
  BY <1>0, OthersAreElsewhere
<1>3. BlocksInv'
  <2>1. \A d \in blocks' : Fits(entries', d)
    BY <1>0, <1>1, <1>2, OthersFit DEF StructInv, BlocksInv
  <2>. QED
    BY <1>0, <2>1 DEF StructInv, BlocksInv
<1>4. ASSUME NEW u \in Threads PROVE CallIsRight(op[u], entries', blocks')
  <2>1. CallIsRight(op[u], entries, blocks)
    BY DEF StructInv, CallsInv
  <2>. QED
    BY <1>0, <1>1, <1>2, <2>1, CallStaysRight
<1>5. CallsInv'
  BY <1>0, <1>4 DEF StructInv, CallsInv
<1>. QED
  BY <1>1, <1>3, <1>5 DEF StructInv

LEMMA KeepStruct ==
    ASSUME StructInv, NEW t \in Threads, NEW b \in blocks, NEW n \in Sizes, Keep(t, b, n)
    PROVE  StructInv'
<1>. DEFINE c == [b EXCEPT !.size = n]
            e == EntryOf(b)
<1>0. /\ b \in blocks \ Moving /\ n > b.size /\ Missing(b, n) = 0
      /\ Becomes(b, c) /\ UNCHANGED <<entries, op>>
  BY DEF Keep, Reallocates
<1>1. b \in Blocks /\ Fits(entries, b)
  BY DEF StructInv, BlocksInv
<1>2. c \in Blocks /\ c.base = b.base /\ c.size = n /\ n \in Nat
  BY <1>1, SizesAssumption DEF Blocks
<1>3. e \in entries /\ e \in Entries /\ IsEntryOf(e, b)
  BY <1>1, EntryOfBlock DEF StructInv, EntriesInv, IsEntryOf
<1>4. e.size = n
  <2>1. n - e.size = 0
    BY <1>0 DEF Missing
  <2>2. e.size \in Nat
    BY <1>3, EntryType
  <2>. QED
    BY <1>2, <2>1, <2>2
<1>. HIDE DEF c, e
<1>5. Fits(entries, c)
  <2>1. IsEntryOf(e, c)
    BY <1>2, <1>3 DEF IsEntryOf
  <2>2. c.size <= e.size /\ e.size <= c.size + 1
    BY <1>2, <1>4
  <2>. QED
    BY <1>3, <2>1, <2>2 DEF Fits
<1>6. Keeps(entries, entries', b.base) /\ EntriesInv'
  BY <1>0 DEF Keeps, StructInv, EntriesInv
<1>7. /\ \A d \in blocks \ {b} : d.base # c.base
      /\ \A u \in Threads : MakesBlock(op[u]) => op[u].new.base # c.base
  BY <1>0, <1>2, OthersAreElsewhere
<1>. QED
  BY <1>0, <1>2, <1>5, <1>6, <1>7, ResizedInPlace

LEMMA GrowDownBase ==
    ASSUME EntriesInv, NEW c \in Blocks, NEW f \in entries, f.free,
           f.base <= c.base, c.base < End(f),
           NEW d, Fits(entries, d) \/ IsNew(entries, d)
    PROVE  d.base # c.base
<1>1. f \in Entries /\ c.base \in Nat
  <2>1. c.base \in Addresses
    BY DEF Blocks
  <2>. QED
    BY <2>1, SizeAssumption DEF EntriesInv, Tiles, Addresses
<1>2. d.base \in Nat /\ (d.base < f.base \/ End(f) <= d.base)
  BY BaseNotFree DEF EntriesInv
<1>3. f.base \in Nat /\ End(f) \in Nat
  BY <1>1, EntryType
<1>. QED
  BY <1>1, <1>2, <1>3

LEMMA GrowDownStruct ==
    ASSUME StructInv, NEW t \in Threads, NEW b \in blocks, NEW n \in Sizes,
           GrowDown(t, b, n)
    PROVE  StructInv'
<1>. DEFINE c == [base |-> b.base - Missing(b, n), size |-> n]
<1>0. b \in blocks \ Moving /\ n > b.size /\ Missing(b, n) > 0 /\ UNCHANGED op
  BY DEF GrowDown, Reallocates
<1>1. b \in Blocks /\ Fits(entries, b)
  BY DEF StructInv, BlocksInv
<1>2. PICK f \in Below(b, n) :
         /\ entries' = (entries \ {EntryOf(b), f})
                          \union {Entry(EntryOf(b).base - Missing(b, n), n, FALSE)}
                          \union Remaining(f.base, f.size - Missing(b, n))
         /\ Becomes(b, c)
  BY DEF GrowDown
<1>3. /\ EntriesInv'
      /\ Keeps(entries, entries', b.base)
      /\ c \in Blocks /\ Fits(entries', c)
      /\ f \in entries /\ f.free /\ f.base <= c.base /\ c.base < End(f)
  BY <1>0, <1>1, <1>2, GrowDownEffect DEF StructInv
<1>. HIDE DEF c
<1>5. \A d : Fits(entries, d) \/ IsNew(entries, d) => d.base # c.base
  BY <1>3, GrowDownBase DEF StructInv
<1>6. /\ \A d \in blocks \ {b} : d.base # c.base
      /\ \A u \in Threads : MakesBlock(op[u]) => op[u].new.base # c.base
  BY <1>5 DEF StructInv, BlocksInv, CallsInv, CallIsRight
<1>. QED
  BY <1>0, <1>2, <1>3, <1>6, ResizedInPlace

LEMMA GrowUpStruct ==
    ASSUME StructInv, NEW t \in Threads, NEW b \in blocks, NEW n \in Sizes,
           GrowUp(t, b, n)
    PROVE  StructInv'
<1>. DEFINE c == [b EXCEPT !.size = n]
<1>0. /\ b \in blocks \ Moving /\ n > b.size /\ Missing(b, n) > 0
      /\ Becomes(b, c) /\ UNCHANGED op
  BY DEF GrowUp, Reallocates
<1>1. b \in Blocks /\ Fits(entries, b)
  BY DEF StructInv, BlocksInv
<1>2. PICK f \in Above(b, n) :
         entries' = (entries \ {EntryOf(b), f})
                       \union {Entry(EntryOf(b).base, n, FALSE)}
                       \union Remaining(f.base + Missing(b, n), f.size - Missing(b, n))
  BY DEF GrowUp
<1>3. /\ EntriesInv'
      /\ Keeps(entries, entries', b.base)
      /\ c \in Blocks /\ c.base = b.base /\ Fits(entries', c)
  BY <1>0, <1>1, <1>2, GrowUpEffect DEF StructInv
<1>. HIDE DEF c
<1>4. /\ \A d \in blocks \ {b} : d.base # c.base
      /\ \A u \in Threads : MakesBlock(op[u]) => op[u].new.base # c.base
  BY <1>0, <1>3, OthersAreElsewhere
<1>. QED
  BY <1>0, <1>3, <1>4, ResizedInPlace

LEMMA StartMoveStruct ==
    ASSUME StructInv, NEW t \in Threads, NEW b \in blocks, NEW n \in Sizes,
           StartMove(t, b, n)
    PROVE  StructInv'
<1>. DEFINE r == [step |-> "move", new |-> [base |-> -1, size |-> n], old |-> b]
<1>0. /\ b \in blocks \ Moving /\ Missing(b, n) > 0
      /\ op' = [op EXCEPT ![t] = r] /\ UNCHANGED <<entries, blocks>>
  BY DEF StartMove, Reallocates
<1>1. b \in Blocks /\ Fits(entries, b)
  BY DEF StructInv, BlocksInv
<1>2. r \in Calls
  BY <1>1 DEF Calls
<1>3. r.step = "move" /\ r.new.size = n /\ r.old = b
  OBVIOUS
<1>4. Outgrown(entries, b, n)
  <2>. DEFINE e == EntryOf(b)
  <2>1. e \in entries /\ e \in Entries /\ IsEntryOf(e, b)
    BY <1>1, EntryOfBlock DEF StructInv, EntriesInv, IsEntryOf
  <2>2. e.size < n
    BY <1>0, <2>1, EntryType, SizesAssumption DEF Missing
  <2>. HIDE DEF e
  <2>. QED
    BY <2>1, <2>2 DEF Outgrown
<1>. HIDE DEF r
<1>5. CallIsRight(r, entries, blocks') /\ ~MakesBlock(r)
  BY <1>0, <1>3, <1>4 DEF CallIsRight, MakesBlock
<1>6. ASSUME NEW u \in Threads \ {t} PROVE Undisturbed(op[u], r, -1, blocks, blocks')
  <2>1. MovesBlock(op[u]) => op[u].old # b
    BY <1>0, OthersAreElsewhere
  <2>2. CallsAreApart(r, op[u])
    BY <1>3, <1>5, <2>1 DEF CallsAreApart
  <2>. QED
    BY <1>0, <2>2, CallsBases DEF Undisturbed
<1>7. BlocksInv'
  BY <1>0 DEF StructInv, BlocksInv
<1>. QED
  BY <1>0, <1>2, <1>5, <1>6, <1>7, SameEntries

(* A call that goes on to another step with the same blocks.               *)
LEMMA NextStep ==
    ASSUME StructInv, NEW t \in Threads, NEW step,
           UNCHANGED <<entries, blocks>>, op' = [op EXCEPT ![t].step = step],
           (step = "free" /\ op[t].step = "copy") \/ step = "crashed"
    PROVE  StructInv'
<1>. DEFINE r == [step |-> step, new |-> op[t].new, old |-> op[t].old]
<1>0. op \in [Threads -> Calls] /\ op[t] \in Calls
  BY DEF StructInv, CallsInv
<1>1. r \in Calls
  BY <1>0 DEF Calls
<1>2. op' = [op EXCEPT ![t] = r]
  <2>1. [op[t] EXCEPT !.step = step] = r
    <3>1. PICK a, b, c : op[t] = [step |-> a, new |-> b, old |-> c]
      BY <1>0 DEF Calls
    <3>2. [[step |-> a, new |-> b, old |-> c] EXCEPT !.step = step]
             = [step |-> step, new |-> b, old |-> c]
      OBVIOUS
    <3>. QED
      BY <3>1, <3>2
  <2>. QED
    BY <1>0, <2>1
<1>3. r.step = step /\ r.new = op[t].new /\ r.old = op[t].old
  OBVIOUS
<1>. HIDE DEF r
<1>4. /\ MakesBlock(r) => MakesBlock(op[t])
      /\ MovesBlock(r) => MovesBlock(op[t])
  BY <1>3 DEF MakesBlock, MovesBlock
<1>5. CallIsRight(r, entries, blocks')
  <2>1. CallIsRight(op[t], entries, blocks)
    BY DEF StructInv, CallsInv
  <2>. QED
    BY <1>3, <1>4, <2>1 DEF CallIsRight
<1>6. ASSUME NEW u \in Threads \ {t} PROVE Undisturbed(op[u], r, -1, blocks, blocks')
  <2>1. CallsAreApart(op[t], op[u])
    BY DEF StructInv, CallsInv
  <2>2. CallsAreApart(r, op[u])
    BY <1>3, <1>4, <2>1 DEF CallsAreApart
  <2>. QED
    BY <2>2, CallsBases DEF Undisturbed
<1>7. BlocksInv'
  BY DEF StructInv, BlocksInv
<1>. QED
  BY <1>1, <1>2, <1>5, <1>6, <1>7, SameEntries

LEMMA MoveFreeStruct ==
    ASSUME StructInv, NEW t \in Threads, MoveFree(t)
    PROVE  StructInv'
<1>. DEFINE old == op[t].old
            new == op[t].new
<1>0. /\ op[t].step = "free" /\ MakesBlock(op[t]) /\ MovesBlock(op[t])
      /\ GiveBack(old) /\ Becomes(old, new) /\ op' = [op EXCEPT ![t] = Idle]
  BY DEF MoveFree, MakesBlock, MovesBlock
<1>1. /\ new \in Blocks /\ IsNew(entries, new) /\ \A b \in blocks : b.base # new.base
      /\ old \in blocks
  BY <1>0 DEF StructInv, CallsInv, CallIsRight
<1>2. EntriesInv' /\ Keeps(entries, entries', old.base)
  BY <1>0, <1>1, GiveBackEffect DEF StructInv, BlocksInv
<1>3. /\ \A d \in blocks \ {old} : d.base # old.base
      /\ new.base # old.base
  BY <1>1 DEF StructInv, BlocksInv
<1>4. IsNew(entries', new)
  BY <1>1, <1>2, <1>3, OthersFit
<1>5. Fits(entries', new)
  BY <1>1, <1>4, RoundedBounds DEF Fits, IsNew, Blocks
<1>6. BlocksInv' /\ blocks' = (blocks \ {old}) \union {new}
  BY <1>0, <1>1, <1>2, <1>3, <1>5, BlockIsReplaced DEF StructInv, Becomes
<1>7. Idle \in Calls /\ Idle.step = "idle"
  BY DEF Idle, Calls
<1>8. CallIsRight(Idle, entries', blocks') /\ ~MakesBlock(Idle) /\ ~MovesBlock(Idle)
  BY <1>7 DEF CallIsRight, MakesBlock, MovesBlock
<1>9. ASSUME NEW u \in Threads \ {t}
      PROVE  Undisturbed(op[u], Idle, old.base, blocks, blocks')
  <2>1. CallsAreApart(op[t], op[u]) /\ CallIsRight(op[u], entries, blocks)
    BY DEF StructInv, CallsInv
  <2>2. MakesBlock(op[u]) => op[u].new.base # new.base /\ op[u].new.base # old.base
    BY <1>0, <1>1, <2>1 DEF CallsAreApart, CallIsRight
  <2>3. MovesBlock(op[u]) => op[u].old \in blocks \ {old}
    BY <1>0, <2>1 DEF CallsAreApart, CallIsRight
  <2>4. CallsAreApart(Idle, op[u])
    BY <1>8 DEF CallsAreApart
  <2>. QED
    BY <1>3, <1>6, <2>2, <2>3, <2>4 DEF Undisturbed
<1>. QED
  BY <1>0, <1>2, <1>6, <1>7, <1>8, <1>9, NewCall

(* All steps together.                                                     *)
LEMMA StructStep ==
    ASSUME StructInv, [Next]_vars
    PROVE  StructInv'
<1>1. CASE UNCHANGED vars
  BY <1>1 DEF vars, StructInv, EntriesInv, BlocksInv, CallsInv
<1>2. ASSUME NEW t \in Threads, Step(t) PROVE StructInv'
  <2>1. ASSUME NEW n \in Sizes, Malloc(t, n) PROVE StructInv'
    BY <2>1, MallocStruct
  <2>2. ASSUME Clear(t) PROVE StructInv'
    BY <2>2, ClearStruct
  <2>3. ASSUME NEW b \in blocks, Free(t, b) PROVE StructInv'
    BY <2>3, FreeStruct
  <2>4. ASSUME NEW b \in blocks, NEW n \in Sizes,
               Keep(t, b, n) \/ GrowDown(t, b, n) \/ GrowUp(t, b, n) \/ StartMove(t, b, n)
        PROVE StructInv'
    BY <2>4, KeepStruct, GrowDownStruct, GrowUpStruct, StartMoveStruct
  <2>5. ASSUME MoveMalloc(t) PROVE StructInv'
    BY <2>5, MoveMallocStruct
  <2>6. ASSUME Copy(t) PROVE StructInv'
    BY <2>6, NextStep DEF Copy
  <2>7. ASSUME MoveFree(t) PROVE StructInv'
    BY <2>7, MoveFreeStruct
  <2>8. ASSUME Crash(t) PROVE StructInv'
    BY <2>8, NextStep DEF Crash
  <2>. QED
    BY <1>2, <2>1, <2>2, <2>3, <2>4, <2>5, <2>6, <2>7, <2>8 DEF Step
<1>. QED
  BY <1>1, <1>2 DEF Next

-----------------------------------------------------------------------------
(* The contents of blocks.  A step writes only within one entry.           *)
SameOutside(m, m2, x) == \A y \in Addresses : y < x.base \/ End(x) <= y => m2[y] = m[y]

LEMMA BlockType ==
    ASSUME NEW b \in Blocks
    PROVE  b.base \in Nat /\ b.size \in Nat /\ b.size > 0 /\ b.size \in Sizes
<1>1. b.base \in Addresses /\ b.size \in Sizes
  BY DEF Blocks
<1>2. b.base \in Nat
  BY <1>1, SizeAssumption DEF Addresses
<1>3. \A n \in Sizes : n \in Nat /\ n > 0
  BY SizesAssumption
<1>. QED
  BY <1>1, <1>2, <1>3

LEMMA BlockInEntry ==
    ASSUME NEW E, Tiles(E), NEW b \in Blocks, Fits(E, b) \/ IsNew(E, b)
    PROVE  \E e \in E : /\ e.base = b.base /\ b.base + b.size <= End(e) /\ End(e) <= Size
                        /\ IsEntryOf(e, b)
<1>1. b.base \in Nat /\ b.size \in Nat /\ b.size <= Rounded(b.size) /\ Rounded(b.size) \in Nat
  BY BlockType, RoundedBounds
<1>2. PICK e \in E : IsEntryOf(e, b) /\ (b.size <= e.size \/ e.size = Rounded(b.size))
  BY DEF Fits, IsNew
<1>3. e.size \in Nat /\ e.base = b.base /\ End(e) <= Size
  BY <1>2, EntryType DEF IsEntryOf, Tiles
<1>4. b.size <= e.size
  BY <1>1, <1>2
<1>5. b.base + b.size <= End(e)
  BY <1>1, <1>3, <1>4 DEF End
<1>. QED
  BY <1>2, <1>3, <1>5

LEMMA HoldsElsewhere ==
    ASSUME NEW E, Tiles(E), NEW x \in E, NEW m, NEW m2, SameOutside(m, m2, x),
           NEW b \in Blocks, Fits(E, b) \/ IsNew(E, b), b.base # x.base,
           NEW k \in Nat, k <= b.size, Holds(m, b.base, k)
    PROVE  Holds(m2, b.base, k)
<1>1. PICK e \in E : e.base = b.base /\ b.base + b.size <= End(e) /\ End(e) <= Size
  BY BlockInEntry
<1>2. e # x /\ Apart(e, x)
  BY <1>1 DEF Tiles
<1>3. /\ e.base \in Nat /\ End(e) \in Nat /\ x.base \in Nat /\ End(x) \in Nat
      /\ b.base \in Nat /\ b.size \in Nat
  BY EntryType, BlockType DEF Tiles
<1>4. ASSUME NEW i \in 1 .. k PROVE m2[b.base + i - 1] = i
  <2>. DEFINE y == b.base + i - 1
  <2>1. y \in Addresses /\ (y < x.base \/ End(x) <= y)
    BY <1>1, <1>2, <1>3, SizeAssumption DEF Addresses, Apart
  <2>2. m2[y] = m[y] /\ m[y] = i
    BY <2>1 DEF SameOutside, Holds
  <2>. QED
    BY <2>2
<1>. QED
  BY <1>4 DEF Holds

LEMMA StoredEffect ==
    ASSUME NEW m \in [Addresses -> Nat], NEW b \in Blocks, b.base + b.size <= Size,
           NEW from \in Nat, from > 0, Holds(m, b.base, from - 1)
    PROVE  /\ Stored(m, b, from) \in [Addresses -> Nat]
           /\ Holds(Stored(m, b, from), b.base, b.size)
           /\ \A y \in Addresses : y < b.base \/ b.base + b.size <= y =>
                                      Stored(m, b, from)[y] = m[y]
<1>. DEFINE s == Stored(m, b, from)
<1>0. b.base \in Nat /\ b.size \in Nat
  BY BlockType
<1>1. ASSUME NEW y \in Addresses PROVE y \in Nat /\ y < Size
  BY SizeAssumption DEF Addresses
<1>2. \A y \in Addresses : s[y] = IF y \in b.base + from - 1 .. b.base + b.size - 1
                                    THEN y - b.base + 1 ELSE m[y]
  BY DEF Stored
<1>3. ASSUME NEW y \in Addresses
      PROVE  (IF y \in b.base + from - 1 .. b.base + b.size - 1
                 THEN y - b.base + 1 ELSE m[y]) \in Nat
  BY <1>0, <1>1
<1>4. s \in [Addresses -> Nat]
  BY <1>3 DEF Stored
<1>. HIDE DEF s
<1>5. ASSUME NEW i \in 1 .. b.size PROVE s[b.base + i - 1] = i
  <2>. DEFINE y == b.base + i - 1
  <2>1. y \in Addresses
    BY <1>0, SizeAssumption DEF Addresses
  <2>2. i = y - b.base + 1
    BY <1>0
  <2>3. m[y] = i \/ i >= from
    BY DEF Holds
  <2>4. i >= from <=> y \in b.base + from - 1 .. b.base + b.size - 1
    BY <1>0
  <2>. HIDE DEF y
  <2>5. s[y] = i
    BY <1>2, <2>1, <2>2, <2>3, <2>4
  <2>. QED
    BY <2>5 DEF y
<1>6. ASSUME NEW y \in Addresses, y < b.base \/ b.base + b.size <= y
      PROVE  s[y] = m[y]
  <2>1. y \notin b.base + from - 1 .. b.base + b.size - 1
    BY <1>0, <1>1, <1>6
  <2>. QED
    BY <1>2, <2>1
<1>. QED
  BY <1>4, <1>5, <1>6 DEF Holds, s

(* A call that moves a block moves it to a larger one.                     *)
LEMMA OldIsSmaller ==
    ASSUME NEW E, Tiles(E), NEW B \in SUBSET Blocks, \A b \in B : Fits(E, b),
           NEW r, CallIsRight(r, E, B), MovesBlock(r)
    PROVE  /\ r.old.size \in Nat /\ r.new.size \in Nat /\ r.old.size < r.new.size
           /\ \A e \in E : IsEntryOf(e, r.old) => e.size < r.new.size
<1>1. /\ r.old \in B /\ r.new.size \in Nat
      /\ Outgrown(E, r.old, r.new.size) /\ Fits(E, r.old)
  BY SizesAssumption DEF CallIsRight
<1>2. PICK e \in E : IsEntryOf(e, r.old) /\ e.size < r.new.size
  BY <1>1 DEF Outgrown
<1>3. PICK f \in E : IsEntryOf(f, r.old) /\ r.old.size <= f.size
  BY <1>1 DEF Fits
<1>4. \A g \in E : IsEntryOf(g, r.old) => g = e
  BY <1>2, SameBaseSameEntry DEF IsEntryOf
<1>5. f = e /\ e.size \in Nat
  BY <1>3, <1>4, EntryType DEF Tiles
<1>6. r.old.size \in Nat
  BY <1>1, BlockType
<1>7. r.old.size < r.new.size
  BY <1>1, <1>2, <1>3, <1>5, <1>6
<1>. QED
  BY <1>1, <1>2, <1>4, <1>6, <1>7

(* The block c is made or resized, and written to.                         *)
LEMMA OneBlockIsWritten ==
    ASSUME StructInv', MemoryInv, memory' \in [Addresses -> Nat],
           NEW c \in blocks', Holds(memory', c.base, c.size),
           \A d \in blocks' \ {c} : d \in blocks,
           \A u \in Threads : op'[u].step = "free" => op'[u] = op[u],
           NEW x \in entries', x.base = c.base, SameOutside(memory, memory', x)
    PROVE  MemoryInv'
<1>0. /\ Tiles(entries') /\ blocks' \subseteq Blocks
      /\ \A d \in blocks' : Fits(entries', d)
      /\ \A d \in blocks' \ {c} : d.base # c.base
      /\ \A u \in Threads : CallIsRight(op'[u], entries', blocks')
  BY DEF StructInv, EntriesInv, BlocksInv, CallsInv
<1>1. ASSUME NEW d \in blocks' PROVE Holds(memory', d.base, d.size)
  <2>1. CASE d = c
    BY <2>1
  <2>2. CASE d # c
    <3>1. Holds(memory, d.base, d.size) /\ d.base # x.base
      BY <1>0, <2>2 DEF MemoryInv
    <3>2. d \in Blocks /\ d.size \in Nat /\ d.size <= d.size
      BY <1>0, BlockType
    <3>. QED
      BY <1>0, <3>1, <3>2, HoldsElsewhere
  <2>. QED
    BY <2>1, <2>2
<1>2. ASSUME NEW u \in Threads, op'[u].step = "free"
      PROVE  Holds(memory', op'[u].new.base, op'[u].old.size)
  <2>. DEFINE r == op'[u]
  <2>1. MakesBlock(r) /\ MovesBlock(r) /\ CallIsRight(r, entries', blocks')
    BY <1>0, <1>2 DEF MakesBlock, MovesBlock
  <2>2. /\ r.new \in Blocks /\ IsNew(entries', r.new) /\ r.new.base # x.base
    BY <2>1 DEF CallIsRight
  <2>3. r.old.size \in Nat /\ r.old.size <= r.new.size
    BY <1>0, <2>1, OldIsSmaller
  <2>4. Holds(memory, r.new.base, r.old.size)
    BY <1>2 DEF MemoryInv
  <2>. QED
    BY <1>0, <2>2, <2>3, <2>4, HoldsElsewhere
<1>. QED
  BY <1>1, <1>2 DEF MemoryInv

LEMMA NothingIsWritten ==
    ASSUME MemoryInv, UNCHANGED memory, blocks' \subseteq blocks,
           \A u \in Threads : op'[u].step = "free" => op'[u] = op[u]
    PROVE  MemoryInv'
BY DEF MemoryInv, Holds

LEMMA ClearMemory ==
    ASSUME StructInv, StructInv', MemoryInv, NEW t \in Threads, Clear(t)
    PROVE  MemoryInv'
<1>. DEFINE new == op[t].new
            m == ClearedMemory(new)
<1>0. /\ op[t].step = "clear" /\ MakesBlock(op[t]) /\ op \in [Threads -> Calls]
      /\ blocks' = blocks \union {new} /\ entries' = entries
      /\ op' = [op EXCEPT ![t] = Idle]
      /\ memory' = Stored(m, new, 1)
  BY DEF Clear, MakesBlock, StructInv, CallsInv
<1>1. /\ new \in Blocks /\ IsNew(entries, new)
  BY <1>0 DEF StructInv, CallsInv, CallIsRight
<1>2. /\ Rounded(new.size) \in Nat /\ new.size <= Rounded(new.size)
      /\ new.size \in Nat /\ new.base \in Nat
  BY <1>1, BlockType, RoundedBounds
<1>3. PICK x \in entries : IsEntryOf(x, new) /\ x.size = Rounded(new.size)
  BY <1>1 DEF IsNew
<1>4. x.base = new.base /\ End(x) = new.base + Rounded(new.size) /\ End(x) <= Size
  BY <1>3 DEF IsEntryOf, End, StructInv, EntriesInv, Tiles
<1>5. m \in [Addresses -> Nat] /\ SameOutside(memory, m, x)
  <2>1. \A y \in Addresses : m[y] = IF y \in new.base .. new.base + Rounded(new.size) - 1
                                       THEN 0 ELSE memory[y]
    BY DEF ClearedMemory
  <2>2. m \in [Addresses -> Nat]
    BY DEF ClearedMemory, MemoryInv
  <2>3. ASSUME NEW y \in Addresses, y < x.base \/ End(x) <= y PROVE m[y] = memory[y]
    <3>1. y \in Nat
      BY SizeAssumption DEF Addresses
    <3>2. y \notin new.base .. new.base + Rounded(new.size) - 1
      BY <1>2, <1>4, <2>3, <3>1
    <3>. QED
      BY <2>1, <3>2
  <2>. QED
    BY <2>2, <2>3 DEF SameOutside
<1>. HIDE DEF new, m
<1>6. new.base + new.size <= Size /\ new.base + new.size <= End(x)
  BY <1>2, <1>4, SizeAssumption
<1>7. /\ memory' \in [Addresses -> Nat]
      /\ Holds(memory', new.base, new.size)
      /\ \A y \in Addresses : y < new.base \/ new.base + new.size <= y => memory'[y] = m[y]
  <2>1. Holds(m, new.base, 1 - 1)
    BY DEF Holds
  <2>. QED
    BY <1>0, <1>1, <1>5, <1>6, <2>1, StoredEffect
<1>8. SameOutside(memory, memory', x)
  <2>1. ASSUME NEW y \in Addresses, y < x.base \/ End(x) <= y PROVE memory'[y] = memory[y]
    <3>1. y \in Nat /\ End(x) \in Nat
      BY <1>2, <1>4, SizeAssumption DEF Addresses
    <3>2. y < new.base \/ new.base + new.size <= y
      BY <1>2, <1>4, <1>6, <2>1, <3>1
    <3>. QED
      BY <1>5, <1>7, <2>1, <3>2 DEF SameOutside
  <2>. QED
    BY <2>1 DEF SameOutside
<1>9. \A u \in Threads : op'[u].step = "free" => op'[u] = op[u]
  BY <1>0 DEF Idle
<1>. QED
  BY <1>0, <1>3, <1>4, <1>7, <1>8, <1>9, OneBlockIsWritten

(* A block keeps its contents when it is resized or moved: they are at its *)
(* new place in m, and the caller fills the rest.                          *)
LEMMA ResizedMemory ==
    ASSUME StructInv', MemoryInv, NEW b \in Blocks, NEW c \in Blocks,
           Becomes(b, c), NEW m \in [Addresses -> Nat], Filled(m, b, c),
           Holds(m, c.base, b.size),
           \A y \in Addresses : y < c.base \/ c.base + c.size <= y => m[y] = memory[y],
           \A u \in Threads : op'[u].step = "free" => op'[u] = op[u]
    PROVE  MemoryInv'
<1>0. /\ c \in blocks' /\ \A d \in blocks' \ {c} : d \in blocks
      /\ memory' = Stored(m, c, b.size + 1)
  BY DEF Becomes, Filled
<1>1. /\ Fits(entries', c) /\ Tiles(entries')
  BY <1>0 DEF StructInv, EntriesInv, BlocksInv
<1>2. PICK x \in entries' : /\ x.base = c.base /\ c.base + c.size <= End(x)
                            /\ End(x) <= Size
  BY <1>1, BlockInEntry
<1>3. /\ b.size \in Nat /\ c.base \in Nat /\ c.size \in Nat
      /\ x.base \in Nat /\ End(x) \in Nat
  BY <1>1, <1>2, BlockType, EntryType DEF Tiles
<1>4. c.base + c.size <= Size
  BY <1>2, <1>3, SizeAssumption
<1>5. /\ memory' \in [Addresses -> Nat]
      /\ Holds(memory', c.base, c.size)
      /\ \A y \in Addresses : y < c.base \/ c.base + c.size <= y => memory'[y] = m[y]
  <2>. DEFINE from == b.size + 1
  <2>0. memory' = Stored(m, c, from)
    BY <1>0
  <2>n. b.size \in Nat
    BY <1>3
  <2>1. from \in Nat /\ from > 0 /\ from - 1 = b.size
    BY <2>n
  <2>. HIDE DEF from
  <2>. QED
    BY <2>0, <1>4, <2>1, StoredEffect
<1>6. SameOutside(memory, memory', x)
  <2>1. ASSUME NEW y \in Addresses, y < x.base \/ End(x) <= y PROVE memory'[y] = memory[y]
    <3>1. y \in Nat
      BY SizeAssumption DEF Addresses
    <3>2. y < c.base \/ c.base + c.size <= y
      BY <1>2, <1>3, <2>1, <3>1
    <3>. QED
      BY <1>5, <3>2
  <2>. QED
    BY <2>1 DEF SameOutside
<1>. QED
  BY <1>0, <1>2, <1>5, <1>6, OneBlockIsWritten

LEMMA ResizedInPlaceMemory ==
    ASSUME StructInv, StructInv', MemoryInv, NEW b \in blocks, NEW n \in Sizes,
           Becomes(b, [b EXCEPT !.size = n]), Filled(memory, b, [b EXCEPT !.size = n]),
           UNCHANGED op
    PROVE  MemoryInv'
<1>. DEFINE c == [b EXCEPT !.size = n]
<1>1. b \in Blocks /\ Holds(memory, b.base, b.size) /\ memory \in [Addresses -> Nat]
  BY DEF StructInv, BlocksInv, MemoryInv
<1>2. c \in Blocks /\ c.base = b.base
  BY <1>1 DEF Blocks
<1>. HIDE DEF c
<1>3. Becomes(b, c) /\ Filled(memory, b, c)
  BY DEF c
<1>4. Holds(memory, c.base, b.size)
  BY <1>1, <1>2
<1>. QED
  BY <1>1, <1>2, <1>3, <1>4, ResizedMemory

LEMMA GrowDownMemory ==
    ASSUME StructInv, StructInv', MemoryInv, NEW t \in Threads, NEW b \in blocks,
           NEW n \in Sizes, GrowDown(t, b, n)
    PROVE  MemoryInv'
<1>. DEFINE e == EntryOf(b)
            d == Missing(b, n)
            c == [base |-> b.base - d, size |-> n]
            m == MovedDown(e, d)
<1>0. /\ n > b.size /\ d > 0 /\ UNCHANGED op
      /\ b \in Blocks /\ Fits(entries, b)
      /\ Holds(memory, b.base, b.size) /\ memory \in [Addresses -> Nat]
  BY DEF GrowDown, Reallocates, StructInv, BlocksInv, MemoryInv
<1>1. PICK f \in Below(b, n) :
         /\ entries' = (entries \ {e, f}) \union {Entry(e.base - d, n, FALSE)}
                          \union Remaining(f.base, f.size - d)
         /\ Becomes(b, c)
         /\ Filled(m, b, c)
  BY DEF GrowDown
<1>2. c \in Blocks /\ d \in Nat /\ n = e.size + d
  BY <1>0, <1>1, GrowDownEffect DEF StructInv
<1>3. /\ e \in entries /\ e \in Entries /\ e.base = b.base /\ b.size <= e.size
      /\ End(e) <= Size
  BY <1>0, EntryOfBlock DEF StructInv, EntriesInv, Tiles
<1>4. /\ b.base \in Nat /\ b.size \in Nat /\ e.size \in Nat /\ End(e) = b.base + e.size
      /\ c.base \in Nat /\ c.base = b.base - d /\ c.size = n
  <2>1. c.base \in Nat /\ c.base = b.base - d /\ c.size = n
    BY <1>2, BlockType
  <2>2. b.base \in Nat /\ b.size \in Nat /\ e.size \in Nat
    BY <1>0, <1>3, BlockType, EntryType
  <2>. QED
    BY <1>3, <2>1, <2>2 DEF End
<1>5. \A y \in Addresses : m[y] = IF y \in e.base - d .. End(e) - d - 1
                                     THEN memory[y + d] ELSE memory[y]
  BY DEF MovedDown
<1>6. m \in [Addresses -> Nat]
  <2>1. ASSUME NEW y \in Addresses, y \in e.base - d .. End(e) - d - 1
        PROVE  y + d \in Addresses
    BY <1>2, <1>3, <1>4, <2>1, SizeAssumption DEF Addresses
  <2>2. ASSUME NEW y \in Addresses
        PROVE  (IF y \in e.base - d .. End(e) - d - 1
                   THEN memory[y + d] ELSE memory[y]) \in Nat
    BY <1>0, <2>1
  <2>. QED
    BY <2>2 DEF MovedDown
<1>. HIDE DEF e, d, c, m
<1>7. Holds(m, c.base, b.size)
  <2>1. ASSUME NEW i \in 1 .. b.size PROVE m[c.base + i - 1] = i
    <3>. DEFINE y == c.base + i - 1
    <3>1. y \in Addresses /\ y \in e.base - d .. End(e) - d - 1 /\ y + d = b.base + i - 1
      BY <1>2, <1>3, <1>4, SizeAssumption DEF Addresses
    <3>2. m[y] = memory[y + d]
      BY <1>5, <3>1
    <3>3. memory[b.base + i - 1] = i
      BY <1>0 DEF Holds
    <3>. QED
      BY <3>1, <3>2, <3>3
  <2>. QED
    BY <2>1 DEF Holds
<1>8. ASSUME NEW y \in Addresses, y < c.base \/ c.base + c.size <= y
      PROVE  m[y] = memory[y]
  <2>1. y \in Nat
    BY SizeAssumption DEF Addresses
  <2>2. y \notin e.base - d .. End(e) - d - 1
    BY <1>2, <1>3, <1>4, <1>8, <2>1
  <2>. QED
    BY <1>5, <2>2
<1>. QED
  BY <1>0, <1>1, <1>2, <1>6, <1>7, <1>8, ResizedMemory

LEMMA CopyMemory ==
    ASSUME StructInv, StructInv', MemoryInv, NEW t \in Threads, Copy(t)
    PROVE  MemoryInv'
<1>. DEFINE new == op[t].new
            old == op[t].old
            e == EntryOf(old)
            cleared == ClearedMemory(new)
<1>0. /\ op[t].step = "copy" /\ MakesBlock(op[t]) /\ MovesBlock(op[t])
      /\ op \in [Threads -> Calls] /\ op[t] \in Calls
      /\ op' = [op EXCEPT ![t].step = "free"]
      /\ entries' = entries /\ blocks' = blocks
      /\ memory' = [x \in Addresses |->
                      IF x \in new.base .. new.base + e.size - 1
                         THEN memory[x - new.base + e.base] ELSE cleared[x]]
      /\ memory \in [Addresses -> Nat]
  BY DEF Copy, MakesBlock, MovesBlock, StructInv, CallsInv, MemoryInv
<1>1. /\ new \in Blocks /\ IsNew(entries, new) /\ \A b \in blocks : b.base # new.base
      /\ old \in blocks /\ Fits(entries, old) /\ old \in Blocks
      /\ Tiles(entries) /\ blocks \in SUBSET Blocks /\ \A b \in blocks : Fits(entries, b)
      /\ Holds(memory, old.base, old.size)
      /\ CallIsRight(op[t], entries, blocks)
  BY <1>0 DEF StructInv, EntriesInv, BlocksInv, CallsInv, CallIsRight, MemoryInv
<1>2. /\ e \in entries /\ e \in Entries /\ e.base = old.base /\ old.size <= e.size
      /\ End(e) <= Size /\ IsEntryOf(e, old)
  BY <1>1, EntryOfBlock DEF Tiles, IsEntryOf
<1>3. /\ old.size < new.size /\ e.size < new.size
  BY <1>0, <1>1, <1>2, OldIsSmaller
<1>4. PICK x \in entries : IsEntryOf(x, new) /\ x.size = Rounded(new.size)
  BY <1>1 DEF IsNew
<1>5. /\ old.base \in Nat /\ old.size \in Nat /\ e.size \in Nat /\ e.base \in Nat
      /\ End(e) = e.base + e.size
      /\ new.base \in Nat /\ new.size \in Nat /\ Rounded(new.size) \in Nat
      /\ new.size <= Rounded(new.size)
      /\ x.base = new.base /\ End(x) = new.base + Rounded(new.size) /\ End(x) <= Size
  <2>1. /\ old.base \in Nat /\ old.size \in Nat /\ e.size \in Nat /\ e.base \in Nat
        /\ new.base \in Nat /\ new.size \in Nat /\ Rounded(new.size) \in Nat
        /\ new.size <= Rounded(new.size)
    BY <1>1, <1>2, BlockType, EntryType, RoundedBounds
  <2>2. x.base = new.base /\ End(x) = new.base + Rounded(new.size) /\ End(x) <= Size
    BY <1>1, <1>4 DEF IsEntryOf, Tiles, End
  <2>. QED
    BY <2>1, <2>2 DEF End
<1>c. /\ cleared \in [Addresses -> Nat]
      /\ \A y \in Addresses : y \notin new.base .. new.base + Rounded(new.size) - 1
                                 => cleared[y] = memory[y]
  BY <1>0 DEF ClearedMemory
<1>. HIDE DEF new, old, e, cleared
<1>6. memory' \in [Addresses -> Nat]
  <2>1. ASSUME NEW y \in Addresses, y \in new.base .. new.base + e.size - 1
        PROVE  y - new.base + e.base \in Addresses
    BY <1>2, <1>5, <2>1, SizeAssumption DEF Addresses
  <2>2. ASSUME NEW y \in Addresses
        PROVE  (IF y \in new.base .. new.base + e.size - 1
                   THEN memory[y - new.base + e.base] ELSE cleared[y]) \in Nat
    BY <1>0, <1>c, <2>1
  <2>. QED
    BY <1>0, <2>2
<1>7. SameOutside(memory, memory', x)
  <2>1. ASSUME NEW y \in Addresses, y < x.base \/ End(x) <= y PROVE memory'[y] = memory[y]
    <3>1. y \in Nat
      BY SizeAssumption DEF Addresses
    <3>2. /\ y \notin new.base .. new.base + Rounded(new.size) - 1
          /\ y \notin new.base .. new.base + e.size - 1
      BY <1>3, <1>5, <2>1, <3>1
    <3>. QED
      BY <1>0, <1>c, <3>2
  <2>. QED
    BY <2>1 DEF SameOutside
<1>8. Holds(memory', new.base, old.size)
  <2>1. ASSUME NEW i \in 1 .. old.size PROVE memory'[new.base + i - 1] = i
    <3>. DEFINE y == new.base + i - 1
    <3>1. /\ y \in Addresses /\ y \in new.base .. new.base + e.size - 1
          /\ y - new.base + e.base = old.base + i - 1
      BY <1>2, <1>3, <1>5, SizeAssumption DEF Addresses
    <3>2. memory'[y] = memory[y - new.base + e.base]
      BY <1>0, <3>1
    <3>3. memory[old.base + i - 1] = i
      BY <1>1 DEF Holds
    <3>. QED
      BY <3>1, <3>2, <3>3
  <2>. QED
    BY <2>1 DEF Holds
<1>9. ASSUME NEW d \in blocks' PROVE Holds(memory', d.base, d.size)
  <2>1. /\ d \in Blocks /\ Fits(entries, d) /\ d.base # x.base
        /\ Holds(memory, d.base, d.size)
    BY <1>0, <1>1, <1>5 DEF MemoryInv
  <2>2. d.size \in Nat /\ d.size <= d.size
    BY <2>1, BlockType
  <2>. QED
    BY <1>1, <1>7, <2>1, <2>2, HoldsElsewhere
<1>10. ASSUME NEW u \in Threads, op'[u].step = "free"
       PROVE  Holds(memory', op'[u].new.base, op'[u].old.size)
  <2>1. CASE u = t
    BY <1>0, <1>8, <2>1 DEF new, old
  <2>2. CASE u # t
    <3>1. op'[u] = op[u]
      BY <1>0, <2>2
    <3>2. /\ MakesBlock(op[u]) /\ MovesBlock(op[u])
          /\ CallIsRight(op[u], entries, blocks) /\ CallsAreApart(op[t], op[u])
      BY <1>10, <2>2, <3>1 DEF MakesBlock, MovesBlock, StructInv, CallsInv
    <3>3. /\ op[u].new \in Blocks /\ IsNew(entries, op[u].new)
          /\ op[u].new.base # x.base
      BY <1>0, <1>5, <3>2 DEF CallIsRight, CallsAreApart, new
    <3>4. op[u].old.size \in Nat /\ op[u].old.size <= op[u].new.size
      BY <1>1, <3>2, OldIsSmaller
    <3>5. Holds(memory, op[u].new.base, op[u].old.size)
      BY <1>10, <3>1 DEF MemoryInv
    <3>. QED
      BY <1>1, <1>7, <3>1, <3>3, <3>4, <3>5, HoldsElsewhere
  <2>. QED
    BY <2>1, <2>2
<1>. QED
  BY <1>6, <1>9, <1>10 DEF MemoryInv

LEMMA MoveFreeMemory ==
    ASSUME StructInv, StructInv', MemoryInv, NEW t \in Threads, MoveFree(t)
    PROVE  MemoryInv'
<1>. DEFINE old == op[t].old
            new == op[t].new
<1>0. /\ op[t].step = "free" /\ MakesBlock(op[t]) /\ MovesBlock(op[t])
      /\ op \in [Threads -> Calls] /\ op' = [op EXCEPT ![t] = Idle]
      /\ Becomes(old, new) /\ Filled(memory, old, new)
      /\ memory \in [Addresses -> Nat] /\ Holds(memory, new.base, old.size)
  BY DEF MoveFree, MakesBlock, MovesBlock, StructInv, CallsInv, MemoryInv
<1>1. new \in Blocks /\ old \in Blocks
  BY <1>0 DEF StructInv, BlocksInv, CallsInv, CallIsRight
<1>2. \A u \in Threads : op'[u].step = "free" => op'[u] = op[u]
  BY <1>0 DEF Idle
<1>. HIDE DEF old, new
<1>. QED
  BY <1>0, <1>1, <1>2, ResizedMemory

LEMMA MemoryStep ==
    ASSUME StructInv, StructInv', MemoryInv, [Next]_vars
    PROVE  MemoryInv'
<1>0. op \in [Threads -> Calls]
  BY DEF StructInv, CallsInv
<1>1. CASE UNCHANGED vars
  BY <1>1, NothingIsWritten DEF vars
<1>2. ASSUME NEW t \in Threads, Step(t) PROVE MemoryInv'
  <2>1. ASSUME NEW n \in Sizes, Malloc(t, n) PROVE MemoryInv'
    <3>1. \A u \in Threads : op'[u].step = "free" => op'[u] = op[u]
      BY <1>0, <2>1 DEF Malloc, Idle
    <3>. QED
      BY <2>1, <3>1, NothingIsWritten DEF Malloc
  <2>2. ASSUME Clear(t) PROVE MemoryInv'
    BY <2>2, ClearMemory
  <2>3. ASSUME NEW b \in blocks, Free(t, b) PROVE MemoryInv'
    BY <2>3, NothingIsWritten DEF Free
  <2>4. ASSUME NEW b \in blocks, NEW n \in Sizes,
               Keep(t, b, n) \/ GrowDown(t, b, n) \/ GrowUp(t, b, n) \/ StartMove(t, b, n)
        PROVE MemoryInv'
    <3>1. ASSUME Keep(t, b, n) PROVE MemoryInv'
      BY <3>1, ResizedInPlaceMemory DEF Keep
    <3>2. ASSUME GrowDown(t, b, n) PROVE MemoryInv'
      BY <3>2, GrowDownMemory
    <3>3. ASSUME GrowUp(t, b, n) PROVE MemoryInv'
      BY <3>3, ResizedInPlaceMemory DEF GrowUp
    <3>4. ASSUME StartMove(t, b, n) PROVE MemoryInv'
      <4>1. \A u \in Threads : op'[u].step = "free" => op'[u] = op[u]
        BY <1>0, <3>4 DEF StartMove
      <4>. QED
        BY <3>4, <4>1, NothingIsWritten DEF StartMove
    <3>. QED
      BY <2>4, <3>1, <3>2, <3>3, <3>4
  <2>5. ASSUME MoveMalloc(t) PROVE MemoryInv'
    <3>0. op[t] \in Calls
      BY <1>0
    <3>1. op'[t].step = "copy" /\ \A u \in Threads \ {t} : op'[u] = op[u]
      <4>1. PICK e \in Fitting(op[t].new.size) :
               op' = [op EXCEPT ![t].step = "copy", ![t].new.base = e.base]
        BY <2>5 DEF MoveMalloc
      <4>2. op'[t] = [op[t] EXCEPT !.step = "copy", !.new = [op[t].new EXCEPT !.base = e.base]]
        BY <1>0, <4>1
      <4>3. op'[t] = [step |-> "copy", new |-> [op[t].new EXCEPT !.base = e.base],
                      old |-> op[t].old]
        BY <3>0, <4>2, CallUpdate
      <4>. QED
        BY <1>0, <4>1, <4>3
    <3>2. \A u \in Threads : op'[u].step = "free" => op'[u] = op[u]
      BY <3>1
    <3>. QED
      BY <2>5, <3>2, NothingIsWritten DEF MoveMalloc
  <2>6. ASSUME Copy(t) PROVE MemoryInv'
    BY <2>6, CopyMemory
  <2>7. ASSUME MoveFree(t) PROVE MemoryInv'
    BY <2>7, MoveFreeMemory
  <2>8. ASSUME Crash(t) PROVE MemoryInv'
    <3>0. op[t] \in Calls /\ op' = [op EXCEPT ![t].step = "crashed"]
      BY <1>0, <2>8 DEF Crash
    <3>1. op'[t].step = "crashed" /\ \A u \in Threads \ {t} : op'[u] = op[u]
      <4>1. op'[t] = [op[t] EXCEPT !.step = "crashed"]
        BY <1>0, <3>0
      <4>2. PICK x, y, z : op[t] = [step |-> x, new |-> y, old |-> z]
        BY <3>0 DEF Calls
      <4>. QED
        BY <1>0, <3>0, <4>1, <4>2
    <3>2. \A u \in Threads : op'[u].step = "free" => op'[u] = op[u]
      BY <3>1
    <3>. QED
      BY <2>8, <3>2, NothingIsWritten DEF Crash
  <2>. QED
    BY <1>2, <2>1, <2>2, <2>3, <2>4, <2>5, <2>6, <2>7, <2>8 DEF Step
<1>. QED
  BY <1>1, <1>2 DEF Next

-----------------------------------------------------------------------------
(* The counter.  The memory in use with the entries E.                     *)
TakenOf(E) == UNION {Words(e) : e \in {f \in E : ~f.free}}

LEMMA IntervalSize ==
    ASSUME NEW low \in Nat, NEW size \in Nat
    PROVE  /\ IsFiniteSet(low .. low + size - 1)
           /\ Cardinality(low .. low + size - 1) = size
<1>1. low \in Int /\ low + size - 1 \in Int
  OBVIOUS
<1>. DEFINE high == low + size - 1
<1>2. IsFiniteSet(low .. high)
      /\ Cardinality(low .. high) = IF low > high THEN 0 ELSE high - low + 1
  BY <1>1, FS_Interval
<1>. QED
  BY <1>2

LEMMA WordsSize ==
    ASSUME NEW e \in Entries
    PROVE  IsFiniteSet(Words(e)) /\ Cardinality(Words(e)) = e.size
<1>1. e.base \in Nat /\ e.size \in Nat
  BY EntryType
<1>2. Words(e) = e.base .. e.base + e.size - 1
  <2>1. End(e) - 1 = e.base + e.size - 1
    BY <1>1 DEF End
  <2>. QED
    BY <2>1 DEF Words
<1>. DEFINE b == e.base
            n == e.size
<1>3. IsFiniteSet(b .. b + n - 1) /\ Cardinality(b .. b + n - 1) = n
  <2>. HIDE DEF b, n
  <2>. QED
    BY <1>1, IntervalSize DEF b, n
<1>. QED
  BY <1>2, <1>3

LEMMA TakenFinite ==
    ASSUME NEW E, Tiles(E)
    PROVE  IsFiniteSet(TakenOf(E)) /\ Cardinality(TakenOf(E)) \in Nat
<1>1. TakenOf(E) \subseteq 0 .. Size - 1
  <2>1. ASSUME NEW e \in E, NEW x \in Words(e) PROVE x \in 0 .. Size - 1
    BY <2>1, EntryType, SizeAssumption DEF Tiles, Words
  <2>. QED
    BY <2>1 DEF TakenOf
<1>2. IsFiniteSet(0 .. Size - 1)
  BY SizeAssumption, FS_Interval
<1>3. IsFiniteSet(TakenOf(E))
  BY <1>1, <1>2, FS_Subset
<1>. QED
  BY <1>3, FS_CardinalityType

LEMMA TakenGrows ==
    ASSUME NEW E, Tiles(E), NEW F, Tiles(F), NEW low \in Nat, NEW size \in Nat,
           TakenOf(F) \subseteq TakenOf(E) \union (low .. low + size - 1)
    PROVE  Cardinality(TakenOf(F)) <= Cardinality(TakenOf(E)) + size
<1>. DEFINE I == low .. low + size - 1
            U == TakenOf(E) \union I
<1>1. IsFiniteSet(I) /\ Cardinality(I) = size
  BY IntervalSize
<1>2. /\ IsFiniteSet(TakenOf(E)) /\ Cardinality(TakenOf(E)) \in Nat
      /\ Cardinality(TakenOf(F)) \in Nat
  BY TakenFinite
<1>. HIDE DEF I
<1>3. /\ IsFiniteSet(U)
      /\ Cardinality(U) = Cardinality(TakenOf(E)) + Cardinality(I)
                             - Cardinality(TakenOf(E) \intersect I)
  BY <1>1, <1>2, FS_Union
<1>4. Cardinality(TakenOf(E) \intersect I) \in Nat
  <2>1. IsFiniteSet(TakenOf(E) \intersect I)
    BY <1>1, FS_Subset
  <2>. QED
    BY <2>1, FS_CardinalityType
<1>5. Cardinality(TakenOf(F)) <= Cardinality(U)
  <2>1. TakenOf(F) \in SUBSET U
    BY DEF I
  <2>. QED
    BY <1>3, <2>1, FS_Subset
<1>6. Cardinality(U) \in Nat
  BY <1>3, FS_CardinalityType
<1>. QED
  BY <1>1, <1>2, <1>3, <1>4, <1>5, <1>6

LEMMA TakenShrinks ==
    ASSUME NEW E, Tiles(E), NEW F, Tiles(F), NEW e \in E, ~e.free,
           TakenOf(F) \subseteq TakenOf(E) \ Words(e)
    PROVE  Cardinality(TakenOf(F)) <= Cardinality(TakenOf(E)) - e.size
<1>. DEFINE D == TakenOf(E) \ Words(e)
<1>1. IsFiniteSet(Words(e)) /\ Cardinality(Words(e)) = e.size /\ e.size \in Nat
  BY WordsSize, EntryType DEF Tiles
<1>2. /\ IsFiniteSet(TakenOf(E)) /\ Cardinality(TakenOf(E)) \in Nat
      /\ Cardinality(TakenOf(F)) \in Nat
  BY TakenFinite
<1>3. Words(e) \subseteq TakenOf(E)
  BY DEF TakenOf
<1>4. /\ IsFiniteSet(D)
      /\ Cardinality(D) = Cardinality(TakenOf(E)) - Cardinality(TakenOf(E) \intersect Words(e))
  BY <1>1, <1>2, FS_Difference
<1>5. TakenOf(E) \intersect Words(e) = Words(e)
  BY <1>3
<1>6. Cardinality(TakenOf(F)) <= Cardinality(D)
  <2>1. TakenOf(F) \in SUBSET D
    OBVIOUS
  <2>. QED
    BY <1>4, <2>1, FS_Subset
<1>. HIDE DEF D
<1>. QED
  BY <1>1, <1>2, <1>4, <1>5, <1>6

LEMMA TakeCounts ==
    ASSUME EntriesInv, EntriesInv', CountInv,
           NEW n \in Sizes, NEW e \in Fitting(n), TakeFrom(e, n)
    PROVE  CountInv'
<1>. DEFINE R == Rounded(n)
<1>1. e \in entries /\ e \in Entries /\ R \in Nat
  BY RoundedBounds DEF Fitting, EntriesInv, Tiles
<1>2. e.base \in Nat
  BY <1>1, EntryType
<1>3. /\ entries' = (entries \ {e}) \union {Entry(e.base, R, FALSE)}
                       \union Remaining(e.base + R, e.size - R)
      /\ cur_used' = cur_used + R /\ max_used' \in {max_used, cur_used + R}
  BY DEF TakeFrom, Used
<1>. HIDE DEF R
<1>4. TakenOf(entries') \subseteq TakenOf(entries) \union (e.base .. e.base + R - 1)
  <2>1. ASSUME NEW g \in entries', ~g.free, NEW x \in Words(g)
        PROVE  x \in TakenOf(entries) \union (e.base .. e.base + R - 1)
    <3>1. g \in entries \/ g = Entry(e.base, R, FALSE) \/ g.free
      BY <1>3 DEF Remaining, Entry
    <3>2. CASE g \in entries
      BY <2>1, <3>2 DEF TakenOf
    <3>3. CASE g = Entry(e.base, R, FALSE)
      <4>1. g.base = e.base /\ g.size = R
        BY <3>3 DEF Entry
      <4>2. x \in e.base .. e.base + R - 1
        BY <1>1, <1>2, <2>1, <4>1 DEF Words, End
      <4>. QED
        BY <4>2
    <3>. QED
      BY <2>1, <3>1, <3>2, <3>3
  <2>. QED
    BY <2>1 DEF TakenOf
<1>5. Cardinality(TakenOf(entries')) <= Cardinality(TakenOf(entries)) + R
  BY <1>1, <1>2, <1>4, TakenGrows DEF EntriesInv
<1>6. Cardinality(TakenOf(entries)) \in Nat /\ Cardinality(TakenOf(entries')) \in Nat
  BY TakenFinite DEF EntriesInv
<1>7. Cardinality(TakenOf(entries)) <= cur_used /\ cur_used \in Nat /\ max_used \in Nat
  BY DEF CountInv, Taken, TakenOf
<1>8. Taken' = TakenOf(entries')
  BY DEF Taken, TakenOf, Words, End
<1>. QED
  BY <1>1, <1>3, <1>5, <1>6, <1>7, <1>8 DEF CountInv

LEMMA GiveBackCounts ==
    ASSUME EntriesInv, EntriesInv', CountInv, NEW b, Fits(entries, b), GiveBack(b)
    PROVE  CountInv'
<1>. DEFINE e == EntryOf(b)
<1>1. e \in entries /\ e \in Entries /\ ~e.free
  BY EntryOfBlock DEF EntriesInv
<1>2. /\ entries' = (entries \ ({e} \union Absorbed(e))) \union {Coalesced(e)}
      /\ cur_used' = cur_used - e.size /\ max_used' = max_used
  BY DEF GiveBack
<1>. HIDE DEF e
<1>3. TakenOf(entries') \subseteq TakenOf(entries) \ Words(e)
  <2>1. ASSUME NEW g \in entries', ~g.free, NEW x \in Words(g)
        PROVE  x \in TakenOf(entries) \ Words(e)
    <3>1. Coalesced(e).free
      BY DEF Coalesced, Entry
    <3>2. g \in entries /\ g # e
      BY <1>2, <2>1, <3>1
    <3>3. x \in TakenOf(entries)
      BY <2>1, <3>2 DEF TakenOf
    <3>4. Apart(g, e) /\ g \in Entries
      BY <1>1, <3>2 DEF EntriesInv, Tiles
    <3>5. x \notin Words(e)
      BY <1>1, <2>1, <3>4, EntryType DEF Apart, Words
    <3>. QED
      BY <3>3, <3>5
  <2>. QED
    BY <2>1 DEF TakenOf
<1>4. Cardinality(TakenOf(entries')) <= Cardinality(TakenOf(entries)) - e.size
  BY <1>1, <1>3, TakenShrinks DEF EntriesInv
<1>5. /\ Cardinality(TakenOf(entries)) \in Nat /\ Cardinality(TakenOf(entries')) \in Nat
      /\ e.size \in Nat
  BY <1>1, TakenFinite, EntryType DEF EntriesInv
<1>6. Cardinality(TakenOf(entries)) <= cur_used /\ cur_used \in Nat /\ max_used \in Nat
  BY DEF CountInv, Taken, TakenOf
<1>7. Taken' = TakenOf(entries')
  BY DEF Taken, TakenOf, Words, End
<1>. QED
  BY <1>2, <1>4, <1>5, <1>6, <1>7 DEF CountInv

(* A block that grows in place, into the words from low on.                *)
LEMMA GrowCounts ==
    ASSUME EntriesInv, EntriesInv', CountInv,
           NEW e \in entries, NEW low \in Nat, NEW d \in Nat, NEW new,
           entries' \subseteq entries \union {new} \union {g \in entries' : g.free},
           ~e.free, Words(new) \subseteq Words(e) \union (low .. low + d - 1),
           Used(cur_used + d)
    PROVE  CountInv'
<1>1. TakenOf(entries') \subseteq TakenOf(entries) \union (low .. low + d - 1)
  BY DEF TakenOf
<1>2. Cardinality(TakenOf(entries')) <= Cardinality(TakenOf(entries)) + d
  BY <1>1, TakenGrows DEF EntriesInv
<1>3. Cardinality(TakenOf(entries)) \in Nat /\ Cardinality(TakenOf(entries')) \in Nat
  BY TakenFinite DEF EntriesInv
<1>4. Cardinality(TakenOf(entries)) <= cur_used /\ cur_used \in Nat /\ max_used \in Nat
  BY DEF CountInv, Taken, TakenOf
<1>5. Taken' = TakenOf(entries')
  BY DEF Taken, TakenOf, Words, End
<1>6. cur_used' = cur_used + d /\ max_used' \in {max_used, cur_used + d}
  BY DEF Used
<1>. QED
  BY <1>2, <1>3, <1>4, <1>5, <1>6 DEF CountInv

LEMMA GrowDownCounts ==
    ASSUME StructInv, EntriesInv', CountInv, NEW t \in Threads, NEW b \in blocks,
           NEW n \in Sizes, GrowDown(t, b, n)
    PROVE  CountInv'
<1>. DEFINE e == EntryOf(b)
            d == Missing(b, n)
            new == Entry(e.base - d, n, FALSE)
<1>0. /\ n > b.size /\ d > 0 /\ b \in Blocks /\ Fits(entries, b)
  BY DEF GrowDown, Reallocates, StructInv, BlocksInv
<1>1. PICK f \in Below(b, n) :
         /\ entries' = (entries \ {e, f}) \union {new} \union Remaining(f.base, f.size - d)
         /\ Used(cur_used + d)
  BY DEF GrowDown
<1>2. d \in Nat /\ n = e.size + d /\ b.base - d \in Nat
  <2>1. /\ d \in Nat /\ n = e.size + d
        /\ [base |-> b.base - d, size |-> n] \in Blocks
    BY <1>0, <1>1, GrowDownEffect DEF StructInv
  <2>. QED
    BY <2>1, BlockType
<1>3. /\ e \in entries /\ e \in Entries /\ e.base = b.base /\ ~e.free
  BY <1>0, EntryOfBlock DEF StructInv, EntriesInv
<1>4. e.base \in Nat /\ e.size \in Nat /\ e.base - d \in Nat
  BY <1>2, <1>3, EntryType
<1>5. new.base = e.base - d /\ new.size = n
  BY DEF Entry
<1>6. entries' \subseteq entries \union {new} \union {g \in entries' : g.free}
  BY <1>1 DEF Remaining, Entry
<1>. HIDE DEF e, d, new
<1>. DEFINE low == e.base - d
<1>7. Words(new) \subseteq Words(e) \union (low .. low + d - 1)
  BY <1>2, <1>4, <1>5 DEF Words, End
<1>8. low \in Nat
  BY <1>4
<1>. HIDE DEF low
<1>. QED
  BY <1>1, <1>2, <1>3, <1>6, <1>7, <1>8, GrowCounts DEF StructInv

LEMMA GrowUpCounts ==
    ASSUME StructInv, EntriesInv', CountInv, NEW t \in Threads, NEW b \in blocks,
           NEW n \in Sizes, GrowUp(t, b, n)
    PROVE  CountInv'
<1>. DEFINE e == EntryOf(b)
            d == Missing(b, n)
            new == Entry(e.base, n, FALSE)
<1>0. /\ d > 0 /\ b \in Blocks /\ Fits(entries, b)
  BY DEF GrowUp, Reallocates, StructInv, BlocksInv
<1>1. PICK f \in Above(b, n) :
         /\ entries' = (entries \ {e, f}) \union {new} \union Remaining(f.base + d, f.size - d)
         /\ Used(cur_used + d)
  BY DEF GrowUp
<1>2. /\ e \in entries /\ e \in Entries /\ ~e.free
  BY <1>0, EntryOfBlock DEF StructInv, EntriesInv
<1>3. e.base \in Nat /\ e.size \in Nat /\ End(e) \in Nat /\ n \in Nat
  BY <1>2, EntryType, SizesAssumption
<1>4. d = n - e.size
  BY DEF Missing
<1>5. new.base = e.base /\ new.size = n
  BY DEF Entry
<1>6. entries' \subseteq entries \union {new} \union {g \in entries' : g.free}
  BY <1>1 DEF Remaining, Entry
<1>. HIDE DEF e, d, new
<1>7. d \in Nat /\ n = e.size + d
  BY <1>0, <1>3, <1>4
<1>. DEFINE low == End(e)
<1>8. Words(new) \subseteq Words(e) \union (low .. low + d - 1)
  BY <1>3, <1>5, <1>7 DEF Words, End
<1>. HIDE DEF low
<1>9. low \in Nat
  BY <1>3 DEF low
<1>. QED
  BY <1>1, <1>2, <1>6, <1>7, <1>8, <1>9, GrowCounts DEF StructInv

LEMMA CountStep ==
    ASSUME StructInv, StructInv', CountInv, [Next]_vars
    PROVE  CountInv'
<1>0. EntriesInv /\ EntriesInv'
  BY DEF StructInv
<1>a. ASSUME UNCHANGED <<entries, cur_used, max_used>> PROVE CountInv'
  BY <1>a DEF CountInv, Taken, Words, End
<1>1. CASE UNCHANGED vars
  BY <1>1, <1>a DEF vars
<1>2. ASSUME NEW t \in Threads, Step(t) PROVE CountInv'
  <2>1. ASSUME NEW n \in Sizes, Malloc(t, n) PROVE CountInv'
    BY <1>0, <2>1, TakeCounts DEF Malloc
  <2>2. ASSUME Clear(t) \/ Copy(t) \/ Crash(t) PROVE CountInv'
    BY <1>a, <2>2 DEF Clear, Copy, Crash
  <2>3. ASSUME NEW b \in blocks, Free(t, b) PROVE CountInv'
    BY <1>0, <2>3, GiveBackCounts DEF Free, StructInv, BlocksInv
  <2>4. ASSUME NEW b \in blocks, NEW n \in Sizes,
               Keep(t, b, n) \/ GrowDown(t, b, n) \/ GrowUp(t, b, n) \/ StartMove(t, b, n)
        PROVE CountInv'
    <3>1. ASSUME Keep(t, b, n) PROVE CountInv'
      BY <1>a, <3>1 DEF Keep
    <3>2. ASSUME StartMove(t, b, n) PROVE CountInv'
      <4>. DEFINE d == Missing(b, n)
      <4>1. /\ d > 0 /\ entries' = entries
            /\ cur_used' = cur_used + d /\ max_used' \in {max_used, cur_used + d}
        BY <3>2 DEF StartMove, Used
      <4>2. EntryOf(b) \in Entries /\ n \in Nat
        BY <1>0, EntryOfBlock, SizesAssumption DEF StructInv, BlocksInv, EntriesInv
      <4>3. d \in Nat
        BY <4>1, <4>2, EntryType DEF Missing
      <4>4. Cardinality(TakenOf(entries)) \in Nat
        BY <1>0, TakenFinite DEF EntriesInv
      <4>5. Taken' = TakenOf(entries) /\ Taken = TakenOf(entries)
        BY <4>1 DEF Taken, TakenOf, Words, End
      <4>. HIDE DEF d
      <4>6. Cardinality(TakenOf(entries)) <= cur_used /\ cur_used \in Nat /\ max_used \in Nat
        BY <4>5 DEF CountInv
      <4>. QED
        BY <4>1, <4>3, <4>4, <4>5, <4>6 DEF CountInv
    <3>. QED
      BY <1>0, <2>4, <3>1, <3>2, GrowDownCounts, GrowUpCounts
  <2>5. ASSUME MoveMalloc(t) PROVE CountInv'
    <3>1. op[t].new.size \in Sizes
      BY <2>5 DEF MoveMalloc, StructInv, CallsInv, CallIsRight, MovesBlock
    <3>. QED
      BY <1>0, <2>5, <3>1, TakeCounts DEF MoveMalloc
  <2>6. ASSUME MoveFree(t) PROVE CountInv'
    <3>1. Fits(entries, op[t].old)
      BY <2>6 DEF MoveFree, StructInv, BlocksInv, CallsInv, CallIsRight, MovesBlock
    <3>. QED
      BY <1>0, <2>6, <3>1, GiveBackCounts DEF MoveFree
  <2>. QED
    BY <1>2, <2>1, <2>2, <2>3, <2>4, <2>5, <2>6 DEF Step
<1>. QED
  BY <1>1, <1>2 DEF Next

-----------------------------------------------------------------------------
LEMMA InitInv == Init => IInv
<1>. SUFFICES ASSUME Init PROVE IInv
  OBVIOUS
<1>1. EntriesInv
  <2>. DEFINE e == Entry(0, Size, TRUE)
  <2>1. e \in Entries /\ e.base = 0 /\ End(e) = Size /\ entries = {e}
    BY SizeAssumption DEF Init, Entries, Addresses, Entry, End
  <2>2. Size > 0 /\ Size \in Nat
    BY SizeAssumption
  <2>. HIDE DEF e
  <2>3. Tiles(entries)
    BY <2>1, <2>2 DEF Tiles, Covers, Addresses
  <2>4. Merged(entries)
    BY <2>1, <2>2 DEF Merged
  <2>. QED
    BY <2>3, <2>4 DEF EntriesInv
<1>2. BlocksInv
  BY DEF Init, BlocksInv
<1>3. CallsInv
  <2>1. Idle \in Calls /\ Idle.step = "idle"
    BY DEF Idle, Calls
  <2>2. ~MakesBlock(Idle) /\ ~MovesBlock(Idle)
    BY <2>1 DEF MakesBlock, MovesBlock
  <2>3. op \in [Threads -> Calls] /\ \A t \in Threads : op[t] = Idle
    BY <2>1 DEF Init
  <2>. QED
    BY <2>2, <2>3 DEF CallsInv, CallIsRight, CallsAreApart
<1>4. MemoryInv
  BY DEF Init, MemoryInv, Idle
<1>5. CountInv
  <2>1. Taken = {}
    BY DEF Init, Taken, Entry
  <2>. QED
    BY <2>1, FS_EmptySet DEF Init, CountInv
<1>. QED
  BY <1>1, <1>2, <1>3, <1>4, <1>5 DEF IInv

LEMMA NextInv == IInv /\ [Next]_vars => IInv'
BY StructStep, MemoryStep, CountStep DEF IInv, StructInv

LEMMA Invariance == Spec => []IInv
BY InitInv, NextInv, PTL DEF Spec

(* Whatever the threads do, the state of an arena stays a state of its     *)
(* type: no entry or block leaves the arena, no size becomes zero, and the *)
(* unsigned counter of used memory never wraps below zero (tlm.c:135).     *)
THEOREM ArenaTypes == Spec => []TypeOK
<1>1. IInv => TypeOK
  BY DEF IInv, EntriesInv, Tiles, BlocksInv, CallsInv, MemoryInv, CountInv, TypeOK
<1>. QED
  BY <1>1, Invariance, PTL

(* For any arena, table and sizes: the entries that tlm_malloc, tlm_free   *)
(* and tlm_realloc leave behind always cut the arena into pieces, and no   *)
(* block's entry is larger than the next size its owner asks for.          *)
THEOREM ArenaIsTiled == Spec => []EntriesTileTheArena
<1>1. IInv => EntriesTileTheArena
  <2>. SUFFICES ASSUME IInv PROVE EntriesTileTheArena
    OBVIOUS
  <2>. USE DEF IInv, EntriesInv
  <2>1. ASSUME NEW e \in entries PROVE Words(e) \subseteq Addresses
    BY EntryType, SizeAssumption DEF Tiles, Words, Addresses
  <2>2. ASSUME NEW e \in entries, NEW f \in entries, e # f
        PROVE  Words(e) \intersect Words(f) = {}
    BY <2>2, EntryType DEF Tiles, Apart, Words
  <2>3. ASSUME NEW x \in Addresses PROVE \E e \in entries : x \in Words(e)
    <3>1. PICK e \in entries : Covers(e, x)
      BY DEF Tiles
    <3>2. x \in Nat
      BY SizeAssumption DEF Addresses
    <3>3. x \in Words(e)
      BY <3>1, <3>2, EntryType DEF Tiles, Covers, Words
    <3>. QED
      BY <3>3
  <2>4. Addresses = UNION {Words(e) : e \in entries}
    BY <2>1, <2>3
  <2>5. \A b \in blocks : EntryOf(b).size <= b.size + 1
    BY EntryOfBlock DEF BlocksInv
  <2>. QED
    BY <2>1, <2>2, <2>4, <2>5 DEF EntriesTileTheArena
<1>. QED
  BY <1>1, Invariance, PTL

(* tlm_free looks at the two neighbors of one entry only, and tlm_malloc   *)
(* and tlm_realloc at none, and yet two free entries are never adjacent.   *)
THEOREM FreeMemoryIsMerged == Spec => []FreeEntriesAreMerged
<1>1. IInv => FreeEntriesAreMerged
  BY DEF IInv, EntriesInv, Merged, FreeEntriesAreMerged
<1>. QED
  BY <1>1, Invariance, PTL

(* No interleaving of clearing, copying, moving and growing blocks changes *)
(* a word that another caller has written.                                 *)
THEOREM BlocksKeepContents == Spec => []ContentsSurvive
<1>1. IInv => ContentsSurvive
  BY DEF IInv, MemoryInv, Holds, ContentsSurvive
<1>. QED
  BY <1>1, Invariance, PTL

(* The count of used memory may be too high after a block was moved, but   *)
(* never too low: no memory in use goes uncounted.                         *)
THEOREM NoMemoryIsUncounted == Spec => [](Cardinality(Taken) <= cur_used)
<1>1. IInv => Cardinality(Taken) <= cur_used
  BY DEF IInv, CountInv
<1>. QED
  BY <1>1, Invariance, PTL

-----------------------------------------------------------------------------
(* The arena implements the heap.                                          *)
LEMMA BlocksAreSeparate ==
    ASSUME NEW E, Tiles(E), NEW c \in Blocks, Fits(E, c), NEW B \in SUBSET Blocks,
           \A d \in B : Fits(E, d) /\ d.base # c.base
    PROVE  c \in TheHeap!Blocks /\ TheHeap!Separate(c, B)
<1>1. PICK e \in E : e.base = c.base /\ c.base + c.size <= End(e) /\ End(e) <= Size
  BY BlockInEntry
<1>2. /\ c.base \in Nat /\ c.size \in Nat /\ e.base \in Nat /\ End(e) \in Nat
  BY <1>1, BlockType, EntryType DEF Tiles
<1>3. c \in TheHeap!Blocks
  <2>1. c.base + c.size <= Size
    BY <1>1, <1>2, SizeAssumption
  <2>. QED
    BY <2>1 DEF TheHeap!Blocks, Blocks, Addresses
<1>4. ASSUME NEW d \in B PROVE TheHeap!Words(c) \intersect TheHeap!Words(d) = {}
  <2>1. PICK f \in E : f.base = d.base /\ d.base + d.size <= End(f)
    BY BlockInEntry
  <2>2. d.base \in Nat /\ d.size \in Nat /\ f.base \in Nat /\ End(f) \in Nat
    BY <2>1, BlockType, EntryType DEF Tiles
  <2>3. Apart(e, f)
    BY <1>1, <2>1 DEF Tiles
  <2>. QED
    BY <1>1, <1>2, <2>1, <2>2, <2>3 DEF Apart, TheHeap!Words
<1>. QED
  BY <1>3, <1>4 DEF TheHeap!Separate

LEMMA ResizeStep ==
    ASSUME StructInv, StructInv', NEW b \in blocks, NEW c \in Blocks, c.size > b.size,
           Becomes(b, c), \A d \in blocks \ {b} : d.base # c.base
    PROVE  TheHeap!Next
<1>1. blocks' = (blocks \ {b}) \union {c}
  BY DEF Becomes
<1>2. c \in TheHeap!Blocks /\ TheHeap!Separate(c, blocks \ {b})
  <2>1. /\ Tiles(entries') /\ blocks' \subseteq Blocks
        /\ \A d \in blocks' : Fits(entries', d)
    BY DEF StructInv, EntriesInv, BlocksInv
  <2>. QED
    BY <1>1, <2>1, BlocksAreSeparate
<1>. QED
  BY <1>1, <1>2 DEF TheHeap!Next, TheHeap!Resize

LEMMA HeapStep ==
    ASSUME StructInv, StructInv', [Next]_vars
    PROVE  [TheHeap!Next]_blocks
<1>1. CASE UNCHANGED vars
  BY <1>1 DEF vars
<1>2. ASSUME NEW t \in Threads, Step(t) PROVE [TheHeap!Next]_blocks
  <2>1. ASSUME NEW n \in Sizes, Malloc(t, n) PROVE UNCHANGED blocks
    BY <2>1 DEF Malloc
  <2>2. ASSUME Clear(t) PROVE TheHeap!Next
    <3>. DEFINE new == op[t].new
    <3>1. MakesBlock(op[t]) /\ blocks' = blocks \union {new}
      BY <2>2 DEF Clear, MakesBlock
    <3>2. new \in Blocks /\ \A b \in blocks : b.base # new.base
      BY <3>1 DEF StructInv, CallsInv, CallIsRight
    <3>3. /\ Tiles(entries') /\ blocks' \subseteq Blocks
          /\ \A d \in blocks' : Fits(entries', d)
      BY DEF StructInv, EntriesInv, BlocksInv
    <3>4. new \in TheHeap!Blocks /\ TheHeap!Separate(new, blocks)
      BY <3>1, <3>2, <3>3, BlocksAreSeparate
    <3>. QED
      BY <3>1, <3>4 DEF TheHeap!Next, TheHeap!Allocate
  <2>3. ASSUME NEW b \in blocks, Free(t, b) PROVE TheHeap!Next
    BY <2>3 DEF Free, TheHeap!Next, TheHeap!Release
  <2>4. ASSUME NEW b \in blocks, NEW n \in Sizes,
               Keep(t, b, n) \/ GrowUp(t, b, n)
        PROVE  TheHeap!Next
    <3>. DEFINE c == [b EXCEPT !.size = n]
    <3>1. b \in blocks \ Moving /\ n > b.size /\ Becomes(b, c)
      BY <2>4 DEF Keep, GrowUp, Reallocates
    <3>2. b \in Blocks /\ c \in Blocks /\ c.base = b.base /\ c.size = n
      BY DEF StructInv, BlocksInv, Blocks
    <3>3. \A d \in blocks \ {b} : d.base # c.base
      BY <3>2 DEF StructInv, BlocksInv
    <3>. HIDE DEF c
    <3>. QED
      BY <3>1, <3>2, <3>3, ResizeStep
  <2>5. ASSUME NEW b \in blocks, NEW n \in Sizes, GrowDown(t, b, n) PROVE TheHeap!Next
    <3>. DEFINE c == [base |-> b.base - Missing(b, n), size |-> n]
    <3>1. PICK f \in Below(b, n) :
             /\ entries' = (entries \ {EntryOf(b), f})
                              \union {Entry(EntryOf(b).base - Missing(b, n), n, FALSE)}
                              \union Remaining(f.base, f.size - Missing(b, n))
             /\ Becomes(b, c)
      BY <2>5 DEF GrowDown
    <3>2. n > b.size /\ Missing(b, n) > 0 /\ b \in Blocks /\ Fits(entries, b)
      BY <2>5 DEF GrowDown, Reallocates, StructInv, BlocksInv
    <3>3. c \in Blocks /\ f \in entries /\ f.free /\ f.base <= c.base /\ c.base < End(f)
      BY <3>1, <3>2, GrowDownEffect DEF StructInv
    <3>4. c.size > b.size
      BY <3>2
    <3>. HIDE DEF c
    <3>5. \A d \in blocks \ {b} : d.base # c.base
      BY <3>3, GrowDownBase DEF StructInv, BlocksInv
    <3>. QED
      BY <3>1, <3>3, <3>4, <3>5, ResizeStep
  <2>6. ASSUME NEW b \in blocks, NEW n \in Sizes, StartMove(t, b, n)
        PROVE  UNCHANGED blocks
    BY <2>6 DEF StartMove
  <2>7. ASSUME MoveMalloc(t) \/ Copy(t) \/ Crash(t) PROVE UNCHANGED blocks
    BY <2>7 DEF MoveMalloc, Copy, Crash
  <2>8. ASSUME MoveFree(t) PROVE TheHeap!Next
    <3>. DEFINE old == op[t].old
                new == op[t].new
    <3>1. /\ MakesBlock(op[t]) /\ MovesBlock(op[t]) /\ Becomes(old, new)
          /\ CallIsRight(op[t], entries, blocks)
      BY <2>8 DEF MoveFree, MakesBlock, MovesBlock, StructInv, CallsInv
    <3>2. new \in Blocks /\ old \in blocks /\ \A b \in blocks : b.base # new.base
      BY <3>1 DEF CallIsRight
    <3>3. /\ Tiles(entries) /\ blocks \in SUBSET Blocks
          /\ \A b \in blocks : Fits(entries, b)
      BY DEF StructInv, EntriesInv, BlocksInv
    <3>4. old.size \in Nat /\ new.size \in Nat /\ old.size < new.size
      BY <3>1, <3>3, OldIsSmaller
    <3>. HIDE DEF old, new
    <3>5. new.size > old.size
      BY <3>4
    <3>. QED
      BY <3>1, <3>2, <3>5, ResizeStep
  <2>. QED
    BY <1>2, <2>1, <2>2, <2>3, <2>4, <2>5, <2>6, <2>7, <2>8 DEF Step
<1>. QED
  BY <1>1, <1>2 DEF Next

(* The arena, with its merging, growing and moving and with the mutex given *)
(* up in between, is a heap: a block never overlaps another one.            *)
THEOREM ArenaIsHeap == Spec => IsHeap
<1>1. Init => TheHeap!Init
  BY DEF Init, TheHeap!Init
<1>2. IInv /\ IInv' /\ [Next]_vars => [TheHeap!Next]_blocks
  BY HeapStep DEF IInv, StructInv
<1>. QED
  BY <1>1, <1>2, Invariance, PTL DEF Spec, IsHeap, TheHeap!Spec
=============================================================================
