------------------------------ MODULE Regions ------------------------------
(***************************************************************************)
(* Regions of cores (region.c).  Cores are numbered, and distances are     *)
(* differences of numbers.  A region has a center, a size and the set of   *)
(* cores in its view, which lists them by number.                          *)
(***************************************************************************)
EXTENDS Integers, FiniteSets, FiniteSetsExt, Sequences, SequencesExt

CONSTANT Cores \* the cores of the machine, a set of numbers

Distance(c, d) == IF c > d THEN c - d ELSE d - c

(* region_new around a given center. *)
RegionAround(center, size) ==
    [center |-> center, size |-> size,
     cores |-> {c \in Cores : Distance(c, center) <= size}]

(* region_contains looks at the center, not at the view. *)
RegionContains(region, c) == Distance(c, region.center) <= region.size

CeilDiv(m, n) == (m + n - 1) \div n

(* The first n elements of a set of numbers. *)
Lowest(n, S) == {c \in S : Cardinality({d \in S : d < c}) < n}

(* What the list head of an empty view is taken for (region.c:118). *)
Garbage == -1

(* region_split takes 2 * size cores for each part off the region's view,  *)
(* the size-th of which is the center.  A part with fewer cores takes its  *)
(* first one as center.                                                    *)
Part(cores, size) ==
    IF Cardinality(cores) < size
    THEN [center |-> IF cores = {} THEN Garbage ELSE Min(cores),
          size |-> Cardinality(cores) - 1, cores |-> cores]
    ELSE [center |-> Max(Lowest(size, cores)), size |-> size, cores |-> cores]

Split(region, size) ==
    [i \in 1 .. CeilDiv(region.size, size) |->
        Part(Lowest(2 * size * i, region.cores) \ Lowest(2 * size * (i - 1), region.cores),
             size)]

(* region_select_random and the removals in request_cores: of num regions  *)
(* with different centers those remain that are nearest to the core; on a  *)
(* later try some near ones may have been dropped before.                  *)
Nearest(kept, centers, core) ==
    \A k \in kept : \A c \in centers \ kept : Distance(k, core) <= Distance(c, core)

Selections(core, num, limit, near) ==
    {kept \in SUBSET Cores :
        \E centers \in kSubset(IF num < Cardinality(Cores) THEN num
                                                           ELSE Cardinality(Cores), Cores) :
            \E dropped \in SUBSET {c \in centers : Distance(c, core) < near} :
                LET left == centers \ dropped
                IN  /\ kept \subseteq left
                    /\ Cardinality(kept) = IF Cardinality(left) < limit
                                              THEN Cardinality(left) ELSE limit
                    /\ Nearest(kept, left, core)}
=============================================================================
