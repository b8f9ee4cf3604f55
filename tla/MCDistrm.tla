------------------------------ MODULE MCDistrm ------------------------------
(***************************************************************************)
(* Small instances of Distrm.tla: who owns which core at the start, the    *)
(* options of the program, and when SIGINT may arrive.                     *)
(***************************************************************************)
EXTENDS Distrm

\* Agent 1 has a core, and the others are free.
OneTaken == {[c \in Cores |-> IF c = 0 THEN 1 ELSE Null]}

\* Each agent has a core, and what is left is free.
OneEach == {[c \in Cores |-> IF c + 1 \in Agents THEN c + 1 ELSE Null]}

\* Regions of a core and its neighbors, of two cores to each side, or some that
\* have to be split.
Near == [region_size |-> 1, max_par_reqs |-> 2]
Wide == [region_size |-> 2, max_par_reqs |-> 2]
Large == [region_size |-> 4, max_par_reqs |-> 1]
NearOrLarge == {Near, Large}
OnlyWide == {Wide}

\* SIGINT never arrives; or after the first election, if regions are not split.
Never == [o \in Options |-> {}]
UnlessSplit == [o \in Options |-> IF o.region_size > SizeThresh THEN {} ELSE {1}]
=============================================================================
