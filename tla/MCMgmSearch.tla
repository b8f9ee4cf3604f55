---------------------------- MODULE MCMgmSearch ----------------------------
(***************************************************************************)
(* Two tiles of two cores each, one of them regular, and an agent between  *)
(* two neighbors.  The problems are made the way generator.lua makes them. *)
(***************************************************************************)
EXTENDS MgmSearch

MCTile == <<1, 1, 2, 2>>
MCType == <<"REGULAR", "STREAM", "REGULAR", "STREAM">>

NecRe(least, most) == [kind |-> "NEC_RE", least |-> least, most |-> most]
OfType(type, least, most) == [kind |-> "TYPE", type |-> type, least |-> least, most |-> most]
With(kind, n) == [kind |-> kind, neighbor |-> n]
Both(c, d) == [kind |-> "AND", left |-> c, right |-> d]
Either(c, d) == [kind |-> "OR", left |-> c, right |-> d]
Application(A, sigma) == [A |-> A, sigma |-> sigma]
DowneyWith(n) == [kind |-> "DOWNEY", neighbor |-> n,
                  mine |-> Application(2, 1), theirs |-> Application(3, 0)]
Speedup == [kind |-> "SPEEDUP", mine |-> Application(2, 1)]

MCProblems == {
    [max_tiles |-> 1, constraints |-> <<NecRe(1, 1), With("PREFER_FREE", 2)>>],
    [max_tiles |-> 2, constraints |-> <<OfType("REGULAR", 1, 2), OfType("STREAM", 1, 1),
                                        With("PREFER_FREE", 2), With("SHARE", 3)>>],
    [max_tiles |-> 1, constraints |-> <<Both(NecRe(1, 2), OfType("STREAM", 1, 2)),
                                        DowneyWith(2), With("PREFER_FREE", 2)>>],
    [max_tiles |-> 1, constraints |-> <<Either(NecRe(2, 3), OfType("REGULAR", 1, 1)),
                                        Speedup, With("PREFER_FREE", 3)>>],
    [max_tiles |-> 1, constraints |-> <<Speedup, With("SHARE", 2)>>]}

MCInitialViews == KnownViewsOver(Agents)
=============================================================================
