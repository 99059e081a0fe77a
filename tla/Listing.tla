------------------------------ MODULE Listing -------------------------------
(***************************************************************************)
(* A finite set in the order of a strict total order on it, as a sequence. *)
(* SetToSortSeq of the community modules does the same; this definition    *)
(* says which element is at each place.                                    *)
(***************************************************************************)
EXTENDS Naturals, FiniteSets

Listed(S, Before(_, _)) ==
    [k \in 1 .. Cardinality(S) |->
       CHOOSE x \in S : Cardinality({y \in S : Before(y, x)}) = k - 1]

Ascending(S) == Listed(S, LAMBDA i, j : i < j)
=============================================================================
