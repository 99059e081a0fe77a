----------------------------- MODULE MCReaders ------------------------------
(* Points at place 1 pass the filter of scrolls: any points may. *)
EXTENDS Readers

AtOne == {Id \X {1}}

Symmetry == Permutations(Id)
=============================================================================
