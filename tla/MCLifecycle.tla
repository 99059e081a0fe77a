---------------------------- MODULE MCLifecycle -----------------------------
(* Ids are interchangeable.  Names are not: open loads them in an order. *)
EXTENDS Lifecycle, TLC

Symmetry == Permutations(Id)
=============================================================================
