-------------------------- MODULE MCCollectionView --------------------------
(* Model-checking instance of CollectionView, and of the loops of          *)
(* ApplyLoops on each of its views.                                        *)
EXTENDS ApplyLoops, TLC

Symmetry == Permutations(Id) \cup Permutations(Writer)
=============================================================================
