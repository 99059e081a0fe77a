------------------------------- MODULE MCHnsw -------------------------------
(* Coordinates on both sides of the origin, for the inner product. *)
EXTENDS HnswFile

Signed == {-1, 1, 2}
=============================================================================
