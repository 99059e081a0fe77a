------------------------------ MODULE MCFilter ------------------------------
(* Values of each type that filters tell apart. *)
EXTENDS Filter

Zero == [num |-> 0]
One == [num |-> 1]
Word == [str |-> "en"]

SomeValues == {Null, Zero, One, Word, [arr |-> <<Zero, Word>>]}
=============================================================================
