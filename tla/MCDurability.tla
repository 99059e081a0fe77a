---------------------------- MODULE MCDurability ----------------------------
(* Model-checking instance of Durability: two ids, a row with and without  *)
(* a payload, and one operation of each kind and overlap.                  *)
EXTENDS Durability

CONSTANTS i1, i2, v1, p1

A == [vector |-> v1, payload |-> NoPayload]
B == [vector |-> v1, payload |-> p1]

MCOps ==
    {[kind |-> "upsert", batch |-> (i1 :> A) @@ (i2 :> NoRow)],
     [kind |-> "upsert", batch |-> (i1 :> B) @@ (i2 :> A)],
     [kind |-> "delete", ids |-> {i1}],
     [kind |-> "delete", ids |-> {i1, i2}],
     [kind |-> "payload", ids |-> {i1}, payload |-> p1]}
=============================================================================
