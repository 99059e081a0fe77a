------------------------------ MODULE MCFaults ------------------------------
(* Model-checking instance of Faults: two ids and one call of each kind.    *)
EXTENDS Faults, TLC

CONSTANTS i1, i2, v1, p1

A == [vector |-> v1, payload |-> NoPayload]
B == [vector |-> v1, payload |-> p1]

MCOps ==
    {Create, Drop,
     [kind |-> "upsert", batch |-> (i1 :> B) @@ (i2 :> A)],
     [kind |-> "delete", ids |-> {i1}],
     [kind |-> "payload", ids |-> {i1}, payload |-> NoPayload]}
=============================================================================
