----------------------------- MODULE PointStore -----------------------------
(***************************************************************************)
(* What a collection promises its callers: a map from external ids to      *)
(* rows.  upsert overwrites, delete removes, set_payload and clear_payload *)
(* replace the payload of the ids that exist and ignore the others.  Each  *)
(* call takes effect at once, as a whole.  flush, compact, the rebuild of a*)
(* segment and an automatic flush change nothing here.                     *)
(***************************************************************************)
CONSTANTS Id, Vector, Payload, NoPayload, NoRow

VARIABLE store

OptPayload == Payload \cup {NoPayload}
Row == [vector : Vector, payload : OptPayload]
Store == [Id -> Row \cup {NoRow}]

Empty == [id \in Id |-> NoRow]

TypeOK == store \in Store

AfterUpsert(s, batch) == [id \in Id |-> IF batch[id] # NoRow THEN batch[id] ELSE s[id]]
AfterDelete(s, ids) == [id \in Id |-> IF id \in ids THEN NoRow ELSE s[id]]
AfterSetPayload(s, ids, payload) ==
    [id \in Id |-> IF id \in ids /\ s[id] # NoRow
                     THEN [s[id] EXCEPT !.payload = payload] ELSE s[id]]

Init == store = Empty

Upsert(batch) == store' = AfterUpsert(store, batch)
Delete(ids) == store' = AfterDelete(store, ids)
SetPayload(ids, payload) == store' = AfterSetPayload(store, ids, payload)

Next ==
    \/ \E batch \in Store : Upsert(batch)
    \/ \E ids \in SUBSET Id : Delete(ids)
    \/ \E ids \in SUBSET Id, payload \in OptPayload : SetPayload(ids, payload)

Spec == Init /\ [][Next]_store
=============================================================================
