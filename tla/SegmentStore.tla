---------------------------- MODULE SegmentStore ----------------------------
(***************************************************************************)
(* What a directory of segments promises to those who load it: segments    *)
(* that are made whole, whose single files are replaced as a whole, and a  *)
(* manifest that names some of them.  There are no files that are half     *)
(* written and no segments that lack some.                                 *)
(***************************************************************************)
EXTENDS Naturals

CONSTANT Bytes  \* the contents a file can have

Base == {"meta", "vectors", "norms", "ids", "payloads"}
File == Base \cup {"dels", "overlay", "index"}

(* The files of a segment, by name. *)
Content == UNION {[names -> Bytes] : names \in SUBSET File}

VARIABLES
    want,   \* what the call in progress writes
    made,   \* the segments there are, by id
    named   \* the ids in the manifest

Init ==
    /\ want \in Content
    /\ made = [i \in {} |-> want]
    /\ named = {}

Call ==
    /\ want' \in Content
    /\ UNCHANGED <<made, named>>

(* Segments that the manifest does not name may go at any time, and a new  *)
(* one may come.                                                           *)
Make ==
    \E keep \in SUBSET DOMAIN made, new \in SUBSET Nat :
      /\ named \subseteq keep
      /\ new \cap DOMAIN made = {}
      /\ new # {} => Base \subseteq DOMAIN want
      /\ made' = [i \in keep \cup new |-> IF i \in new THEN want ELSE made[i]]
      /\ UNCHANGED <<want, named>>

Rewrite ==
    \E i \in DOMAIN made, name \in DOMAIN want :
      /\ made' = [made EXCEPT ![i] =
                    [n \in DOMAIN made[i] \cup {name} |-> IF n = name THEN want[n] ELSE made[i][n]]]
      /\ UNCHANGED <<want, named>>

Save ==
    /\ named' \subseteq DOMAIN made
    /\ made' = [i \in named' |-> made[i]]
    /\ want' = want

Next == Call \/ Make \/ Rewrite \/ Save

Spec == Init /\ [][Next]_<<want, made, named>>
=============================================================================
