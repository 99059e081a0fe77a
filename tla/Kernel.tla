------------------------------- MODULE Kernel -------------------------------
(***************************************************************************)
(* The loops of kernel.rs: dot and l2_sq of two vectors of one length, in  *)
(* the three forms that a build and a processor choose from.  A loop takes *)
(* blocks of eight registers, the next one (not in the scalar form) blocks *)
(* of one, the last one single components; between the last two the        *)
(* registers are added up.                                                 *)
(*                                                                         *)
(* The sum is all that matters here, not its rounding: a lane of a register*)
(* is the set of the components whose terms it has taken.                  *)
(***************************************************************************)
EXTENDS Integers

Groups == 8
Group == 0 .. Groups - 1

(* The scalar form has no registers: what is in its four lanes below is in *)
(* one of its eight accumulators.                                          *)
Scalar == [lane |-> 4, narrow |-> FALSE]
Avx2 == [lane |-> 8, narrow |-> TRUE]
Simd128 == [lane |-> 4, narrow |-> TRUE]

VARIABLES
    form,  \* the function that runs
    len,   \* the length of the vectors
    pc,    \* "blocks", "tail", "done"
    i,     \* the next component
    acc,   \* the accumulators: the components in each lane of each register
    sum,   \* the components in the sum
    read   \* the components read in the last step

vars == <<form, len, pc, i, acc, sum, read>>

Component == 0 .. len - 1
Lane == 0 .. form.lane - 1
Step == Groups * form.lane

(* n in the code: what the loops over blocks walk through. *)
Whole == IF form.narrow THEN (len \div form.lane) * form.lane ELSE (len \div Step) * Step

MoreWide == IF form.narrow THEN i + Step <= Whole ELSE i < Whole
MoreNarrow == form.narrow /\ i + form.lane <= Whole

Init ==
    /\ form \in {Scalar, Avx2, Simd128}
    /\ len \in Nat
    /\ pc = "blocks"
    /\ i = 0
    /\ acc = [g \in Group |-> [l \in Lane |-> {}]]
    /\ sum = {}
    /\ read = {}

(* One step of eight registers. *)
Wide ==
    /\ pc = "blocks"
    /\ MoreWide
    /\ acc' = [g \in Group |-> [l \in Lane |-> acc[g][l] \cup {i + g * form.lane + l}]]
    /\ read' = UNION {{i + g * form.lane + l : l \in Lane} : g \in Group}
    /\ i' = i + Step
    /\ UNCHANGED <<form, len, pc, sum>>

(* One step of one register. *)
Narrow ==
    /\ pc = "blocks"
    /\ ~MoreWide
    /\ MoreNarrow
    /\ acc' = [acc EXCEPT ![0] = [l \in Lane |-> acc[0][l] \cup {i + l}]]
    /\ read' = {i + l : l \in Lane}
    /\ i' = i + form.lane
    /\ UNCHANGED <<form, len, pc, sum>>

(* The upper half onto the lower one, odd lanes onto even ones, and the    *)
(* upper pair onto the lower one.                                          *)
HorizontalSum(v) ==
    LET half == [l \in 0 .. 3 |-> v[l] \cup v[l + 4]]
        even == [l \in {0, 2} |-> half[l] \cup half[l + 1]]
    IN  even[0] \cup even[2]

AllLanes(v) ==
    IF form = Avx2 THEN HorizontalSum(v) ELSE v[0] \cup v[1] \cup v[2] \cup v[3]

(* The registers are added up lane by lane, and then the lanes. *)
AddUp ==
    /\ pc = "blocks"
    /\ ~MoreWide
    /\ ~MoreNarrow
    /\ sum' = AllLanes([l \in Lane |-> UNION {acc[g][l] : g \in Group}])
    /\ pc' = "tail"
    /\ read' = {}
    /\ UNCHANGED <<form, len, i, acc>>

Tail ==
    /\ pc = "tail"
    /\ i < len
    /\ sum' = sum \cup {i}
    /\ read' = {i}
    /\ i' = i + 1
    /\ UNCHANGED <<form, len, pc, acc>>

Return ==
    /\ pc = "tail"
    /\ i >= len
    /\ pc' = "done"
    /\ read' = {}
    /\ UNCHANGED <<form, len, i, acc, sum>>

Next == Wide \/ Narrow \/ AddUp \/ Tail \/ Return

Spec == Init /\ [][Next]_vars

-----------------------------------------------------------------------------
(* Properties. *)

(* kernel.rs, the SAFETY comment of dot_avx2: all reads, which the AVX2    *)
(* form does not check, are within the vectors.                            *)
ReadsInBounds == read \subseteq Component

(* A component is in at most one lane of one register, ... *)
NeverTwice ==
    \A g, h \in Group, l, m \in Lane :
      (g # h \/ l # m) => acc[g][l] \cap acc[h][m] = {}

(* ... no step reads a component that a lane or the sum has already, ...   *)
ReadsAreNew ==
    [][/\ read' \cap sum = {}
       /\ \A g \in Group, l \in Lane : read' \cap acc[g][l] = {}]_vars

(* ... and the result has the terms of all components. *)
TakesAll == pc = "done" => sum = Component
=============================================================================
