------------------------------- MODULE Filter -------------------------------
(***************************************************************************)
(* Filter conditions (filter.rs): what a condition evaluates to on a point *)
(* and the JSON that clients of the server and the bindings send it as.    *)
(*                                                                         *)
(* The state is a condition that a client puts together with the builders. *)
(* A JSON value is a record with the one field that names its type; an     *)
(* optional bound of a range is a set of at most one number.               *)
(***************************************************************************)
EXTENDS Integers, Sequences, FiniteSets, FiniteSetsExt

CONSTANTS
    Id,
    Field,
    Value,    \* JSON values of payload fields and of match
    Bound,    \* the numbers of range bounds
    MaxSize   \* bound on the parts of a condition

ASSUME FilterAssumption ==
    /\ MaxSize \in Nat
    /\ Bound \subseteq Int

Missing == [missing |-> TRUE]
Null == [null |-> TRUE]
NoPayload == <<>>

(* Points: id and payload, which is None or gives some fields a value. *)
Point == [id : Id, payload : {NoPayload} \cup [Field -> Value \cup {Missing}]]

VARIABLE cond

-----------------------------------------------------------------------------
(* Condition *)

FieldCond(field, op) == [kind |-> "field", field |-> field, op |-> op]
HasId(ids) == [kind |-> "has_id", ids |-> ids]
All(of) == [kind |-> "all", of |-> of]
Any(of) == [kind |-> "any", of |-> of]
Not(c) == [kind |-> "not", of |-> c]

Match(value) == [kind |-> "match", value |-> value]
Exists == [kind |-> "exists"]
Range2(gt, gte, lt, lte) == [kind |-> "range", gt |-> gt, gte |-> gte, lt |-> lt, lte |-> lte]

OptBound == {{}} \cup {{b} : b \in Bound}

Ranges == {Range2(gt, gte, lt, lte) : gt \in OptBound, gte \in OptBound,
                                      lt \in OptBound, lte \in OptBound}

Ops == {Match(v) : v \in Value} \cup {Exists} \cup Ranges

Atoms == {FieldCond(f, op) : f \in Field, op \in Ops} \cup {HasId({id}) : id \in Id}

(* The operands of the builders all and any. *)
Operands == {FieldCond(f, op) : f \in Field, op \in {Exists} \cup {Match(v) : v \in Value}}

RECURSIVE Size(_)
Size(c) ==
    CASE c.kind \in {"field", "has_id"} -> 1
      [] c.kind = "not" -> 1 + Size(c.of)
      [] c.kind \in {"all", "any"} -> 1 + MapThenSumSet(LAMBDA i : Size(c.of[i]), DOMAIN c.of)

Init == cond \in Atoms \cup {All(<<>>), Any(<<>>)}

Negate == cond' = Not(cond)
CombineAll == \E c \in Operands : cond' \in {All(<<cond, c>>), All(<<c, cond>>)}
CombineAny == \E c \in Operands : cond' \in {Any(<<cond, c>>), Any(<<c, cond>>)}

Next ==
    /\ Size(cond) < MaxSize
    /\ Negate \/ CombineAll \/ CombineAny

Spec == Init /\ [][Next]_cond

-----------------------------------------------------------------------------
(* Condition::eval *)

(* Mutation: a null in the payload is a value like any other. *)
FieldOfKeepsNull(p, field) == IF p.payload = NoPayload THEN Missing ELSE p.payload[field]

(* A field that is null counts as missing. *)
FieldOf(p, field) ==
    IF p.payload = NoPayload THEN Missing
    ELSE IF p.payload[field] = Null THEN Missing
    ELSE p.payload[field]

Contains(v, value) == "arr" \in DOMAIN v /\ \E i \in DOMAIN v.arr : v.arr[i] = value

EvalOp(op, v) ==
    IF op.kind = "exists" THEN v # Missing
    ELSE IF v = Missing THEN FALSE
    ELSE IF op.kind = "match" THEN v = op.value \/ Contains(v, op.value)
    ELSE /\ "num" \in DOMAIN v
         /\ \A b \in op.gt : v.num > b
         /\ \A b \in op.gte : v.num >= b
         /\ \A b \in op.lt : v.num < b
         /\ \A b \in op.lte : v.num <= b

RECURSIVE Eval(_, _)
Eval(c, p) ==
    CASE c.kind = "field" -> EvalOp(c.op, FieldOf(p, c.field))
      [] c.kind = "has_id" -> p.id \in c.ids
      [] c.kind = "all" -> \A i \in DOMAIN c.of : Eval(c.of[i], p)
      [] c.kind = "any" -> \E i \in DOMAIN c.of : Eval(c.of[i], p)
      [] c.kind = "not" -> ~Eval(c.of, p)

-----------------------------------------------------------------------------
(* The derived Serialize and Deserialize of the untagged enum. *)

Err == [error |-> TRUE]
Object(fields) == [object |-> fields]
Array(items) == [array |-> items]

RECURSIVE ToJson(_)
ToJson(c) ==
    CASE c.kind = "field" -> Object([field |-> c.field, op |-> c.op])
      [] c.kind = "has_id" -> Object([ids |-> c.ids])
      [] c.kind \in {"all", "any"} ->
           Object([of |-> Array([i \in DOMAIN c.of |-> ToJson(c.of[i])])])
      [] c.kind = "not" -> Object([of |-> ToJson(c.of)])

Has(j, fields) == "object" \in DOMAIN j /\ fields \subseteq DOMAIN j.object

(* Mutation: a list is the third variant of the enum that has an `of`. *)
VariantOfListLast == "any"

(* Of the variants with a list, the first one declared is taken. *)
VariantOfList == "all"

(* The variants are tried in the order of their declaration. *)
RECURSIVE FromJson(_)
FromJson(j) ==
    IF Has(j, {"field", "op"}) THEN FieldCond(j.object.field, j.object.op)
    ELSE IF Has(j, {"ids"}) THEN HasId(j.object.ids)
    ELSE IF ~Has(j, {"of"}) THEN Err
    ELSE LET of == j.object.of
         IN  IF "array" \in DOMAIN of
               THEN LET parts == [i \in DOMAIN of.array |-> FromJson(of.array[i])]
                    IN  IF \E i \in DOMAIN parts : parts[i] = Err THEN Err
                        ELSE [kind |-> VariantOfList, of |-> parts]
             ELSE IF FromJson(of) = Err THEN Err ELSE Not(FromJson(of))

-----------------------------------------------------------------------------
(* Properties. *)

HasAny(c) ==
    LET RECURSIVE Within(_)
        Within(d) == \/ d.kind = "any"
                     \/ d.kind = "not" /\ Within(d.of)
                     \/ d.kind = "all" /\ \E i \in DOMAIN d.of : Within(d.of[i])
    IN  Within(c)

KeepsMeaning(c) ==
    LET back == FromJson(ToJson(c))
    IN  back # Err /\ \A p \in Point : Eval(back, p) = Eval(c, p)

(* filter.rs:4: conditions travel as JSON and are told apart by their keys *)
(* (test json_roundtrip): what is read back selects the same points.       *)
JsonKeepsMeaning == KeepsMeaning(cond)

(* It does for conditions without `any`, however nested. *)
JsonKeepsMeaningWithoutAny == ~HasAny(cond) => KeepsMeaning(cond)

(* A payload without the field, or with null in it, fails every condition  *)
(* on the field; so it passes a negation, and a negated range is not the   *)
(* complementary range.                                                    *)
MissingNeverMatches ==
    cond.kind = "field" =>
      \A p \in Point :
        p.payload = NoPayload \/ p.payload[cond.field] \in {Missing, Null}
          => ~Eval(cond, p) /\ Eval(Not(cond), p)
=============================================================================
