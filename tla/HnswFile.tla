------------------------------ MODULE HnswFile ------------------------------
(***************************************************************************)
(* index.bin (HnswIndex::serialize and load in index/hnsw/mod.rs), and the *)
(* properties of the index: of the graph that is built, of what queries    *)
(* return and of what is loaded again when the database opens.             *)
(*                                                                         *)
(* The fields of fixed size are a record, which load reads back as it is.  *)
(* The upper links are a list of variable length whose extent only its own *)
(* counts tell, so they are kept byte by byte; numbers stay below 256.     *)
(***************************************************************************)
EXTENDS Hnsw

ASSUME ByteAssumption == {Count, MaxLevel, M} \subseteq 0 .. 255

(* The Err that any failed check of load returns. *)
Broken == [error |-> "Invalid"]

(* to_le_bytes of a number of the given width, and back. *)
Bytes(x, width) == [i \in 1 .. width |-> IF i = 1 THEN x ELSE 0]

Number(bytes) == FoldRight(LAMBDA b, rest : b + 256 * rest, bytes, 0)

(* The layers that the node has are written, after the number of levels    *)
(* it was given.                                                           *)
NodeBytes(g, n) ==
    Bytes(n, 4) \o Bytes(g.levels[n], 1)
      \o FlattenSeq([l \in DOMAIN g.upper[n] |->
                       Bytes(Len(g.upper[n][l]), 2)
                         \o FlattenSeq([i \in DOMAIN g.upper[n][l] |-> Bytes(g.upper[n][l][i], 4)])])

Serialize(g) ==
    LET uppers == SelectSeq([i \in 1 .. Count |-> i - 1], LAMBDA n : g.levels[n] > 0)
    IN  [entry |-> g.entry, maxLevel |-> g.maxLevel, levels |-> g.levels, layer0 |-> g.layer0,
         upperCount |-> Len(uppers),
         bytes |-> FlattenSeq([i \in DOMAIN uppers |-> NodeBytes(g, uppers[i])])]

-----------------------------------------------------------------------------
(* Reader: what is left of the bytes, and the layers read so far; Broken   *)
(* once a read goes past the end or a check fails.                         *)

Fits(s, width) == s # Broken /\ Len(s.rest) >= width
Peek(s, width) == Number(SubSeq(s.rest, 1, width))
Skip(s, width) == [s EXCEPT !.rest = SubSeq(@, width + 1, Len(@))]

ReadLink(s, n) ==
    IF ~Fits(s, 4) THEN Broken
    ELSE [Skip(s, 4) EXCEPT !.upper[n] = [@ EXCEPT ![Len(@)] = Append(@, Peek(s, 4))]]

ReadLayer(s, n) ==
    IF ~Fits(s, 2) THEN Broken
    ELSE IF Len(s.rest) < 2 + 4 * Peek(s, 2) THEN Broken
    ELSE FoldLeft(LAMBDA t, i : ReadLink(t, n), [Skip(s, 2) EXCEPT !.upper[n] = Append(@, <<>>)],
                  [i \in 1 .. Peek(s, 2) |-> i])

(* Mutation: the top level is taken to be out of range. *)
ReadNodeOffByOne(s, maxLevel) ==
    IF ~Fits(s, 5) THEN Broken
    ELSE LET n == Peek(s, 4)
             layers == s.rest[5]
         IN  IF n >= Count \/ layers >= maxLevel THEN Broken
             ELSE FoldLeft(LAMBDA t, l : ReadLayer(t, n), Skip(s, 5), [l \in 1 .. layers |-> l])

ReadNode(s, maxLevel) ==
    IF ~Fits(s, 5) THEN Broken
    ELSE LET n == Peek(s, 4)
             layers == s.rest[5]
         IN  IF n >= Count \/ layers > maxLevel THEN Broken
             ELSE FoldLeft(LAMBDA t, l : ReadLayer(t, n), Skip(s, 5), [l \in 1 .. layers |-> l])

Load(file) ==
    LET s == FoldLeft(LAMBDA t, i : ReadNode(t, file.maxLevel),
                      [rest |-> file.bytes, upper |-> EmptyGraph.upper],
                      [i \in 1 .. file.upperCount |-> i])
    IN  IF s = Broken THEN Broken
        ELSE IF s.rest # <<>> THEN Broken
        ELSE [inserted |-> Count, entry |-> file.entry, maxLevel |-> file.maxLevel,
              levels |-> file.levels, layer0 |-> file.layer0, upper |-> s.upper]

-----------------------------------------------------------------------------
(* Properties of the graph. *)

Done == graph.inserted = Count
Present == 0 .. graph.inserted - 1

TypeOK ==
    /\ pos \in [Node -> Coord]
    /\ graph.inserted \in 0 .. Count
    /\ graph.levels \in [Node -> 0 .. MaxLevel]
    /\ \A n \in Node : /\ Len(graph.layer0[n]) <= M0
                       /\ \A l \in DOMAIN graph.upper[n] : Len(graph.upper[n][l]) <= M

(* graph.rs:57: at each level a node links to inserted nodes of that level,*)
(* each once and never to itself, however often its links were chosen      *)
(* again, and the entry is a node of the highest level: a descent meets a  *)
(* node of every level and none that lacks the links of its level.         *)
GraphIsLayered ==
    /\ \A n \in Node, level \in 0 .. MaxLevel :
         LET links == Links(graph, n, level)
         IN  /\ links # <<>> => n \in Present
             /\ IsInjective(links)
             /\ ToSet(links) \subseteq {x \in Present \ {n} : graph.levels[x] >= level}
    /\ IF Present = {} THEN graph.entry = EMPTY
       ELSE /\ graph.entry \in Present
            /\ graph.maxLevel = Max({graph.levels[n] : n \in Present})
            /\ graph.levels[graph.entry] = graph.maxLevel

(* The levels of a node all have a place for its links, except for the     *)
(* levels of an entry that nobody has joined yet.                          *)
OnlyTheEntryIsShort ==
    \A n \in Present : n # graph.entry => Len(graph.upper[n]) = graph.levels[n]

EntryIsShort == Len(graph.upper[graph.entry]) < graph.levels[graph.entry]

(* What the test levels_match_layer_vectors_and_roundtrip (mod.rs:378)     *)
(* says of every graph: loading index.bin gives the index back.            *)
LoadsBack == Done /\ Count > 0 => Load(Serialize(graph)) = graph

(* It does when the entry is not short; and when it is, load refuses the   *)
(* file rather than accepting another graph.                               *)
LoadsBackOrRefuses ==
    Done /\ Count > 0 =>
      Load(Serialize(graph)) = IF EntryIsShort THEN Broken ELSE graph

-----------------------------------------------------------------------------
(* Properties of queries on the finished index. *)

Further(S) == S \cup UNION {ToSet(Links(graph, x, 0)) : x \in S}

ReachableFrom(n) == FoldLeft(LAMBDA S, round : Further(S), {n}, Rounds)

Passes == {Node} \cup {{n} : n \in Node}

(* mod.rs:5: filters and tombstones cost no result: a query returns k of   *)
(* the rows that pass, or all those it can reach if they are fewer, each   *)
(* once, the nearest first.                                                *)
QueriesFillUp ==
    Done => \A q \in Coord, k \in TopK, ef \in EfSearch, pass \in Passes :
      LET results == Query(graph, q, k, ef, pass)
          reached == pass \cap ReachableFrom(LayerZeroEntry(graph, q))
      IN  /\ results = Sorted(q, ToSet(results))
          /\ ToSet(results) \subseteq reached
          /\ Len(results) = Min({k, Cardinality(reached)})

(* A query of a width of at least the number of rows is exact over what it *)
(* can reach.                                                              *)
WideQueriesAreExact ==
    Done => \A q \in Coord, k \in TopK, pass \in Passes :
      LET results == Query(graph, q, k, Count, pass)
          best == Sorted(q, pass \cap ReachableFrom(LayerZeroEntry(graph, q)))
      IN  results = SubSeq(best, 1, Min({k, Len(best)}))

(* mod.rs:5 has the retries with a wider search make up for a selective    *)
(* filter.  They never find more: a search that returns fewer than k rows  *)
(* has already visited all that it can reach.                              *)
RetriesFindNothing ==
    Done => \A q \in Coord, k \in TopK, ef \in EfSearch, pass \in Passes :
      LET first == SearchLayer(graph, q, <<LayerZeroEntry(graph, q)>>, Max({ef, k}), 0, pass)
      IN  Query(graph, q, k, ef, pass) = SubSeq(first, 1, Min({k, Len(first)}))
=============================================================================
