-------------------------------- MODULE Hnsw --------------------------------
(***************************************************************************)
(* The HNSW index of an immutable segment: index/hnsw/graph.rs (the graph  *)
(* and insertion), traversal.rs (search in a layer, greedy descent, choice *)
(* of neighbours) and the build and query of index/hnsw/mod.rs.            *)
(*                                                                         *)
(* A vector is one integer coordinate, and keys are exact: NaN and the     *)
(* rounding of f32 are left out.  The level of a node, which the code      *)
(* draws from a seeded generator, is any level up to MaxLevel.  A row of   *)
(* the layer-0 matrix, filled up with EMPTY, is the sequence of its links. *)
(* The binary heaps are sets: a search pushes each node at most once, and  *)
(* the order of their keys is total.                                       *)
(***************************************************************************)
EXTENDS Integers, Sequences, FiniteSets, SequencesExt, FiniteSetsExt, Listing

CONSTANTS
    Count,        \* rows of the segment
    Coord,        \* coordinates of the vectors
    MaxLevel,     \* MAX_LEVEL, the cap on a node's level
    M, M0,        \* most links of a node: in an upper layer, in layer 0
    EfConstruct,  \* width of a search while building
    EfSearch,     \* the widths ef_search of queries
    TopK,         \* the answers k they ask for
    L2            \* TRUE for squared distance, FALSE for the inner product

ASSUME HnswAssumption ==
    /\ {Count, MaxLevel, EfConstruct} \subseteq Nat
    /\ EfSearch \subseteq Nat /\ TopK \subseteq Nat
    /\ {M, M0} \subseteq Nat \ {0}
    /\ Coord \subseteq Int
    /\ L2 \in BOOLEAN

Node == 0 .. Count - 1
EMPTY == -1

VARIABLES
    pos,   \* SegmentCore::vectors
    graph  \* HnswGraph

vars == <<pos, graph>>

(* to_key of the score: the smaller, the nearer. *)
Key(a, b) == IF L2 THEN (a - b) * (a - b) ELSE -(a * b)

(* The order of Kf and of sorted results: key, then row number. *)
Nearer(q, a, b) ==
    \/ Key(q, pos[a]) < Key(q, pos[b])
    \/ Key(q, pos[a]) = Key(q, pos[b]) /\ a < b

Sorted(q, S) == Listed(S, LAMBDA a, b : Nearer(q, a, b))

-----------------------------------------------------------------------------
(* HnswGraph. *)

EmptyGraph ==
    [inserted |-> 0, entry |-> EMPTY, maxLevel |-> -1, levels |-> [n \in Node |-> 0],
     layer0 |-> [n \in Node |-> <<>>], upper |-> [n \in Node |-> <<>>]]

Links(g, n, level) ==
    IF level = 0 THEN g.layer0[n]
    ELSE IF level \in DOMAIN g.upper[n] /\ level <= g.levels[n] THEN g.upper[n][level]
    ELSE <<>>

(* Vec::resize to at least `level` layers. *)
Resized(layers, level) ==
    layers \o [i \in 1 .. Max({0, level - Len(layers)}) |-> <<>>]

SetLinks(g, n, level, links) ==
    IF level = 0 THEN [g EXCEPT !.layer0[n] = links]
    ELSE [g EXCEPT !.upper[n] = [Resized(@, level) EXCEPT ![level] = links]]

PushLink(g, n, level, target) ==
    LET layers == Resized(g.upper[n], level)
    IN  IF level = 0 THEN [g EXCEPT !.layer0[n] = Append(@, target)]
        ELSE [g EXCEPT !.upper[n] = [layers EXCEPT ![level] = Append(@, target)]]

MaxLinks(level) == IF level = 0 THEN M0 ELSE M

-----------------------------------------------------------------------------
(* traversal.rs *)

Rounds == [round \in 1 .. Count |-> round]

Closer(q, best, n) == IF Key(q, pos[n]) < Key(q, pos[best]) THEN n ELSE best

WalkOn(g, q, ep, level) == FoldLeft(LAMBDA best, n : Closer(q, best, n), ep, Links(g, ep, level))

(* Greedy walk to a local minimum of a level.  Every round but the last    *)
(* comes nearer, so Count rounds are enough.                               *)
GreedyDescend(g, q, start, level) ==
    FoldLeft(LAMBDA ep, round : WalkOn(g, q, ep, level), start, Rounds)

(* push_result: keep the ef nearest. *)
PushResult(q, res, n, ef) ==
    IF Cardinality(res) < ef THEN res \cup {n}
    ELSE LET worst == CHOOSE w \in res : \A x \in res : x = w \/ Nearer(q, x, w)
         IN  IF Key(q, pos[n]) < Key(q, pos[worst]) THEN (res \ {worst}) \cup {n} ELSE res

Offered(q, res, n, ef, pass) == IF n \in pass THEN PushResult(q, res, n, ef) ELSE res

(* Mutation: a node that does not pass is not walked through. *)
VisitStopsAtFiltered(q, s, n, ef, pass) ==
    IF n \in s.visited THEN s
    ELSE [visited |-> s.visited \cup {n}, cand |-> s.cand \cup ({n} \cap pass),
          res |-> Offered(q, s.res, n, ef, pass)]

(* A search: the nodes visited, and the heaps of candidates and results.   *)
(* A node that does not pass is walked through and not returned.           *)
Visit(q, s, n, ef, pass) ==
    IF n \in s.visited THEN s
    ELSE [visited |-> s.visited \cup {n}, cand |-> s.cand \cup {n},
          res |-> Offered(q, s.res, n, ef, pass)]

(* A neighbour no nearer than a full heap of results is visited in vain.   *)
VisitNeighbour(q, s, n, ef, pass) ==
    IF /\ n \notin s.visited
       /\ Cardinality(s.res) = ef
       /\ \A x \in s.res : Key(q, pos[n]) >= Key(q, pos[x])
      THEN [s EXCEPT !.visited = @ \cup {n}]
      ELSE Visit(q, s, n, ef, pass)

(* The nearest candidate is expanded, unless it is farther than all of a   *)
(* full heap of results.                                                   *)
Expand(g, q, s, ef, level, pass) ==
    IF s.cand = {} THEN s
    ELSE LET n == CHOOSE c \in s.cand : \A x \in s.cand : x = c \/ Nearer(q, c, x)
         IN  IF Cardinality(s.res) = ef /\ \A x \in s.res : Key(q, pos[n]) > Key(q, pos[x])
               THEN s
               ELSE FoldLeft(LAMBDA t, x : VisitNeighbour(q, t, x, ef, pass),
                             [s EXCEPT !.cand = @ \ {n}], Links(g, n, level))

(* search_layer: best-first search of one level from eps.  Every round     *)
(* pops a candidate that is never pushed again, so Count rounds are enough.*)
Begun(q, eps, ef, pass) ==
    FoldLeft(LAMBDA s, n : Visit(q, s, n, ef, pass), [visited |-> {}, cand |-> {}, res |-> {}], eps)

Searched(g, q, eps, ef, level, pass) ==
    FoldLeft(LAMBDA s, round : Expand(g, q, s, ef, level, pass), Begun(q, eps, ef, pass), Rounds)

SearchLayer(g, q, eps, ef, level, pass) ==
    IF ef = 0 THEN <<>> ELSE Sorted(q, Searched(g, q, eps, ef, level, pass).res)

(* select_heuristic: of the candidates in order, those nearer to the       *)
(* centre than to any one selected, then the discarded ones up to m.       *)
Choose(q, s, c, m) ==
    IF Len(s.sel) = m THEN s
    ELSE IF \A i \in DOMAIN s.sel : Key(q, pos[c]) < Key(pos[c], pos[s.sel[i]])
      THEN [s EXCEPT !.sel = Append(@, c)]
      ELSE [s EXCEPT !.discarded = Append(@, c)]

Chosen(q, cands, m) ==
    FoldLeft(LAMBDA s, c : Choose(q, s, c, m), [sel |-> <<>>, discarded |-> <<>>], cands)

SelectHeuristic(q, cands, m) ==
    LET s == Chosen(q, cands, m)
        room == Min({m - Len(s.sel), Len(s.discarded)})
    IN  IF Len(cands) <= m THEN cands ELSE s.sel \o SubSeq(s.discarded, 1, room)

-----------------------------------------------------------------------------
(* HnswGraph::insert *)

(* Mutation: a link too many before the links are chosen again. *)
LinkBackOffByOne(g, n, level, idx) ==
    LET pool == Append(Links(g, n, level), idx)
    IN  IF Len(Links(g, n, level)) <= MaxLinks(level) THEN PushLink(g, n, level, idx)
        ELSE SetLinks(g, n, level, SelectHeuristic(pos[n], Sorted(pos[n], ToSet(pool)), MaxLinks(level)))

(* sort_by: the stable order of their distance from n. *)
ByDistance(n, pool) ==
    LET K(i) == Key(pos[n], pos[pool[i]])
        order == Listed(DOMAIN pool, LAMBDA i, j : K(i) < K(j) \/ (K(i) = K(j) /\ i < j))
    IN  [i \in DOMAIN pool |-> pool[order[i]]]

(* The link back from a neighbour n: appended, or n's links chosen again   *)
(* with idx among them.                                                    *)
LinkBack(g, n, level, idx) ==
    LET pool == Append(Links(g, n, level), idx)
    IN  IF Len(pool) <= MaxLinks(level) THEN PushLink(g, n, level, idx)
        ELSE SetLinks(g, n, level, SelectHeuristic(pos[n], ByDistance(n, pool), MaxLinks(level)))

(* Mutation: the candidates come from the level below. *)
ConnectLayerBelow(s, idx, level) ==
    LET cands == SearchLayer(s.g, pos[idx], s.eps, Max({EfConstruct, 1}), Max({level - 1, 0}), Node)
        selected == SelectHeuristic(pos[idx], cands, MaxLinks(level))
    IN  [g |-> FoldLeft(LAMBDA g, n : LinkBack(g, n, level, idx),
                        SetLinks(s.g, idx, level, selected), selected),
         eps |-> cands]

(* One level of the insertion of idx; s is the graph and the entry points. *)
ConnectLayer(s, idx, level) ==
    LET cands == SearchLayer(s.g, pos[idx], s.eps, Max({EfConstruct, 1}), level, Node)
        selected == SelectHeuristic(pos[idx], cands, MaxLinks(level))
    IN  [g |-> FoldLeft(LAMBDA g, n : LinkBack(g, n, level, idx),
                        SetLinks(s.g, idx, level, selected), selected),
         eps |-> cands]

Down(from, to) == [i \in 1 .. Max({0, from - to + 1}) |-> from - i + 1]

FirstInserted(g, idx, level) ==
    [g EXCEPT !.inserted = idx + 1, !.levels[idx] = level, !.entry = idx, !.maxLevel = level,
              !.upper[idx] = Resized(@, level)]

(* Mutation: the levels above maxLevel are linked too. *)
InsertedAcrossLevels(g, idx, level) ==
    LET leveled == [g EXCEPT !.inserted = idx + 1, !.levels[idx] = level]
        ep == FoldLeft(LAMBDA e, cur : GreedyDescend(leveled, pos[idx], e, cur), g.entry,
                       Down(g.maxLevel, level + 1))
        linked == FoldLeft(LAMBDA s, cur : ConnectLayer(s, idx, cur),
                           [g |-> leveled, eps |-> <<ep>>], Down(level, 0)).g
    IN  IF level > g.maxLevel THEN [linked EXCEPT !.entry = idx, !.maxLevel = level] ELSE linked

Inserted(g, idx, level) ==
    LET leveled == [g EXCEPT !.inserted = idx + 1, !.levels[idx] = level]
        ep == FoldLeft(LAMBDA e, cur : GreedyDescend(leveled, pos[idx], e, cur), g.entry,
                       Down(g.maxLevel, level + 1))
        linked == FoldLeft(LAMBDA s, cur : ConnectLayer(s, idx, cur),
                           [g |-> leveled, eps |-> <<ep>>], Down(Min({level, g.maxLevel}), 0)).g
    IN  IF level > g.maxLevel THEN [linked EXCEPT !.entry = idx, !.maxLevel = level] ELSE linked

Insert(level) ==
    LET idx == graph.inserted
    IN  /\ idx < Count
        /\ graph' = IF graph.entry = EMPTY THEN FirstInserted(graph, idx, level)
                    ELSE Inserted(graph, idx, level)
        /\ UNCHANGED pos

Init == pos \in [Node -> Coord] /\ graph = EmptyGraph

Next == \E level \in 0 .. MaxLevel : Insert(level)

Spec == Init /\ [][Next]_vars

-----------------------------------------------------------------------------
(* HnswIndex::query *)

LayerZeroEntry(g, q) ==
    FoldLeft(LAMBDA e, level : GreedyDescend(g, q, e, level), g.entry, Down(g.maxLevel, 1))

Search(g, q, ep, ef, pass) == [ef |-> ef, results |-> SearchLayer(g, q, <<ep>>, ef, 0, pass)]

(* Another search, twice as wide, as long as there are too few results.    *)
Retry(g, q, ep, s, k, cap, pass) ==
    IF Len(s.results) < k /\ s.ef < cap THEN Search(g, q, ep, Min({s.ef * 2, cap}), pass) ELSE s

(* The search that a query ends with, when it starts with one of width ef. *)
SearchedFrom(g, q, k, ef, cap, pass) ==
    LET ep == LayerZeroEntry(g, q)
    IN  FoldLeft(LAMBDA s, try : Retry(g, q, ep, s, k, cap, pass), Search(g, q, ep, ef, pass),
                 <<1, 2, 3>>)

(* Mutations: the first search is as wide as the answer; it is not made    *)
(* wide enough for the answer.                                             *)
QueryNarrow(g, q, k, efSearch, pass) ==
    LET results == SearchLayer(g, q, <<LayerZeroEntry(g, q)>>, k, 0, pass)
    IN  IF k = 0 \/ g.entry = EMPTY THEN <<>> ELSE SubSeq(results, 1, Min({k, Len(results)}))

QueryIgnoresK(g, q, k, efSearch, pass) ==
    LET results == SearchedFrom(g, q, k, efSearch, Max({efSearch, k, Count}), pass).results
    IN  IF k = 0 \/ g.entry = EMPTY THEN <<>> ELSE SubSeq(results, 1, Min({k, Len(results)}))

Query(g, q, k, efSearch, pass) ==
    LET results == SearchedFrom(g, q, k, Max({efSearch, k}), Max({efSearch, k, Count}), pass).results
    IN  IF k = 0 \/ g.entry = EMPTY THEN <<>> ELSE SubSeq(results, 1, Min({k, Len(results)}))
=============================================================================
