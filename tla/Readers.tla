------------------------------ MODULE Readers -------------------------------
(***************************************************************************)
(* What readers of a collection are given while it is written: the pages   *)
(* of Collection::scroll and the hits of Collection::query (engine.rs) over*)
(* the exact scan of index/flat.rs.                                        *)
(*                                                                         *)
(* Segments keep the order of their rows here, which scroll and the ties   *)
(* of query depend on.  Each action is one call of the core; a reader holds*)
(* the view's lock for the whole of a call, but for a query by id, which   *)
(* takes it twice: the vector it searches with is that of an earlier view. *)
(* A vector is a place on a line and stands for the payload too: a filter  *)
(* is a set of pairs of an id and a vector.                                *)
(***************************************************************************)
EXTENDS Integers, Sequences, FiniteSets, SequencesExt, FiniteSetsExt, Listing

CONSTANTS
    Id,
    Vector,
    Filter,       \* filters of scrolls and queries
    Limit,        \* page limits of scrolls
    Target,       \* vectors searched with
    TopK,         \* top_k of queries
    MaxSegments,  \* bound on the immutable segments
    MaxRows,      \* bound on the rows of all segments, dead ones included
    RatioNum,     \* REBUILD_TOMBSTONE_RATIO = RatioNum / RatioDen
    RatioDen

ASSUME ReadersAssumption ==
    /\ Vector \subseteq Int
    /\ Filter \subseteq SUBSET (Id \X Vector)
    /\ Limit \subseteq Nat
    /\ Target \subseteq Int
    /\ TopK \subseteq Nat \ {0}
    /\ MaxSegments \in Nat
    /\ MaxRows \in Nat
    /\ RatioNum \in Nat /\ RatioDen \in Nat \ {0}

NoOffset == -1   \* next_offset: None
Idle == -2       \* no scroll in progress

VARIABLES
    mutable,     \* rows of the mutable segment, in the order of first insertion
    immutables,  \* rows of the immutable segments, the oldest first
    filter,      \* the scroll in progress: its filter,
    offset,      \* the offset of its next page,
    got          \* and the ids its pages have shown

view == <<mutable, immutables>>
scroll == <<filter, offset, got>>
vars == <<mutable, immutables, filter, offset, got>>

Row == [id : Id, vector : Vector, dead : BOOLEAN]

Passes(row, f) == <<row.id, row.vector>> \in f

-----------------------------------------------------------------------------
(* Segments with their order. *)

Has(seg, id) == \E i \in DOMAIN seg : seg[i].id = id
Live(seg) == {i \in DOMAIN seg : ~seg[i].dead}
Alive(seg, id) == \E i \in Live(seg) : seg[i].id = id
Kill(seg, id) == [i \in DOMAIN seg |-> IF seg[i].id = id THEN [seg[i] EXCEPT !.dead = TRUE] ELSE seg[i]]

(* Mutation: a row that is there is not overwritten. *)
PutAppends(seg, id, vector) == Append(seg, [id |-> id, vector |-> vector, dead |-> FALSE])

(* MutableSegment::upsert overwrites in place. *)
Put(seg, id, vector) ==
    LET row == [id |-> id, vector |-> vector, dead |-> FALSE]
    IN  IF Has(seg, id) THEN [i \in DOMAIN seg |-> IF seg[i].id = id THEN row ELSE seg[i]]
                        ELSE Append(seg, row)

(* rebuild_segment_locked *)
Rebuild(segs, i) ==
    IF i \notin DOMAIN segs THEN segs
    ELSE LET kept == Ascending(Live(segs[i]))
         IN  IF kept = <<>> THEN RemoveAt(segs, i)
             ELSE [segs EXCEPT ![i] = [k \in DOMAIN kept |-> segs[i][kept[k]]]]

Degraded(segs) ==
    {i \in DOMAIN segs : (Len(segs[i]) - Cardinality(Live(segs[i]))) * RatioDen > Len(segs[i]) * RatioNum}

(* A place is a segment and a row of it; a flush moves no row to another.  *)
Segs == Append(immutables, mutable)
LivePlaces == UNION {{s} \X Live(Segs[s]) : s \in DOMAIN Segs}
RowAt(p) == Segs[p[1]][p[2]]

Due(f) == {p \in LivePlaces : Passes(RowAt(p), f)}

-----------------------------------------------------------------------------
(* scroll *)

(* Mutation: the cursor counts the points of the page only. *)
VisitCountsShown(s, row, from, limit) ==
    IF s.next # NoOffset THEN s
    ELSE IF Len(s.points) = limit THEN [s EXCEPT !.next = s.cursor]
    ELSE IF s.cursor < from THEN [s EXCEPT !.cursor = @ + 1]
    ELSE [s EXCEPT !.points = Append(@, row.id)]

(* The closure `visit`: once next_offset is set the scan is over. *)
Visit(s, row, from, limit) ==
    IF s.next # NoOffset THEN s
    ELSE IF Len(s.points) = limit THEN [s EXCEPT !.next = s.cursor]
    ELSE [points |-> IF s.cursor >= from THEN Append(s.points, row.id) ELSE s.points,
          cursor |-> s.cursor + 1, next |-> NoOffset]

(* The mutable segment, then the immutable ones from the newest. *)
ScannedBefore(p, q) == p[1] > q[1] \/ (p[1] = q[1] /\ p[2] < q[2])
Shown(f) == Listed(Due(f), ScannedBefore)

Scrolled(f, from, limit) ==
    LET shown == Shown(f)
        scan[n \in 0 .. Len(shown)] ==
          IF n = 0 THEN [points |-> <<>>, cursor |-> 0, next |-> NoOffset]
          ELSE Visit(scan[n - 1], RowAt(shown[n]), from, Max({limit, 1}))
    IN  scan[Len(shown)]

-----------------------------------------------------------------------------
(* query *)

(* The greater the better: flat::search negates squared distances. *)
Score(q, row) == -((q - row.vector) * (q - row.vector))

(* flat::search: a heap of the k best rows so far, its worst on top; the   *)
(* worst of equal scores is the first.                                     *)
Worst(h, seg, q) ==
    CHOOSE w \in h : \A x \in h : \/ Score(q, seg[w]) < Score(q, seg[x])
                                  \/ Score(q, seg[w]) = Score(q, seg[x]) /\ w <= x

Consider(h, i, seg, q, pass, k) ==
    IF seg[i].dead \/ ~Passes(seg[i], pass) THEN h
    ELSE IF Cardinality(h) < k THEN h \cup {i}
    ELSE IF Score(q, seg[i]) > Score(q, seg[Worst(h, seg, q)])
      THEN (h \ {Worst(h, seg, q)}) \cup {i}
      ELSE h

FlatSearch(seg, q, pass, k) ==
    LET heap[n \in 0 .. Len(seg)] ==
          IF n = 0 THEN {} ELSE Consider(heap[n - 1], n, seg, q, pass, k)
    IN  heap[Len(seg)]

Hits(q, pass, k) == UNION {{s} \X FlatSearch(Segs[s], q, pass, k) : s \in DOMAIN Segs}

(* The rank of a segment: the mutable one, then the oldest and so on. *)
Rank(s) == IF s = Len(Segs) THEN 0 ELSE s

RanksBefore(a, b, q) ==
    \/ Score(q, RowAt(a)) > Score(q, RowAt(b))
    \/ /\ Score(q, RowAt(a)) = Score(q, RowAt(b))
       /\ Rank(a[1]) < Rank(b[1]) \/ (Rank(a[1]) = Rank(b[1]) /\ a[2] < b[2])

(* Mutation: a query by id asks for one point more and finds itself. *)
QueryFindsItself(q, exclude, pass, k, threshold) ==
    LET Before(a, b) == RanksBefore(a, b, q)
        sorted == Listed(Hits(q, pass, k + Cardinality(exclude)), Before)
        top == {sorted[n] : n \in 1 .. Min({k, Len(sorted)})}
        passing == Listed({p \in top : Score(q, RowAt(p)) >= threshold}, Before)
    IN  [n \in DOMAIN passing |-> RowAt(passing[n])]

(* Sorted, cut to top_k, and then those that pass the threshold.  A query  *)
(* by id excludes that id before the cut.                                  *)
Query(q, exclude, pass, k, threshold) ==
    LET Before(a, b) == RanksBefore(a, b, q)
        others == {p \in pass : p[1] \notin exclude}
        sorted == Listed(Hits(q, others, k), Before)
        top == {sorted[n] : n \in 1 .. Min({k, Len(sorted)})}
        passing == Listed({p \in top : Score(q, RowAt(p)) >= threshold}, Before)
    IN  [n \in DOMAIN passing |-> RowAt(passing[n])]

-----------------------------------------------------------------------------

Init ==
    /\ mutable = <<>>
    /\ immutables = <<>>
    /\ filter = {}
    /\ offset = Idle
    /\ got = <<>>

(* upsert; an automatic flush that follows it is a Flush. *)
Upsert(id, vector) ==
    /\ Has(mutable, id) \/ Len(FlattenSeq(Segs)) < MaxRows
    /\ mutable' = Put(mutable, id, vector)
    /\ immutables' = IF Has(mutable, id) THEN immutables
                     ELSE [i \in DOMAIN immutables |-> Kill(immutables[i], id)]
    /\ UNCHANGED scroll

(* The degraded segments are rebuilt at the positions they had together,   *)
(* although one without live rows is removed.                              *)
RebuildAll(segs) ==
    LET positions == Ascending(Degraded(segs))
        rebuilt[n \in 0 .. Len(positions)] ==
          IF n = 0 THEN segs ELSE Rebuild(rebuilt[n - 1], positions[n])
    IN  rebuilt[Len(positions)]

Delete(id) ==
    LET holders == {i \in DOMAIN immutables : Alive(immutables[i], id)}
        killed == IF Alive(mutable, id) \/ holders = {} THEN immutables
                  ELSE [immutables EXCEPT ![Min(holders)] = Kill(@, id)]
    IN  /\ mutable' = Kill(mutable, id)
        /\ immutables' = RebuildAll(killed)
        /\ UNCHANGED scroll

Flush ==
    /\ mutable # <<>>
    /\ Len(immutables) < MaxSegments
    /\ immutables' = Append(immutables, mutable)
    /\ mutable' = <<>>
    /\ UNCHANGED scroll

(* compact upserts every live row into an empty segment, the oldest first. *)
InsertedBefore(p, q) == p[1] < q[1] \/ (p[1] = q[1] /\ p[2] < q[2])

Merged ==
    LET rows == Listed(LivePlaces, InsertedBefore)
        merged[n \in 0 .. Len(rows)] ==
          IF n = 0 THEN <<>> ELSE Put(merged[n - 1], RowAt(rows[n]).id, RowAt(rows[n]).vector)
    IN  merged[Len(rows)]

Compact ==
    /\ immutables' = IF Merged = <<>> THEN <<>> ELSE <<Merged>>
    /\ mutable' = <<>>
    /\ UNCHANGED scroll

(* A client scrolls through the collection, page by page. *)
StartScroll(f) ==
    /\ offset = Idle
    /\ filter' = f
    /\ offset' = 0
    /\ UNCHANGED <<view, got>>

Page(limit) ==
    /\ offset >= 0
    /\ LET s == Scrolled(filter, offset, limit)
       IN  got' = got \o s.points /\ offset' = s.next
    /\ UNCHANGED <<view, filter>>

EndScroll ==
    /\ offset = NoOffset
    /\ offset' = Idle
    /\ filter' = {}
    /\ got' = <<>>
    /\ UNCHANGED view

(* engine.rs:392 promises nothing of a scroll among writes, so clients     *)
(* write between scrolls.  Flushes come at any time.                       *)
Writes ==
    /\ offset = Idle
    /\ \/ \E id \in Id, vector \in Vector : Upsert(id, vector)
       \/ \E id \in Id : Delete(id)
       \/ Compact

Next ==
    \/ Writes
    \/ Flush
    \/ \E f \in Filter : StartScroll(f)
    \/ \E limit \in Limit : Page(limit)
    \/ EndScroll

Spec == Init /\ [][Next]_vars

-----------------------------------------------------------------------------
(* Properties. *)

IdsOf(rows) == [i \in DOMAIN rows |-> rows[i].id]

(* Types; a segment has one row per id, and all of them one live row.      *)
TypeOK ==
    /\ mutable \in Seq(Row)
    /\ immutables \in Seq(Seq(Row))
    /\ \A s \in DOMAIN Segs : IsInjective(IdsOf(Segs[s]))
    /\ \A p, q \in LivePlaces : RowAt(p).id = RowAt(q).id => p = q
    /\ filter \subseteq Id \X Vector
    /\ offset \in {Idle, NoOffset} \cup 0 .. Cardinality(LivePlaces)
    /\ got \in Seq(Id)

LiveRowsOf(pass) == {RowAt(p) : p \in Due(pass)}

(* engine.rs:392: the pages of a scroll together show every live point of  *)
(* the filter exactly once as long as nobody writes between them.  A flush *)
(* in between, which moves the points from the mutable segment to an       *)
(* immutable one, does not disturb them.  (A compaction, which writes no   *)
(* point either, would: it reverses the order of the segments.)            *)
ScrollIsStable ==
    offset = NoOffset =>
      IsInjective(got) /\ ToSet(got) = {r.id : r \in LiveRowsOf(filter)}

(* The answer to a query is right: the best k of the points that are due.  *)
IsBest(q, exclude, pass, k, threshold) ==
    LET hits == Query(q, exclude, pass, k, threshold)
        due == {r \in LiveRowsOf(pass) : Score(q, r) >= threshold /\ r.id \notin exclude}
    IN  /\ ToSet(hits) \subseteq due
        /\ \A i, j \in DOMAIN hits : i < j => /\ hits[i].id # hits[j].id
                                              /\ Score(q, hits[i]) >= Score(q, hits[j])
        /\ Len(hits) = Min({k, Cardinality(due)})
        /\ \A r \in due \ ToSet(hits), i \in DOMAIN hits : Score(q, hits[i]) >= Score(q, r)

Scores == {Score(q, [vector |-> v]) : q \in Target, v \in Vector}
Everything == Id \X Vector

(* The k best per segment, merged and cut to k, and the threshold last,    *)
(* are the k best live points of the filter among those that pass the      *)
(* threshold: each point once, with the vector it has now, and none missing*)
(* that is better than one returned.  A query by id has them for whatever  *)
(* vector the point had when the view was first locked, and without the    *)
(* point.  (A scroll in progress changes none of this.)                    *)
QueryReturnsTheBest ==
    offset = Idle =>
      \A q \in Target, k \in TopK, threshold \in Scores :
        /\ \A f \in Filter \cup {Everything} : IsBest(q, {}, f, k, threshold)
        /\ \A id \in Id : IsBest(q, {id}, Everything, k, threshold)
=============================================================================
