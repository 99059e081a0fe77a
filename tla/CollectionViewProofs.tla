------------------------ MODULE CollectionViewProofs ------------------------
(***************************************************************************)
(* What holds of CollectionView for every set of ids, rows and writers and *)
(* for every threshold: the type invariant, at most one live row per id,   *)
(* the staged segment is current, a full mutable segment is being flushed, *)
(* and the collection implements PointStore.  Then, of ApplyLoops: the     *)
(* loops over the list of a call compute the operators CollView states on  *)
(* unordered batches, for lists of any length with any duplicates, on every*)
(* view a collection can be in.                                            *)
(***************************************************************************)
EXTENDS ApplyLoops, CollViewLemmas

-----------------------------------------------------------------------------
(* The specification. *)

LEMMA InitInv == Init => Inv
  <1> SUFFICES ASSUME Init PROVE Inv
    OBVIOUS
  <1> USE DEF Init
  <1>1. view \in View /\ WellFormed(view)
    BY EmptyViewFacts
  <1>2. staged \in Segment
    BY EmptyMutableType, RebuildsAreSegments DEF NothingStaged
  <1>3. TypeOK
    BY <1>1, <1>2, NoWriterAssumption DEF TypeOK, PC
  <1> QED
    BY <1>1, <1>3 DEF Inv, StagedIsCurrent

(* What each step does to the view: it stays well-formed, and lookups      *)
(* change as one call of the store changes them, or not at all.            *)
LEMMA StepEffect ==
    ASSUME Inv, NEW w \in Writer, WriterStep(w)
    PROVE  /\ view' \in View
           /\ WellFormed(view')
           /\ PS!Next \/ LiveStore(view') = LiveStore(view)
  <1>0. view \in View /\ WellFormed(view)
    BY DEF Inv, TypeOK
  <1>1. ASSUME NEW batch \in Batch, Upsert(w, batch)
        PROVE  view' \in View /\ WellFormed(view') /\ PS!Next
    <2>1. view' = ApplyUpsert(view, batch)
      BY <1>1 DEF Upsert
    <2>2. batch \in PS!Store
      BY DEF Batch, Rows, OptRow, Row, OptPayload, PS!Store, PS!Row, PS!OptPayload
    <2>3. PS!Upsert(batch)
      BY <1>0, <2>1, UpsertEffect DEF PS!Upsert, PS!AfterUpsert, AfterUpsert
    <2> QED
      BY <1>0, <2>1, <2>2, <2>3, ApplyUpsertType, UpsertEffect DEF PS!Next
  <1>2. ASSUME NEW ids \in SUBSET Id, Delete(w, ids)
        PROVE  view' \in View /\ WellFormed(view') /\ PS!Next
    <2>1. view' = ApplyDelete(view, ids)
      BY <1>2 DEF Delete
    <2>2. PS!Delete(ids)
      BY <1>0, <2>1, DeleteEffect DEF PS!Delete, PS!AfterDelete, AfterDelete
    <2> QED
      BY <1>0, <2>1, <2>2, ApplyDeleteType, DeleteEffect DEF PS!Next
  <1>3. ASSUME RebuildSegment(w)
        PROVE  view' \in View /\ WellFormed(view') /\ LiveStore(view') = LiveStore(view)
    BY <1>0, <1>3, RebuildEffect DEF RebuildSegment
  <1>4. ASSUME NEW ids \in SUBSET Id, NEW payload \in OptPayload, PayloadOp(w, ids, payload)
        PROVE  view' \in View /\ WellFormed(view') /\ PS!Next
    <2>1. view' = ApplyPayload(view, ids, payload)
      BY <1>4 DEF PayloadOp
    <2>2. PS!SetPayload(ids, payload)
      BY <1>0, <2>1, PayloadEffect DEF PS!SetPayload, PS!AfterSetPayload, AfterSetPayload
    <2>3. payload \in PS!OptPayload
      BY DEF OptPayload, PS!OptPayload
    <2> QED
      BY <1>0, <2>1, <2>2, <2>3, ApplyPayloadType, PayloadEffect DEF PS!Next
  <1>5. ASSUME FlushSwap(w)
        PROVE  view' \in View /\ WellFormed(view') /\ LiveStore(view') = LiveStore(view)
    <2>1. staged = SegmentOf(view.mutable)
      BY <1>5 DEF FlushSwap, Inv, StagedIsCurrent
    <2> QED
      BY <1>0, <1>5, <2>1, FlushEffect DEF FlushSwap
  <1>6. ASSUME Compact(w)
        PROVE  view' \in View /\ WellFormed(view') /\ LiveStore(view') = LiveStore(view)
    BY <1>0, <1>6, CompactEffect DEF Compact
  <1>7. ASSUME FlushStage(w) \/ FlushNothing(w)
        PROVE  view' = view
    BY <1>7 DEF FlushStage, FlushNothing
  <1> QED
    BY <1>0, <1>1, <1>2, <1>3, <1>4, <1>5, <1>6, <1>7 DEF WriterStep

LEMMA RebuildListType ==
    ASSUME NEW v \in View
    PROVE  RebuildList(v) \in SUBSET (Nat \ {0})
  BY DEF RebuildList, View

(* The lock and the program counters. *)
LEMMA StepType ==
    ASSUME Inv, NEW w \in Writer, WriterStep(w)
    PROVE  TypeOK'
  <1> USE DEF Inv, TypeOK, Goto, Free, PC
  <1>0. view' \in View /\ NoWriter \notin Writer
    BY StepEffect, NoWriterAssumption
  <1>1. ASSUME NEW batch \in Batch, Upsert(w, batch) PROVE TypeOK'
    BY <1>0, <1>1 DEF Upsert
  <1>2. ASSUME NEW ids \in SUBSET Id, Delete(w, ids) PROVE TypeOK'
    <2>1. rebuild' \in SUBSET (Nat \ {0})
      BY <1>0, <1>2, RebuildListType DEF Delete
    <2>2. CASE rebuild' = {}
      BY <1>0, <1>2, <2>1, <2>2 DEF Delete
    <2>3. CASE rebuild' # {}
      BY <1>0, <1>2, <2>1, <2>3 DEF Delete
    <2> QED
      BY <2>2, <2>3
  <1>3. ASSUME RebuildSegment(w) PROVE TypeOK'
    <2>1. rebuild' \in SUBSET (Nat \ {0})
      BY <1>3 DEF RebuildSegment
    <2>2. CASE rebuild' = {}
      BY <1>0, <1>3, <2>1, <2>2 DEF RebuildSegment
    <2>3. CASE rebuild' # {}
      BY <1>0, <1>3, <2>1, <2>3 DEF RebuildSegment
    <2> QED
      BY <2>2, <2>3
  <1>4. ASSUME NEW ids \in SUBSET Id, NEW payload \in OptPayload, PayloadOp(w, ids, payload)
        PROVE  TypeOK'
    BY <1>0, <1>4 DEF PayloadOp
  <1>5. ASSUME FlushStage(w) PROVE TypeOK'
    <2>1. staged' \in Segment
      BY <1>5, RebuildsAreSegments DEF FlushStage, View
    <2> QED
      BY <1>0, <1>5, <2>1 DEF FlushStage
  <1>6. ASSUME FlushNothing(w) PROVE TypeOK'
    BY <1>0, <1>6 DEF FlushNothing
  <1>7. ASSUME FlushSwap(w) PROVE TypeOK'
    <2>1. staged' \in Segment
      BY <1>7, EmptyMutableType, RebuildsAreSegments DEF FlushSwap, NothingStaged
    <2> QED
      BY <1>0, <1>7, <2>1 DEF FlushSwap
  <1>8. ASSUME Compact(w) PROVE TypeOK'
    BY <1>0, <1>8 DEF Compact
  <1> QED
    BY <1>1, <1>2, <1>3, <1>4, <1>5, <1>6, <1>7, <1>8 DEF WriterStep

(* While a flush is between its two critical sections nobody else writes.  *)
LEMMA StepStaged ==
    ASSUME Inv, NEW w \in Writer, WriterStep(w)
    PROVE  StagedIsCurrent'
  <1> SUFFICES ASSUME NEW x \in Writer, pc'[x] = "swap"
               PROVE  staged' = SegmentOf(view'.mutable)
    BY DEF StagedIsCurrent
  <1> USE DEF Inv, TypeOK, Goto, Free
  <1>0. pc[x] = "swap" => writeMu = x /\ staged = SegmentOf(view.mutable)
    BY DEF StagedIsCurrent
  <1>1. ASSUME FlushStage(w) PROVE staged' = SegmentOf(view'.mutable)
    BY <1>1 DEF FlushStage
  <1>2. ASSUME NEW batch \in Batch, Upsert(w, batch) PROVE FALSE
    BY <1>0, <1>2, NoWriterAssumption DEF Upsert
  <1>3. ASSUME NEW ids \in SUBSET Id, Delete(w, ids) PROVE FALSE
    BY <1>0, <1>3, NoWriterAssumption DEF Delete
  <1>4. ASSUME RebuildSegment(w) PROVE FALSE
    BY <1>0, <1>4 DEF RebuildSegment
  <1>5. ASSUME NEW ids \in SUBSET Id, NEW payload \in OptPayload, PayloadOp(w, ids, payload)
        PROVE  FALSE
    BY <1>0, <1>5, NoWriterAssumption DEF PayloadOp
  <1>6. ASSUME FlushNothing(w) PROVE FALSE
    BY <1>0, <1>6, NoWriterAssumption DEF FlushNothing
  <1>7. ASSUME FlushSwap(w) PROVE FALSE
    BY <1>0, <1>7 DEF FlushSwap
  <1>8. ASSUME Compact(w) PROVE FALSE
    BY <1>0, <1>8, NoWriterAssumption DEF Compact
  <1> QED
    BY <1>1, <1>2, <1>3, <1>4, <1>5, <1>6, <1>7, <1>8 DEF WriterStep

LEMMA StepInv == Inv /\ [Next]_vars => Inv'
  <1> SUFFICES ASSUME Inv, [Next]_vars PROVE Inv'
    OBVIOUS
  <1>1. ASSUME NEW w \in Writer, WriterStep(w) PROVE Inv'
    BY <1>1, StepEffect, StepType, StepStaged DEF Inv
  <1>2. ASSUME UNCHANGED vars PROVE Inv'
    BY <1>2 DEF vars, Inv, TypeOK, StagedIsCurrent
  <1> QED
    BY <1>1, <1>2 DEF Next

(* The inductive invariant holds of every behaviour: the types, the        *)
(* agreement of the lock with the program counters, well-formed views and  *)
(* the staged segment.                                                     *)
THEOREM Invariance == Spec => []Inv
  <1> QED
    BY InitInv, StepInv, PTL DEF Spec

(* Types, and the lock is held exactly inside a flush or a rebuild. *)
THEOREM TypeCorrect == Spec => []TypeOK
  <1>1. Inv => TypeOK
    BY DEF Inv
  <1> QED
    BY <1>1, Invariance, PTL

(* engine.rs:789: for any number of ids, writers and segments, an external *)
(* id never has two live rows in a collection.                             *)
THEOREM OneLiveRowPerId == Spec => []AtMostOneAlive
  <1>1. Inv => AtMostOneAlive
    BY DEF Inv, WellFormed, AtMostOneAlive, RowIds, Alive
  <1> QED
    BY <1>1, Invariance, PTL

(* A flush never swaps in a segment that misses what was written since it  *)
(* was staged.                                                             *)
THEOREM FlushSwapsWhatItStaged == Spec => []StagedIsCurrent
  <1>1. Inv => StagedIsCurrent
    BY DEF Inv
  <1> QED
    BY <1>1, Invariance, PTL

(* upsert, delete, set_payload and clear_payload are the atomic calls of   *)
(* the point store; flush, compact and the rebuilds a delete makes, at     *)
(* each of their steps, change nothing a reader can look up.               *)
THEOREM Refinement == Spec => ImplementsPointStore
  <1>1. Init => PS!Init
    BY EmptyViewFacts DEF Init, PS!Init, PS!Empty
  <1>2. Inv /\ [Next]_vars => [PS!Next]_(LiveStore(view))
    <2> SUFFICES ASSUME Inv, [Next]_vars PROVE PS!Next \/ LiveStore(view)' = LiveStore(view)
      OBVIOUS
    <2>1. ASSUME NEW w \in Writer, WriterStep(w)
          PROVE  PS!Next \/ LiveStore(view)' = LiveStore(view)
      BY <2>1, StepEffect
    <2>2. ASSUME UNCHANGED vars PROVE LiveStore(view)' = LiveStore(view)
      BY <2>2 DEF vars
    <2> QED
      BY <2>1, <2>2 DEF Next
  <1> QED
    BY <1>1, <1>2, Invariance, PTL DEF Spec, ImplementsPointStore, PS!Spec

(* Every step of a writer does to the store what its call says.            *)
LEMMA StepTakesEffect ==
    ASSUME Inv, NEW w \in Writer
    PROVE  TakesEffect(w)
  <1>0. view \in View /\ WellFormed(view)
    BY DEF Inv, TypeOK
  <1>1. ASSUME NEW batch \in Batch, Upsert(w, batch) PROVE PS!Upsert(batch)
    BY <1>0, <1>1, UpsertEffect DEF Upsert, PS!Upsert, PS!AfterUpsert, AfterUpsert
  <1>2. ASSUME NEW ids \in SUBSET Id, Delete(w, ids) PROVE PS!Delete(ids)
    BY <1>0, <1>2, DeleteEffect DEF Delete, PS!Delete, PS!AfterDelete, AfterDelete
  <1>3. ASSUME NEW ids \in SUBSET Id, NEW payload \in OptPayload, PayloadOp(w, ids, payload)
        PROVE  PS!SetPayload(ids, payload)
    BY <1>0, <1>3, PayloadEffect DEF PayloadOp, PS!SetPayload,
                                  PS!AfterSetPayload, AfterSetPayload
  <1>4. ASSUME RebuildSegment(w) PROVE UNCHANGED LiveStore(view)
    BY <1>0, <1>4, RebuildEffect DEF RebuildSegment
  <1>5. ASSUME FlushSwap(w) PROVE UNCHANGED LiveStore(view)
    <2>1. staged = SegmentOf(view.mutable)
      BY <1>5 DEF FlushSwap, Inv, StagedIsCurrent
    <2> QED
      BY <1>0, <1>5, <2>1, FlushEffect DEF FlushSwap
  <1>6. ASSUME Compact(w) PROVE UNCHANGED LiveStore(view)
    BY <1>0, <1>6, CompactEffect DEF Compact
  <1> QED
    BY <1>1, <1>2, <1>3, <1>4, <1>5, <1>6 DEF TakesEffect

(* No call is lost, cut short or applied to other ids: each one changes    *)
(* what readers see exactly as the map of points says, and maintenance     *)
(* changes nothing they see, in every history.                             *)
THEOREM EveryCallTakesEffect == Spec => CallsTakeEffect
  <1>1. Inv => \A w \in Writer : TakesEffect(w)
    BY StepTakesEffect
  <1>2. Inv /\ [Next]_vars => [\A w \in Writer : TakesEffect(w)]_vars
    BY <1>1
  <1> QED
    BY <1>2, Invariance, PTL DEF Spec, CallsTakeEffect

-----------------------------------------------------------------------------
(* Automatic flushes. *)

LEMMA EmptiedIsNotFull == ~(Total(EmptyMutable) >= AutoFlushPoints)
  <1>1. RowIds(EmptyMutable) = {}
    BY DEF EmptyMutable, RowIds
  <1>2. Cardinality({}) = 0
    BY FS_EmptySet
  <1> QED
    BY <1>1, <1>2, AutoFlushAssumption DEF Total

(* delete and the payload operations keep the rows of the mutable segment. *)
LEMMA SameRows ==
    ASSUME NEW m \in Mutable, NEW ids \in SUBSET Id, NEW payload \in OptPayload
    PROVE  /\ Total(MutableDelete(m, ids)) = Total(m)
           /\ Total(MutableSetPayload(m, ids, payload)) = Total(m)
  <1>1. RowIds(MutableDelete(m, ids)) = RowIds(m)
    BY DEF MutableDelete, RowIds, Mutable
  <1>2. \A id \in Id : m.rows[id] # NoRow => [m.rows[id] EXCEPT !.payload = payload] # NoRow
    BY NoRowAssumption DEF Mutable, Rows, OptRow, Row
  <1>3. \A id \in Id : MutableSetPayload(m, ids, payload).rows[id] # NoRow <=> m.rows[id] # NoRow
    BY <1>2 DEF MutableSetPayload, Mutable, Alive
  <1>4. RowIds(MutableSetPayload(m, ids, payload)) = RowIds(m)
    BY <1>3 DEF RowIds
  <1> QED
    BY <1>1, <1>4 DEF Total

LEMMA StepOverfull ==
    ASSUME Inv, OverfullIsBeingFlushed, NEW w \in Writer, WriterStep(w)
    PROVE  OverfullIsBeingFlushed'
  <1> SUFFICES ASSUME Total(view'.mutable) >= AutoFlushPoints
               PROVE  \E x \in Writer : pc'[x] \in {"due", "swap"}
    BY DEF OverfullIsBeingFlushed
  <1> DEFINE SomeoneFlushes == \E x \in Writer : pc'[x] \in {"due", "swap"}
  <1>0. view \in View /\ view.mutable \in Mutable /\ pc \in [Writer -> PC]
    BY DEF Inv, TypeOK, View
  <1>1. ASSUME NEW batch \in Batch, Upsert(w, batch) PROVE SomeoneFlushes
    BY <1>0, <1>1 DEF Upsert, Goto
  <1>2. ASSUME NEW ids \in SUBSET Id, Delete(w, ids) PROVE SomeoneFlushes
    <2>1. Total(view'.mutable) = Total(view.mutable)
      BY <1>0, <1>2, SameRows DEF Delete, ApplyDelete, OptPayload
    <2>2. PICK x \in Writer : pc[x] \in {"due", "swap"}
      BY <2>1 DEF OverfullIsBeingFlushed
    <2>3. x # w /\ pc'[x] = pc[x]
      BY <1>0, <1>2, <2>2 DEF Delete, Goto, Free
    <2> QED
      BY <2>2, <2>3
  <1>3. ASSUME RebuildSegment(w) PROVE SomeoneFlushes
    <2>1. view'.mutable = view.mutable
      BY <1>0, <1>3, RebuildEffect DEF RebuildSegment, Inv
    <2>2. PICK x \in Writer : pc[x] \in {"due", "swap"}
      BY <2>1 DEF OverfullIsBeingFlushed
    <2>3. x # w /\ pc'[x] = pc[x]
      BY <1>0, <1>3, <2>2 DEF RebuildSegment, Goto
    <2> QED
      BY <2>2, <2>3
  <1>4. ASSUME NEW ids \in SUBSET Id, NEW payload \in OptPayload, PayloadOp(w, ids, payload)
        PROVE  SomeoneFlushes
    <2>1. Total(view'.mutable) = Total(view.mutable)
      BY <1>0, <1>4, SameRows DEF PayloadOp, ApplyPayload
    <2> QED
      BY <1>4, <2>1 DEF PayloadOp, OverfullIsBeingFlushed
  <1>5. ASSUME FlushStage(w) PROVE SomeoneFlushes
    BY <1>0, <1>5 DEF FlushStage, Goto
  <1>6. ASSUME FlushNothing(w) PROVE FALSE
    <2>1. Total(view.mutable) = Cardinality({}) /\ view' = view
      BY <1>6 DEF FlushNothing, IsEmpty, Total
    <2> QED
      BY <2>1, FS_EmptySet, AutoFlushAssumption
  <1>7. ASSUME FlushSwap(w) PROVE FALSE
    <2>1. view'.mutable = EmptyMutable
      BY <1>7 DEF FlushSwap, ApplyFlush
    <2> QED
      BY <2>1, EmptiedIsNotFull
  <1>8. ASSUME Compact(w) PROVE FALSE
    <2>1. view'.mutable = EmptyMutable
      BY <1>8 DEF Compact, ApplyCompact
    <2> QED
      BY <2>1, EmptiedIsNotFull
  <1> QED
    BY <1>1, <1>2, <1>3, <1>4, <1>5, <1>6, <1>7, <1>8 DEF WriterStep

(* With any number of writers a full mutable segment always has a writer   *)
(* on its way to flush it, although upsert gives up write_mu first.        *)
THEOREM FullSegmentsAreFlushed == Spec => []OverfullIsBeingFlushed
  <1>1. Init => OverfullIsBeingFlushed
    <2>1. Init => view.mutable = EmptyMutable
      BY DEF Init, EmptyView
    <2> QED
      BY <2>1, EmptiedIsNotFull DEF OverfullIsBeingFlushed
  <1>2. Inv /\ OverfullIsBeingFlushed /\ [Next]_vars => OverfullIsBeingFlushed'
    <2> SUFFICES ASSUME Inv, OverfullIsBeingFlushed, [Next]_vars PROVE OverfullIsBeingFlushed'
      OBVIOUS
    <2>1. ASSUME NEW w \in Writer, WriterStep(w) PROVE OverfullIsBeingFlushed'
      BY <2>1, StepOverfull
    <2>2. ASSUME UNCHANGED vars PROVE OverfullIsBeingFlushed'
      BY <2>2 DEF vars, OverfullIsBeingFlushed
    <2> QED
      BY <2>1, <2>2 DEF Next
  <1> QED
    BY <1>1, <1>2, Invariance, PTL DEF Spec

-----------------------------------------------------------------------------
(* Counting. *)

LEMMA StepTight ==
    ASSUME Inv, Tight(view), NEW w \in Writer, WriterStep(w)
    PROVE  Tight(view')
  <1>0. view \in View
    BY DEF Inv, TypeOK
  <1>1. ASSUME NEW batch \in Batch, Upsert(w, batch) PROVE Tight(view')
    BY <1>0, <1>1, UpsertKeepsTight DEF Upsert
  <1>2. ASSUME NEW ids \in SUBSET Id, Delete(w, ids) PROVE Tight(view')
    BY <1>0, <1>2, DeleteKeepsTight DEF Delete
  <1>3. ASSUME RebuildSegment(w) PROVE Tight(view')
    BY <1>0, <1>3, RebuildKeepsTight DEF RebuildSegment
  <1>4. ASSUME NEW ids \in SUBSET Id, NEW payload \in OptPayload, PayloadOp(w, ids, payload)
        PROVE  Tight(view')
    BY <1>0, <1>4, PayloadKeepsTight DEF PayloadOp
  <1>5. ASSUME FlushSwap(w) PROVE Tight(view')
    <2>1. staged = SegmentOf(view.mutable)
      BY <1>5 DEF FlushSwap, Inv, StagedIsCurrent
    <2> QED
      BY <1>0, <1>5, <2>1, FlushKeepsTight DEF FlushSwap
  <1>6. ASSUME Compact(w) PROVE Tight(view')
    BY <1>6, CompactKeepsTight DEF Compact
  <1>7. ASSUME FlushStage(w) \/ FlushNothing(w) PROVE Tight(view')
    BY <1>7 DEF FlushStage, FlushNothing
  <1> QED
    BY <1>1, <1>2, <1>3, <1>4, <1>5, <1>6, <1>7 DEF WriterStep

(* A tombstone is always that of a row of its segment. *)
LEMMA TombstonesAreRows == Spec => []Tight(view)
  <1>1. Init => Tight(view)
    BY EmptyViewIsTight DEF Init
  <1>2. Inv /\ Tight(view) /\ [Next]_vars => Tight(view)'
    <2> SUFFICES ASSUME Inv, Tight(view), [Next]_vars PROVE Tight(view')
      OBVIOUS
    <2>1. ASSUME NEW w \in Writer, WriterStep(w) PROVE Tight(view')
      BY <2>1, StepTight
    <2>2. ASSUME UNCHANGED vars PROVE Tight(view')
      BY <2>2 DEF vars
    <2> QED
      BY <2>1, <2>2 DEF Next
  <1> QED
    BY <1>1, <1>2, Invariance, PTL DEF Spec

(* collection.rs, count: the sum over the segments, taken at any moment of *)
(* any history, is the number of ids a get finds.  It needs both that no   *)
(* id has two live rows and that no tombstone is counted without a row.    *)
THEOREM CountIsExact == Spec => []CountIsLive
  <1>1. Inv /\ Tight(view) => CountIsLive
    BY CountEffect DEF Inv, TypeOK, CountIsLive
  <1> QED
    BY <1>1, Invariance, TombstonesAreRows, PTL

-----------------------------------------------------------------------------
(* ApplyLoops.                                                             *)
(*                                                                         *)
(* FoldLeft is the value at the whole domain of a function on the sets of  *)
(* positions; one unfolding of it, for a body h given as a function.       *)
FoldStep(h, base, seq, F) ==
    [s \in SUBSET DOMAIN seq |->
       IF s = {} THEN base ELSE h[<<F[s \ {Max(s)}], seq[Max(s)]>>]]

IsBody(h, S, T) == h \in [T \X S -> T]
IsFold(F, seq, T) == F \in [SUBSET DOMAIN seq -> T]

LEMMA LastOf ==
    ASSUME NEW n \in Nat, NEW s \in SUBSET (1..n), s # {}
    PROVE  Max(s) \in s
  BY MaxIsGreatest

(* Such a function exists: take one that unfolds on the sets of up to n    *)
(* positions; its unfolding does on those of n + 1.                        *)
LEMMA FoldExists ==
    ASSUME NEW S, NEW T, NEW base \in T, NEW h, IsBody(h, S, T), NEW seq \in Seq(S)
    PROVE  \E F : IsFold(F, seq, T) /\ F = FoldStep(h, base, seq, F)
  <1> DEFINE D == DOMAIN seq
             Fold == [SUBSET D -> T]
             Unfolds(F, n) == \A s \in SUBSET D :
                                Cardinality(s) <= n => F[s] = FoldStep(h, base, seq, F)[s]
             N == {n \in Nat : \E F \in Fold : Unfolds(F, n)}
  <1>1. PICK len \in Nat : D = 1..len /\ \A i \in D : seq[i] \in S
    BY LenProperties, ElementOfSeq
  <1>2. \A s \in SUBSET D : IsFiniteSet(s) /\ Cardinality(s) \in Nat
    <2>1. IsFiniteSet(D)
      BY <1>1, FS_Interval
    <2> QED
      BY <2>1, FS_Subset, FS_CardinalityType
  <1>3. \A s \in SUBSET D : s # {} => Max(s) \in s
    BY <1>1, LastOf
  <1>4. ASSUME NEW F \in Fold PROVE FoldStep(h, base, seq, F) \in Fold
    <2>1. ASSUME NEW s \in SUBSET D, s # {} PROVE h[<<F[s \ {Max(s)}], seq[Max(s)]>>] \in T
      <3>1. F[s \ {Max(s)}] \in T /\ seq[Max(s)] \in S
        BY <1>1, <1>3, <2>1
      <3> QED
        BY <3>1 DEF IsBody
    <2> QED
      BY <2>1 DEF FoldStep
  <1>5. ASSUME NEW n \in Nat, NEW F \in Fold, Unfolds(F, n)
        PROVE  Unfolds(FoldStep(h, base, seq, F), n + 1)
    <2> DEFINE G == FoldStep(h, base, seq, F)
    <2> SUFFICES ASSUME NEW s \in SUBSET D, Cardinality(s) <= n + 1
                 PROVE  G[s] = FoldStep(h, base, seq, G)[s]
      OBVIOUS
    <2>1. CASE s = {}
      BY <2>1 DEF FoldStep
    <2>2. CASE s # {}
      <3>1. Max(s) \in s
        BY <1>3, <2>2
      <3>2. Cardinality(s \ {Max(s)}) = Cardinality(s) - 1
        BY <1>2, <3>1, FS_RemoveElement
      <3>3. Cardinality(s \ {Max(s)}) <= n /\ s \ {Max(s)} \in SUBSET D
        BY <1>2, <3>2
      <3>4. F[s \ {Max(s)}] = G[s \ {Max(s)}]
        BY <1>5, <3>3
      <3>5. G[s] = h[<<F[s \ {Max(s)}], seq[Max(s)]>>]
        BY <2>2 DEF FoldStep
      <3> HIDE DEF G
      <3>6. FoldStep(h, base, seq, G)[s] = h[<<G[s \ {Max(s)}], seq[Max(s)]>>]
        BY <2>2 DEF FoldStep
      <3> QED
        BY <3>4, <3>5, <3>6
    <2> QED
      BY <2>1, <2>2
  <1>6. 0 \in N
    <2> DEFINE F == [s \in SUBSET D |-> base]
    <2>1. F \in Fold
      OBVIOUS
    <2>2. Unfolds(F, 0)
      <3> SUFFICES ASSUME NEW s \in SUBSET D, Cardinality(s) <= 0
                   PROVE  F[s] = FoldStep(h, base, seq, F)[s]
        OBVIOUS
      <3>1. s = {}
        BY <1>2, FS_EmptySet
      <3> QED
        BY <3>1 DEF FoldStep
    <2> HIDE DEF F, Unfolds
    <2> QED
      BY <2>1, <2>2
  <1>7. Cardinality(D) \in N => \E F \in Fold : Unfolds(F, Cardinality(D))
    OBVIOUS
  <1>8. \A n \in N : n + 1 \in N
    <2> HIDE DEF Unfolds, Fold
    <2> QED
      BY <1>4, <1>5
  <1>9. N \in SUBSET Nat
    OBVIOUS
  <1>10. Cardinality(D) \in Nat
    BY <1>2
  <1> HIDE DEF N
  <1>11. PICK F \in Fold : Unfolds(F, Cardinality(D))
    <2>1. N = Nat
      BY <1>6, <1>8, <1>9, InductionOnSet
    <2> QED
      BY <1>7, <1>10, <2>1
  <1>12. \A s \in SUBSET D : F[s] = FoldStep(h, base, seq, F)[s]
    <2>1. \A s \in SUBSET D : Cardinality(s) <= Cardinality(D)
      <3>1. IsFiniteSet(D)
        BY <1>2
      <3> QED
        BY <3>1, FS_Subset
    <2> QED
      BY <1>11, <2>1
  <1>13. F = FoldStep(h, base, seq, F)
    <2>1. F = [s \in SUBSET D |-> F[s]]
      OBVIOUS
    <2> QED
      BY <1>12, <2>1 DEF FoldStep
  <1> QED
    BY <1>13 DEF IsFold

LEMMA PrefixFacts ==
    ASSUME NEW k \in Nat
    PROVE  /\ 1..(k + 1) # {}
           /\ Max(1..(k + 1)) = k + 1
           /\ (1..(k + 1)) \ {k + 1} = 1..k
  <1>1. k + 1 \in 1..(k + 1) /\ \A t \in 1..(k + 1) : t <= k + 1
    OBVIOUS
  <1>2. Max(1..(k + 1)) = k + 1
    BY <1>1, MaxIs
  <1> QED
    BY <1>1, <1>2

-----------------------------------------------------------------------------
(* Upserts. *)

LEMMA SingleType ==
    ASSUME NEW id \in Id, NEW row \in Row
    PROVE  Single(id, row) \in Batch /\ BatchIds(Single(id, row)) = {id}
  BY NoRowAssumption DEF Single, Batch, Rows, OptRow, BatchIds

LEMMA UpsertPointType ==
    ASSUME NEW v \in View, NEW p \in Point
    PROVE  UpsertPoint(v, p) \in View
  <1> DEFINE tombs == IF p.id \in RowIds(v.mutable) THEN {} ELSE Holders(v, p.id)
             segs == [i \in DOMAIN v.immutables |->
                        IF i \in tombs THEN TombstoneMany(v.immutables[i], {p.id})
                        ELSE v.immutables[i]]
  <1>1. v.mutable \in Mutable /\ v.immutables \in Seq(Segment)
    BY DEF View
  <1>2. p.id \in Id /\ p.row \in Row /\ {p.id} \in SUBSET Id
    BY DEF Point
  <1>3. MutableUpsert(v.mutable, Single(p.id, p.row)) \in Mutable
    BY <1>1, <1>2, SingleType, MutableUpsertType
  <1>4. \A i \in DOMAIN v.immutables : segs[i] \in Segment
    BY <1>1, <1>2, TombstoneManyType
  <1>5. segs \in Seq(Segment)
    <2>1. segs = [i \in DOMAIN v.immutables |-> segs[i]]
      OBVIOUS
    <2> HIDE DEF segs
    <2> QED
      BY <1>1, <1>4, <2>1, EditedSegments
  <1> QED
    BY <1>3, <1>5 DEF UpsertPoint, View

LEMMA UpsertFold ==
    ASSUME NEW v \in View, NEW points \in Seq(Point)
    PROVE  \E F : /\ UpsertLoop(v, points) = F[1..Len(points)]
                  /\ F[{}] = v
                  /\ \A k \in 0..(Len(points) - 1) : F[1..(k + 1)] = UpsertPoint(F[1..k], points[k + 1])
  <1> DEFINE D == DOMAIN points
             h == [x \in View \X Point |-> UpsertPoint(x[1], x[2])]
             Unfolded(F) == [s \in SUBSET D |-> IF s = {} THEN v
                               ELSE UpsertPoint(F[s \ {Max(s)}], points[Max(s)])]
             F0 == CHOOSE F : F = Unfolded(F)
  <1>1. PICK len \in Nat : D = 1..len /\ len = Len(points) /\ \A i \in D : points[i] \in Point
    BY LenProperties, ElementOfSeq
  <1>2. \A w \in View, p \in Point : UpsertPoint(w, p) \in View
    BY UpsertPointType
  <1>3. IsBody(h, Point, View)
    BY <1>2 DEF IsBody
  <1>4. UpsertLoop(v, points) = F0[D]
    BY DEF UpsertLoop, FoldLeft, MapThenFoldSet
  <1>5. ASSUME NEW F, IsFold(F, points, View) PROVE FoldStep(h, v, points, F) = Unfolded(F)
    <2>1. ASSUME NEW s \in SUBSET D, s # {}
          PROVE  h[<<F[s \ {Max(s)}], points[Max(s)]>>] = UpsertPoint(F[s \ {Max(s)}], points[Max(s)])
      <3>1. F[s \ {Max(s)}] \in View /\ points[Max(s)] \in Point
        BY <1>1, <1>5, <2>1, LastOf DEF IsFold
      <3> QED
        BY <3>1
    <2> HIDE DEF h
    <2> QED
      BY <2>1 DEF FoldStep
  <1> HIDE DEF h, Unfolded
  <1>6. \E F : F = Unfolded(F)
    <2>1. \E F : IsFold(F, points, View) /\ F = FoldStep(h, v, points, F)
      BY <1>1, <1>3, FoldExists
    <2> QED
      BY <1>5, <2>1, Zenon
  <1>7. F0 = Unfolded(F0)
    BY <1>6, Zenon
  <1> HIDE DEF F0
  <1>8. \A s \in SUBSET D : F0[s] = IF s = {} THEN v ELSE UpsertPoint(F0[s \ {Max(s)}], points[Max(s)])
    BY <1>7 DEF Unfolded
  <1>9. F0[{}] = v
    BY <1>8
  <1>10. ASSUME NEW k \in 0..(len - 1) PROVE F0[1..(k + 1)] = UpsertPoint(F0[1..k], points[k + 1])
    <2>1. 1..(k + 1) \in SUBSET D /\ k \in Nat
      BY <1>1
    <2> QED
      BY <1>8, <2>1, PrefixFacts
  <1> QED
    BY <1>1, <1>4, <1>9, <1>10

(* The rows of the first k points, the last of each id. *)
UptoPositions(points, k, id) == {j \in 1..k : points[j].id = id}
BatchUpto(points, k) ==
    [id \in Id |-> IF UptoPositions(points, k, id) = {} THEN NoRow
                   ELSE points[Max(UptoPositions(points, k, id))].row]

LEMMA BatchUptoNext ==
    ASSUME NEW points \in Seq(Point), NEW k \in 0..(Len(points) - 1)
    PROVE  /\ BatchUpto(points, k) \in Batch
           /\ points[k + 1] \in Point
           /\ BatchUpto(points, k + 1)
                = [BatchUpto(points, k) EXCEPT ![points[k + 1].id] = points[k + 1].row]
  <1>1. Len(points) \in Nat /\ \A i \in 1..Len(points) : points[i] \in Point
    BY LenProperties, ElementOfSeq
  <1>2. points[k + 1] \in Point /\ k \in Nat
    BY <1>1
  <1>3. \A id \in Id : UptoPositions(points, k, id) # {} =>
          Max(UptoPositions(points, k, id)) \in UptoPositions(points, k, id)
    <2> TAKE id \in Id
    <2>1. UptoPositions(points, k, id) \in SUBSET (1..k)
      BY DEF UptoPositions
    <2> QED
      BY <1>2, <2>1, LastOf
  <1>4. BatchUpto(points, k) \in Batch
    <2>1. ASSUME NEW id \in Id PROVE BatchUpto(points, k)[id] \in OptRow
      <3>1. CASE UptoPositions(points, k, id) = {}
        BY <3>1 DEF BatchUpto, OptRow
      <3>2. CASE UptoPositions(points, k, id) # {}
        <4>1. Max(UptoPositions(points, k, id)) \in 1..Len(points)
          BY <1>1, <1>3, <3>2 DEF UptoPositions
        <4>2. points[Max(UptoPositions(points, k, id))].row \in Row
          BY <1>1, <4>1 DEF Point
        <4> QED
          BY <3>2, <4>2 DEF BatchUpto, OptRow
      <3> QED
        BY <3>1, <3>2
    <2> QED
      BY <2>1 DEF Batch, Rows, BatchUpto
  <1>5. ASSUME NEW id \in Id
        PROVE  BatchUpto(points, k + 1)[id]
                 = IF id = points[k + 1].id THEN points[k + 1].row ELSE BatchUpto(points, k)[id]
    <2>1. CASE id = points[k + 1].id
      <3>1. /\ k + 1 \in UptoPositions(points, k + 1, id)
            /\ \A t \in UptoPositions(points, k + 1, id) : t <= k + 1
            /\ UptoPositions(points, k + 1, id) \in SUBSET Nat
        BY <1>2, <2>1 DEF UptoPositions
      <3>2. Max(UptoPositions(points, k + 1, id)) = k + 1
        BY <3>1, MaxIs
      <3> QED
        BY <2>1, <3>1, <3>2 DEF BatchUpto
    <2>2. CASE id # points[k + 1].id
      <3>1. UptoPositions(points, k + 1, id) = UptoPositions(points, k, id)
        BY <1>2, <2>2 DEF UptoPositions
      <3> QED
        BY <2>2, <3>1 DEF BatchUpto
    <2> QED
      BY <2>1, <2>2
  <1>6. BatchUpto(points, k + 1)
          = [BatchUpto(points, k) EXCEPT ![points[k + 1].id] = points[k + 1].row]
    <2>1. /\ BatchUpto(points, k + 1) = [id \in Id |-> BatchUpto(points, k + 1)[id]]
          /\ BatchUpto(points, k) = [id \in Id |-> BatchUpto(points, k)[id]]
      BY DEF BatchUpto
    <2>2. points[k + 1].id \in Id
      BY <1>2 DEF Point
    <2> QED
      BY <1>5, <2>1, <2>2
  <1> QED
    BY <1>2, <1>4, <1>6

(* One more point: tombstones are written once, whether the id was in the  *)
(* mutable segment before the call or since an earlier point of it.        *)
LEMMA UpsertPointAfter ==
    ASSUME NEW v \in View, NEW batch \in Batch, NEW p \in Point
    PROVE  UpsertPoint(ApplyUpsert(v, batch), p)
             = ApplyUpsert(v, [batch EXCEPT ![p.id] = p.row])
  <1> DEFINE more == [batch EXCEPT ![p.id] = p.row]
             over == BatchIds(batch) \ RowIds(v.mutable)
             overMore == BatchIds(more) \ RowIds(v.mutable)
             w == ApplyUpsert(v, batch)
             tombs == IF p.id \in RowIds(w.mutable) THEN {} ELSE Holders(w, p.id)
  <1>1. p.id \in Id /\ p.row \in Row /\ p.row # NoRow
    BY NoRowAssumption DEF Point
  <1>2. v.mutable \in Mutable /\ \A i \in DOMAIN v.immutables : v.immutables[i] \in Segment
    BY DEF View
  <1>3. /\ w.mutable = MutableUpsert(v.mutable, batch)
        /\ w.immutables = [i \in DOMAIN v.immutables |-> TombstoneMany(v.immutables[i], over)]
    BY DEF ApplyUpsert
  <1>4. \A id \in Id : more[id] = IF id = p.id THEN p.row ELSE batch[id]
    BY DEF Batch, Rows
  <1>5. BatchIds(more) = BatchIds(batch) \cup {p.id}
    BY <1>1, <1>4 DEF BatchIds
  <1>6. MutableUpsert(w.mutable, Single(p.id, p.row)) = MutableUpsert(v.mutable, more)
    <2>1. \A id \in Id : (IF Single(p.id, p.row)[id] # NoRow THEN Single(p.id, p.row)[id]
                          ELSE (IF batch[id] # NoRow THEN batch[id] ELSE v.mutable.rows[id]))
                         = (IF more[id] # NoRow THEN more[id] ELSE v.mutable.rows[id])
      BY <1>1, <1>4 DEF Single
    <2>2. (v.mutable.deleted \ BatchIds(batch)) \ BatchIds(Single(p.id, p.row))
            = v.mutable.deleted \ BatchIds(more)
      BY <1>1, <1>5, SingleType
    <2> HIDE DEF more
    <2>3. /\ w.mutable.deleted = v.mutable.deleted \ BatchIds(batch)
          /\ \A id \in Id : w.mutable.rows[id] = IF batch[id] # NoRow THEN batch[id]
                                                 ELSE v.mutable.rows[id]
      BY <1>3 DEF MutableUpsert
    <2>4. /\ MutableUpsert(w.mutable, Single(p.id, p.row)).rows = MutableUpsert(v.mutable, more).rows
          /\ MutableUpsert(w.mutable, Single(p.id, p.row)).deleted
               = MutableUpsert(v.mutable, more).deleted
      BY <2>1, <2>2, <2>3 DEF MutableUpsert
    <2> QED
      BY <2>4 DEF MutableUpsert
  <1>7. RowIds(w.mutable) = RowIds(v.mutable) \cup BatchIds(batch)
    BY <1>3 DEF RowIds, MutableUpsert, BatchIds
  <1>8. ASSUME NEW i \in DOMAIN v.immutables
        PROVE  (IF i \in tombs THEN TombstoneMany(w.immutables[i], {p.id}) ELSE w.immutables[i])
                 = TombstoneMany(v.immutables[i], overMore)
    <2>1. w.immutables[i] = TombstoneMany(v.immutables[i], over)
      BY <1>3
    <2>2. CASE p.id \in RowIds(w.mutable)
      <3>1. overMore = over
        BY <1>5, <1>7, <2>2
      <3> QED
        BY <2>1, <2>2, <3>1
    <2>3. CASE p.id \notin RowIds(w.mutable)
      <3>1. overMore = over \cup {p.id} /\ p.id \notin over
        BY <1>5, <1>7, <2>3
      <3>2. Alive(w.immutables[i], p.id) <=> Alive(v.immutables[i], p.id)
        BY <1>1, <1>2, <2>1, <3>1, TombstoneEffect DEF BatchIds
      <3>3. i \in tombs <=> Alive(v.immutables[i], p.id)
        BY <1>3, <2>3, <3>2 DEF Holders
      <3> HIDE DEF overMore, over, tombs, w
      <3>4. CASE Alive(v.immutables[i], p.id)
        <4>1. {id \in over \cup {p.id} : Alive(v.immutables[i], id)}
                = {id \in over : Alive(v.immutables[i], id)} \cup {p.id}
          BY <3>4
        <4>2. {id \in {p.id} : Alive(w.immutables[i], id)} = {p.id}
          BY <3>2, <3>4
        <4> QED
          BY <1>2, <2>1, <3>1, <3>3, <3>4, <4>1, <4>2 DEF TombstoneMany, Segment
      <3>5. CASE ~Alive(v.immutables[i], p.id)
        <4>1. {id \in over \cup {p.id} : Alive(v.immutables[i], id)}
                = {id \in over : Alive(v.immutables[i], id)}
          BY <3>5
        <4> QED
          BY <2>1, <3>1, <3>3, <3>5, <4>1 DEF TombstoneMany
      <3> QED
        BY <3>4, <3>5
    <2> QED
      BY <2>2, <2>3
  <1>9. DOMAIN w.immutables = DOMAIN v.immutables
    BY <1>3
  <1>10. /\ UpsertPoint(w, p).mutable = MutableUpsert(v.mutable, more)
         /\ UpsertPoint(w, p).immutables
              = [i \in DOMAIN v.immutables |-> TombstoneMany(v.immutables[i], overMore)]
    <2>1. UpsertPoint(w, p).immutables
            = [i \in DOMAIN w.immutables |-> IF i \in tombs THEN TombstoneMany(w.immutables[i], {p.id})
                                             ELSE w.immutables[i]]
      BY DEF UpsertPoint
    <2> HIDE DEF w, tombs, overMore, more
    <2> QED
      BY <1>6, <1>8, <1>9, <2>1 DEF UpsertPoint
  <1> QED
    BY <1>10 DEF UpsertPoint, ApplyUpsert

LEMMA UpsertOfNothing ==
    ASSUME NEW v \in View, NEW batch, BatchIds(batch) = {}
    PROVE  ApplyUpsert(v, batch) = v
  <1>1. v.mutable \in Mutable /\ \A i \in DOMAIN v.immutables : v.immutables[i] \in Segment
    BY DEF View
  <1>2. \A id \in Id : batch[id] = NoRow
    BY DEF BatchIds
  <1>3. MutableUpsert(v.mutable, batch) = v.mutable
    <2>1. v.mutable.deleted \ BatchIds(batch) = v.mutable.deleted
      OBVIOUS
    <2>2. [id \in Id |-> IF batch[id] # NoRow THEN batch[id] ELSE v.mutable.rows[id]] = v.mutable.rows
      BY <1>1, <1>2 DEF Mutable, Rows
    <2> QED
      BY <1>1, <2>1, <2>2 DEF MutableUpsert, Mutable
  <1>4. ASSUME NEW i \in DOMAIN v.immutables
        PROVE  TombstoneMany(v.immutables[i], BatchIds(batch) \ RowIds(v.mutable)) = v.immutables[i]
    BY <1>1 DEF TombstoneMany, Segment
  <1>5. v.immutables = [i \in DOMAIN v.immutables |-> v.immutables[i]]
    BY DEF View
  <1>6. [i \in DOMAIN v.immutables |->
           TombstoneMany(v.immutables[i], BatchIds(batch) \ RowIds(v.mutable))] = v.immutables
    BY <1>4, <1>5
  <1> QED
    BY <1>3, <1>6 DEF ApplyUpsert, View

(* apply_upsert's loop leaves the view of the batch of the last rows. *)
LEMMA UpsertOfAnyList ==
    ASSUME NEW v \in View, NEW points \in Seq(Point)
    PROVE  UpsertLoop(v, points) = ApplyUpsert(v, BatchOf(points))
  <1>1. PICK F : /\ UpsertLoop(v, points) = F[1..Len(points)]
                 /\ F[{}] = v
                 /\ \A k \in 0..(Len(points) - 1) :
                      F[1..(k + 1)] = UpsertPoint(F[1..k], points[k + 1])
    BY UpsertFold
  <1> DEFINE len == Len(points)
             After(k) == F[1..k] = ApplyUpsert(v, BatchUpto(points, k))
             S == {k \in 0..len : After(k)}
  <1>2. len \in Nat /\ DOMAIN points = 1..len
    BY LenProperties
  <1>3. After(0)
    <2>1. 1..0 = {}
      OBVIOUS
    <2>2. \A id \in Id : BatchUpto(points, 0)[id] = NoRow
      BY <2>1 DEF BatchUpto, UptoPositions
    <2>3. BatchIds(BatchUpto(points, 0)) = {}
      BY <2>2 DEF BatchIds
    <2>4. ApplyUpsert(v, BatchUpto(points, 0)) = v
      BY <2>3, UpsertOfNothing
    <2> QED
      BY <1>1, <2>1, <2>4
  <1>4. ASSUME NEW k \in 0..(len - 1), After(k) PROVE After(k + 1)
    <2>1. F[1..(k + 1)] = UpsertPoint(ApplyUpsert(v, BatchUpto(points, k)), points[k + 1])
      BY <1>1, <1>4
    <2>2. BatchUpto(points, k) \in Batch /\ points[k + 1] \in Point
      BY BatchUptoNext
    <2>3. F[1..(k + 1)]
            = ApplyUpsert(v, [BatchUpto(points, k) EXCEPT ![points[k + 1].id] = points[k + 1].row])
      BY <2>1, <2>2, UpsertPointAfter
    <2> QED
      BY <2>3, BatchUptoNext
  <1>5. BatchUpto(points, len) = BatchOf(points)
    BY <1>2 DEF BatchUpto, BatchOf, UptoPositions, Positions
  <1>6. After(len)
    <2>1. 0 \in S /\ \A k \in 0..(len - 1) : k \in S => k + 1 \in S
      <3> HIDE DEF After
      <3> QED
        BY <1>2, <1>3, <1>4
    <2>2. len \in S => After(len)
      OBVIOUS
    <2> HIDE DEF S, After
    <2> QED
      <3>1. \A k \in 0..len : k \in S
        BY <1>2, <2>1, LoopInduction
      <3> QED
        BY <1>2, <2>2, <3>1
  <1> QED
    BY <1>1, <1>5, <1>6

-----------------------------------------------------------------------------
(* Deletes. *)

DeleteAcc(v) == [mutable : Mutable, tombs : [DOMAIN v.immutables -> SUBSET Id], deleted : Nat]
DeleteStart(v) ==
    [mutable |-> v.mutable, tombs |-> [i \in DOMAIN v.immutables |-> {}], deleted |-> 0]

(* What apply_delete and apply_payload collect for a segment. *)
OldestIn(v, ids, i) ==
    {id \in ids : ~Alive(v.mutable, id) /\ i \in Holders(v, id) /\ i = Min(Holders(v, id))}

LEMMA OldestHolder ==
    ASSUME NEW v \in View, NEW id, Holders(v, id) # {}
    PROVE  Min(Holders(v, id)) \in Holders(v, id) /\ Min(Holders(v, id)) \in DOMAIN v.immutables
  <1>1. Holders(v, id) \in SUBSET Nat
    BY HolderIsPosition
  <1> QED
    BY <1>1, MinIsLeast DEF Holders

LEMMA DeleteIdType ==
    ASSUME NEW v \in View, NEW acc \in DeleteAcc(v), NEW id \in Id
    PROVE  DeleteId(v, acc, id) \in DeleteAcc(v)
  <1>1. acc.mutable \in Mutable /\ acc.tombs \in [DOMAIN v.immutables -> SUBSET Id] /\ acc.deleted \in Nat
    BY DEF DeleteAcc
  <1>2. CASE Alive(acc.mutable, id)
    <2>1. MutableDelete(acc.mutable, {id}) \in Mutable
      BY <1>1, MutableDeleteType
    <2>2. DeleteId(v, acc, id) = [mutable |-> MutableDelete(acc.mutable, {id}),
                                  tombs |-> acc.tombs, deleted |-> acc.deleted + 1]
      BY <1>2 DEF DeleteId, DeleteAcc
    <2> QED
      BY <1>1, <2>1, <2>2 DEF DeleteAcc
  <1>3. CASE ~Alive(acc.mutable, id) /\ Holders(v, id) # {}
    <2>1. Min(Holders(v, id)) \in DOMAIN v.immutables
      BY <1>3, OldestHolder
    <2> DEFINE tombs == [acc.tombs EXCEPT ![Min(Holders(v, id))] = @ \cup {id}]
    <2>2. DeleteId(v, acc, id) = [mutable |-> acc.mutable, tombs |-> tombs,
                                  deleted |-> acc.deleted + 1]
      BY <1>3 DEF DeleteId, DeleteAcc
    <2>3. tombs \in [DOMAIN v.immutables -> SUBSET Id]
      BY <1>1, <2>1
    <2> HIDE DEF tombs
    <2> QED
      BY <1>1, <2>2, <2>3 DEF DeleteAcc
  <1>4. CASE ~Alive(acc.mutable, id) /\ Holders(v, id) = {}
    BY <1>4 DEF DeleteId
  <1> QED
    BY <1>2, <1>3, <1>4

(* F[1..k] is the state of the loop after k ids. *)
IsDeleteRun(v, ids, F) ==
    /\ F[{}] = DeleteStart(v)
    /\ \A k \in 0..(Len(ids) - 1) : F[1..(k + 1)] = DeleteId(v, F[1..k], ids[k + 1])

DeleteFolded(v, ids) == FoldLeft(LAMBDA a, id : DeleteId(v, a, id), DeleteStart(v), ids)

LEMMA DeleteFold ==
    ASSUME NEW v \in View, NEW ids \in Seq(Id)
    PROVE  \E F : DeleteFolded(v, ids) = F[1..Len(ids)] /\ IsDeleteRun(v, ids, F)
  <1> DEFINE D == DOMAIN ids
             Acc == DeleteAcc(v)
             h == [x \in Acc \X Id |-> DeleteId(v, x[1], x[2])]
             Unfolded(F) == [s \in SUBSET D |-> IF s = {} THEN DeleteStart(v)
                               ELSE DeleteId(v, F[s \ {Max(s)}], ids[Max(s)])]
             F0 == CHOOSE F : F = Unfolded(F)
  <1>1. PICK len \in Nat : D = 1..len /\ len = Len(ids) /\ \A i \in D : ids[i] \in Id
    BY LenProperties, ElementOfSeq
  <1>2. DeleteStart(v) \in Acc /\ \A a \in Acc, id \in Id : DeleteId(v, a, id) \in Acc
    <2>1. DeleteStart(v) \in Acc
      BY DEF DeleteStart, DeleteAcc, View
    <2> QED
      BY <2>1, DeleteIdType
  <1>4. DeleteFolded(v, ids) = F0[D]
    BY DEF DeleteFolded, FoldLeft, MapThenFoldSet
  <1> HIDE DEF Acc
  <1>3. IsBody(h, Id, Acc)
    BY <1>2 DEF IsBody
  <1>5. ASSUME NEW F, IsFold(F, ids, Acc) PROVE FoldStep(h, DeleteStart(v), ids, F) = Unfolded(F)
    <2>1. ASSUME NEW s \in SUBSET D, s # {}
          PROVE  h[<<F[s \ {Max(s)}], ids[Max(s)]>>] = DeleteId(v, F[s \ {Max(s)}], ids[Max(s)])
      <3>1. F[s \ {Max(s)}] \in Acc /\ ids[Max(s)] \in Id
        BY <1>1, <1>5, <2>1, LastOf DEF IsFold
      <3> QED
        BY <3>1
    <2> HIDE DEF h
    <2> QED
      BY <2>1 DEF FoldStep
  <1> HIDE DEF h, Unfolded
  <1>6. \E F : F = Unfolded(F)
    <2>1. \E F : IsFold(F, ids, Acc) /\ F = FoldStep(h, DeleteStart(v), ids, F)
      BY <1>1, <1>2, <1>3, FoldExists
    <2> QED
      BY <1>5, <2>1, Zenon
  <1>7. F0 = Unfolded(F0)
    BY <1>6, Zenon
  <1> HIDE DEF F0
  <1>8. \A s \in SUBSET D : F0[s] = IF s = {} THEN DeleteStart(v)
                                    ELSE DeleteId(v, F0[s \ {Max(s)}], ids[Max(s)])
    BY <1>7 DEF Unfolded
  <1>9. F0[{}] = DeleteStart(v)
    BY <1>8
  <1>10. ASSUME NEW k \in 0..(len - 1) PROVE F0[1..(k + 1)] = DeleteId(v, F0[1..k], ids[k + 1])
    <2>1. 1..(k + 1) \in SUBSET D /\ k \in Nat
      BY <1>1
    <2> QED
      BY <1>8, <2>1, PrefixFacts
  <1> QED
    BY <1>1, <1>4, <1>9, <1>10 DEF IsDeleteRun

(* The state of the loop after the ids of the set done. *)
DeletesDone(v, done, acc) ==
    /\ acc.mutable = MutableDelete(v.mutable, done)
    /\ acc.tombs = [i \in DOMAIN v.immutables |-> OldestIn(v, done, i)]
    /\ acc = [mutable |-> acc.mutable, tombs |-> acc.tombs, deleted |-> acc.deleted]

(* One more id: a duplicate finds its row tombstoned in the mutable        *)
(* segment, and alive in the others.                                       *)
LEMMA DeleteIdAfter ==
    ASSUME NEW v \in View, WellFormed(v), NEW done \in SUBSET Id, NEW id \in Id, NEW acc,
           DeletesDone(v, done, acc)
    PROVE  /\ DeletesDone(v, done \cup {id}, DeleteId(v, acc, id))
           /\ DeleteId(v, acc, id).deleted
                = IF Alive(acc.mutable, id) \/ Holders(v, id) # {}
                    THEN acc.deleted + 1 ELSE acc.deleted
           /\ Alive(acc.mutable, id) <=> Alive(v.mutable, id) /\ id \notin done
  <1> DEFINE next == DeleteId(v, acc, id)
             m == v.mutable
  <1>0. /\ acc.mutable = MutableDelete(v.mutable, done)
        /\ acc.tombs = [i \in DOMAIN v.immutables |-> OldestIn(v, done, i)]
        /\ acc = [mutable |-> acc.mutable, tombs |-> acc.tombs, deleted |-> acc.deleted]
    BY DEF DeletesDone
  <1>1. m \in Mutable
    BY DEF View
  <1>2. Alive(acc.mutable, id) <=> Alive(m, id) /\ id \notin done
    BY <1>0, <1>1 DEF MutableDelete, Alive, Mutable
  <1>3. Alive(m, id) => Holders(v, id) = {}
    BY DEF WellFormed, RowIds, Alive
  <1>4. CASE Alive(acc.mutable, id)
    <2>1. next = [acc EXCEPT !.mutable = MutableDelete(@, {id}), !.deleted = @ + 1]
      BY <1>4 DEF DeleteId
    <2>2. next = [mutable |-> MutableDelete(acc.mutable, {id}), tombs |-> acc.tombs,
                  deleted |-> acc.deleted + 1]
      BY <1>0, <2>1
    <2>3. MutableDelete(acc.mutable, {id}) = MutableDelete(m, done \cup {id})
      <3>1. {x \in {id} : Alive(acc.mutable, x)} = {id}
        BY <1>4
      <3>2. {x \in done \cup {id} : Alive(m, x)} = {x \in done : Alive(m, x)} \cup {id}
        BY <1>2, <1>4
      <3> QED
        BY <1>0, <1>1, <3>1, <3>2 DEF MutableDelete, Mutable
    <2>4. \A i : OldestIn(v, done \cup {id}, i) = OldestIn(v, done, i)
      BY <1>2, <1>4 DEF OldestIn
    <2> QED
      BY <1>0, <1>2, <1>4, <2>2, <2>3, <2>4 DEF DeletesDone
  <1>5. CASE ~Alive(acc.mutable, id) /\ Holders(v, id) # {}
    <2> DEFINE first == Min(Holders(v, id))
    <2>1. next = [acc EXCEPT !.tombs[first] = @ \cup {id}, !.deleted = @ + 1]
      BY <1>5 DEF DeleteId
    <2>2. next = [mutable |-> acc.mutable, tombs |-> [acc.tombs EXCEPT ![first] = @ \cup {id}],
                  deleted |-> acc.deleted + 1]
      BY <1>0, <2>1
    <2>3. first \in DOMAIN v.immutables /\ first \in Holders(v, id) /\ ~Alive(m, id)
      BY <1>3, <1>5, OldestHolder
    <2>4. MutableDelete(m, done \cup {id}) = MutableDelete(m, done)
      <3>1. {x \in done \cup {id} : Alive(m, x)} = {x \in done : Alive(m, x)}
        BY <2>3
      <3> QED
        BY <3>1 DEF MutableDelete
    <2>5. \A i \in DOMAIN v.immutables :
            OldestIn(v, done \cup {id}, i)
              = IF i = first THEN OldestIn(v, done, i) \cup {id} ELSE OldestIn(v, done, i)
      BY <2>3 DEF OldestIn
    <2>6. [acc.tombs EXCEPT ![first] = @ \cup {id}]
            = [i \in DOMAIN v.immutables |-> OldestIn(v, done \cup {id}, i)]
      <3> HIDE DEF first
      <3> QED
        BY <1>0, <2>3, <2>5
    <2> HIDE DEF first, next
    <2> QED
      BY <1>0, <1>2, <1>3, <1>5, <2>2, <2>4, <2>6 DEF next, DeletesDone
  <1>6. CASE ~Alive(acc.mutable, id) /\ Holders(v, id) = {}
    <2>1. next = acc
      BY <1>6 DEF DeleteId
    <2>2. MutableDelete(m, done \cup {id}) = MutableDelete(m, done)
      <3>1. {x \in done \cup {id} : Alive(m, x)} = {x \in done : Alive(m, x)}
        BY <1>2, <1>6
      <3> QED
        BY <3>1 DEF MutableDelete
    <2>3. \A i : OldestIn(v, done \cup {id}, i) = OldestIn(v, done, i)
      BY <1>6 DEF OldestIn
    <2> QED
      BY <1>0, <1>2, <1>6, <2>1, <2>2, <2>3 DEF DeletesDone
  <1> QED
    BY <1>4, <1>5, <1>6

UptoIds(ids, k) == {ids[j] : j \in 1..k}

LEMMA UptoIdsFacts ==
    ASSUME NEW ids \in Seq(Id)
    PROVE  /\ UptoIds(ids, 0) = {}
           /\ UptoIds(ids, Len(ids)) = ToSet(ids)
           /\ \A k \in 0..(Len(ids) - 1) :
                /\ UptoIds(ids, k) \in SUBSET Id
                /\ ids[k + 1] \in Id
                /\ UptoIds(ids, k + 1) = UptoIds(ids, k) \cup {ids[k + 1]}
  <1>1. Len(ids) \in Nat /\ DOMAIN ids = 1..Len(ids) /\ \A i \in 1..Len(ids) : ids[i] \in Id
    BY LenProperties, ElementOfSeq
  <1>2. UptoIds(ids, 0) = {} /\ UptoIds(ids, Len(ids)) = ToSet(ids)
    BY <1>1 DEF UptoIds, ToSet
  <1>3. ASSUME NEW k \in 0..(Len(ids) - 1)
        PROVE  /\ UptoIds(ids, k) \in SUBSET Id
               /\ ids[k + 1] \in Id
               /\ UptoIds(ids, k + 1) = UptoIds(ids, k) \cup {ids[k + 1]}
    <2>1. UptoIds(ids, k) \in SUBSET Id /\ ids[k + 1] \in Id
      BY <1>1 DEF UptoIds
    <2>2. 1..(k + 1) = (1..k) \cup {k + 1}
      BY <1>1
    <2>3. UptoIds(ids, k + 1) = UptoIds(ids, k) \cup {ids[k + 1]}
      BY <2>2 DEF UptoIds
    <2> QED
      BY <2>1, <2>3
  <1> QED
    BY <1>2, <1>3

LEMMA DeleteProgress ==
    ASSUME NEW v \in View, WellFormed(v), NEW ids \in Seq(Id), NEW F, IsDeleteRun(v, ids, F)
    PROVE  \A k \in 0..Len(ids) : DeletesDone(v, UptoIds(ids, k), F[1..k])
  <1> DEFINE len == Len(ids)
             S == {k \in 0..len : DeletesDone(v, UptoIds(ids, k), F[1..k])}
  <1>1. len \in Nat
    BY LenProperties
  <1>2. DeletesDone(v, UptoIds(ids, 0), F[1..0])
    <2>1. F[1..0] = DeleteStart(v)
      <3>1. 1..0 = {}
        OBVIOUS
      <3> QED
        BY <3>1 DEF IsDeleteRun
    <2>2. MutableDelete(v.mutable, {}) = v.mutable
      BY DEF MutableDelete, View, Mutable
    <2>3. \A i : OldestIn(v, {}, i) = {}
      BY DEF OldestIn
    <2>4. DeletesDone(v, {}, DeleteStart(v))
      BY <2>2, <2>3 DEF DeletesDone, DeleteStart
    <2>5. UptoIds(ids, 0) = {}
      BY UptoIdsFacts
    <2> QED
      BY <2>1, <2>4, <2>5
  <1>3. ASSUME NEW k \in 0..(len - 1), DeletesDone(v, UptoIds(ids, k), F[1..k])
        PROVE  DeletesDone(v, UptoIds(ids, k + 1), F[1..(k + 1)])
    <2> DEFINE done == UptoIds(ids, k)
               acc == F[1..k]
               id == ids[k + 1]
    <2>1. done \in SUBSET Id /\ id \in Id /\ UptoIds(ids, k + 1) = done \cup {id}
      BY UptoIdsFacts
    <2>2. DeletesDone(v, done, acc)
      BY <1>3
    <2>3. F[1..(k + 1)] = DeleteId(v, acc, id)
      BY DEF IsDeleteRun
    <2> HIDE DEF done, acc, id
    <2>4. DeletesDone(v, done \cup {id}, DeleteId(v, acc, id))
      BY <2>1, <2>2, DeleteIdAfter
    <2> QED
      BY <2>1, <2>3, <2>4
  <1>4. 0 \in S /\ \A k \in 0..(len - 1) : k \in S => k + 1 \in S
    BY <1>1, <1>2, <1>3
  <1>5. \A k \in S : DeletesDone(v, UptoIds(ids, k), F[1..k])
    OBVIOUS
  <1> HIDE DEF S
  <1>6. \A k \in 0..len : k \in S
    BY <1>1, <1>4, LoopInduction
  <1> QED
    BY <1>5, <1>6

Shown(v, ids) == {id \in ids : LookupPoint(v, id) # NoRow}

(* Without duplicates each id that is shown is counted once. *)
LEMMA DeleteCounts ==
    ASSUME NEW v \in View, WellFormed(v), NEW ids \in Seq(Id), IsInjective(ids),
           NEW F, IsDeleteRun(v, ids, F)
    PROVE  \A k \in 0..Len(ids) : F[1..k].deleted = Cardinality(Shown(v, UptoIds(ids, k)))
  <1> DEFINE len == Len(ids)
             S == {k \in 0..len : F[1..k].deleted = Cardinality(Shown(v, UptoIds(ids, k)))}
  <1>1. len \in Nat /\ DOMAIN ids = 1..len
    BY LenProperties
  <1>2. F[1..0].deleted = Cardinality(Shown(v, UptoIds(ids, 0)))
    <2>1. F[1..0] = DeleteStart(v)
      <3>1. 1..0 = {}
        OBVIOUS
      <3> QED
        BY <3>1 DEF IsDeleteRun
    <2>2. Shown(v, UptoIds(ids, 0)) = {}
      BY UptoIdsFacts DEF Shown
    <2>3. DeleteStart(v).deleted = 0
      BY DEF DeleteStart
    <2> QED
      BY <2>1, <2>2, <2>3, FS_EmptySet
  <1>3. ASSUME NEW k \in 0..(len - 1), F[1..k].deleted = Cardinality(Shown(v, UptoIds(ids, k)))
        PROVE  F[1..(k + 1)].deleted = Cardinality(Shown(v, UptoIds(ids, k + 1)))
    <2> DEFINE done == UptoIds(ids, k)
               acc == F[1..k]
               id == ids[k + 1]
    <2>1. done \in SUBSET Id /\ id \in Id /\ UptoIds(ids, k + 1) = done \cup {id}
      BY UptoIdsFacts
    <2>2. id \notin done
      BY <1>1 DEF UptoIds, IsInjective
    <2>4. DeletesDone(v, done, acc)
      BY <1>1, DeleteProgress
    <2>5. F[1..(k + 1)] = DeleteId(v, acc, id)
      BY DEF IsDeleteRun
    <2>6. acc.deleted = Cardinality(Shown(v, done))
      BY <1>3
    <2>7. IsFiniteSet(Shown(v, done)) /\ id \notin Shown(v, done)
      <3>1. Shown(v, done) \in SUBSET Id
        BY <2>1 DEF Shown
      <3> QED
        BY <2>2, <3>1, IdAssumption, FS_Subset DEF Shown
    <2>8. Cardinality(Shown(v, done) \cup {id}) = Cardinality(Shown(v, done)) + 1
      BY <2>7, FS_AddElement
    <2> HIDE DEF done, acc, id
    <2>9. /\ DeleteId(v, acc, id).deleted = IF Alive(acc.mutable, id) \/ Holders(v, id) # {}
                                              THEN acc.deleted + 1 ELSE acc.deleted
          /\ Alive(acc.mutable, id) <=> Alive(v.mutable, id) /\ id \notin done
      BY <2>1, <2>4, DeleteIdAfter
    <2>10. CASE LookupPoint(v, id) # NoRow
      <3>1. Shown(v, done \cup {id}) = Shown(v, done) \cup {id}
        BY <2>10 DEF Shown
      <3>2. Alive(acc.mutable, id) \/ Holders(v, id) # {}
        BY <2>1, <2>2, <2>9, <2>10, LookupFinds
      <3> QED
        BY <2>1, <2>5, <2>6, <2>8, <2>9, <3>1, <3>2
    <2>11. CASE LookupPoint(v, id) = NoRow
      <3>1. Shown(v, done \cup {id}) = Shown(v, done)
        BY <2>11 DEF Shown
      <3>2. ~(Alive(acc.mutable, id) \/ Holders(v, id) # {})
        BY <2>1, <2>9, <2>11, LookupFinds
      <3> QED
        BY <2>1, <2>5, <2>6, <2>9, <3>1, <3>2
    <2> QED
      BY <2>10, <2>11
  <1>4. 0 \in S /\ \A k \in 0..(len - 1) : k \in S => k + 1 \in S
    BY <1>1, <1>2, <1>3
  <1>5. \A k \in S : F[1..k].deleted = Cardinality(Shown(v, UptoIds(ids, k)))
    OBVIOUS
  <1> HIDE DEF S
  <1>6. \A k \in 0..len : k \in S
    BY <1>1, <1>4, LoopInduction
  <1> QED
    BY <1>5, <1>6

(* apply_delete's loop leaves the view of the set of its ids, and without  *)
(* duplicates returns the number of points that disappear.                 *)
LEMMA DeleteOfAnyList ==
    ASSUME NEW v \in View, WellFormed(v), NEW ids \in Seq(Id)
    PROVE  /\ DeleteLoop(v, ids).view = ApplyDelete(v, ToSet(ids))
           /\ IsInjective(ids) =>
                DeleteLoop(v, ids).deleted
                  = Cardinality({id \in Id : /\ LookupPoint(v, id) # NoRow
                                             /\ LookupPoint(DeleteLoop(v, ids).view, id) = NoRow})
  <1>1. PICK F : DeleteFolded(v, ids) = F[1..Len(ids)] /\ IsDeleteRun(v, ids, F)
    BY DeleteFold
  <1> DEFINE acc == F[1..Len(ids)]
             all == ToSet(ids)
             w == ApplyDelete(v, all)
  <1>2. Len(ids) \in Nat /\ UptoIds(ids, Len(ids)) = all
    BY LenProperties, UptoIdsFacts
  <1>3. all \in SUBSET Id
    BY ElementOfSeq, LenProperties DEF ToSet
  <1>4. DeleteLoop(v, ids)
          = [view |-> [mutable    |-> acc.mutable,
                       immutables |-> [i \in DOMAIN v.immutables |->
                                         TombstoneMany(v.immutables[i], acc.tombs[i])]],
             deleted |-> acc.deleted]
    BY <1>1 DEF DeleteLoop, DeleteFolded, DeleteStart
  <1>5. DeletesDone(v, UptoIds(ids, Len(ids)), acc)
    <2>1. \A k \in 0..Len(ids) : DeletesDone(v, UptoIds(ids, k), F[1..k])
      BY <1>1, DeleteProgress
    <2> QED
      BY <1>2, <2>1
  <1>6. IsInjective(ids) => acc.deleted = Cardinality(Shown(v, all))
    <2>1. ASSUME IsInjective(ids)
          PROVE  \A k \in 0..Len(ids) : F[1..k].deleted = Cardinality(Shown(v, UptoIds(ids, k)))
      BY <1>1, <2>1, DeleteCounts
    <2> QED
      BY <1>2, <2>1
  <1> HIDE DEF acc
  <1>7. DeleteLoop(v, ids).view = w
    <2>1. /\ acc.mutable = MutableDelete(v.mutable, all)
          /\ acc.tombs = [i \in DOMAIN v.immutables |-> OldestIn(v, all, i)]
      BY <1>2, <1>5 DEF DeletesDone
    <2> DEFINE segs == [i \in DOMAIN v.immutables |-> TombstoneMany(v.immutables[i], OldestIn(v, all, i))]
    <2>2. [i \in DOMAIN v.immutables |-> TombstoneMany(v.immutables[i], acc.tombs[i])] = segs
      BY <2>1
    <2>3. w = [mutable |-> MutableDelete(v.mutable, all), immutables |-> segs]
      <3>1. \A i : OldestIn(v, all, i)
                     = {id \in {x \in all : ~Alive(v.mutable, x)} :
                          i \in Holders(v, id) /\ i = Min(Holders(v, id))}
        BY DEF OldestIn
      <3> QED
        BY <3>1 DEF ApplyDelete
    <2>4. DeleteLoop(v, ids).view = [mutable |-> acc.mutable, immutables |-> segs]
      BY <1>4, <2>2
    <2> HIDE DEF w, segs
    <2> QED
      BY <2>1, <2>3, <2>4
  <1>8. DeleteLoop(v, ids).deleted = acc.deleted
    BY <1>4
  <1>9. {id \in Id : LookupPoint(v, id) # NoRow /\ LookupPoint(w, id) = NoRow} = Shown(v, all)
    <2>1. LiveStore(w) = AfterDelete(LiveStore(v), all)
      BY <1>3, DeleteEffect
    <2>2. \A id \in Id : LookupPoint(w, id) = IF id \in all THEN NoRow ELSE LookupPoint(v, id)
      <3> HIDE DEF w
      <3> QED
        BY <2>1 DEF LiveStore, AfterDelete
    <2> HIDE DEF w, all
    <2> QED
      BY <1>3, <2>2 DEF Shown
  <1> HIDE DEF w, all
  <1> QED
    BY <1>6, <1>7, <1>8, <1>9 DEF all, w

-----------------------------------------------------------------------------
(* Payloads: the same loop, with overlay entries in place of tombstones.   *)

PayloadAcc(v) == [mutable : Mutable, overlays : [DOMAIN v.immutables -> SUBSET Id], hit : Nat]
PayloadStart(v) ==
    [mutable |-> v.mutable, overlays |-> [i \in DOMAIN v.immutables |-> {}], hit |-> 0]

LEMMA PayloadIdType ==
    ASSUME NEW v \in View, NEW payload \in OptPayload, NEW acc \in PayloadAcc(v), NEW id \in Id
    PROVE  PayloadId(v, acc, id, payload) \in PayloadAcc(v)
  <1>1. acc.mutable \in Mutable /\ acc.overlays \in [DOMAIN v.immutables -> SUBSET Id] /\ acc.hit \in Nat
    BY DEF PayloadAcc
  <1>2. CASE Alive(acc.mutable, id)
    <2>1. MutableSetPayload(acc.mutable, {id}, payload) \in Mutable
      BY <1>1, MutableSetPayloadType
    <2>2. PayloadId(v, acc, id, payload)
            = [mutable |-> MutableSetPayload(acc.mutable, {id}, payload),
               overlays |-> acc.overlays, hit |-> acc.hit + 1]
      BY <1>2 DEF PayloadId, PayloadAcc
    <2> QED
      BY <1>1, <2>1, <2>2 DEF PayloadAcc
  <1>3. CASE ~Alive(acc.mutable, id) /\ Holders(v, id) # {}
    <2>1. Min(Holders(v, id)) \in DOMAIN v.immutables
      BY <1>3, OldestHolder
    <2> DEFINE overlays == [acc.overlays EXCEPT ![Min(Holders(v, id))] = @ \cup {id}]
    <2>2. PayloadId(v, acc, id, payload)
            = [mutable |-> acc.mutable, overlays |-> overlays, hit |-> acc.hit + 1]
      BY <1>3 DEF PayloadId, PayloadAcc
    <2>3. overlays \in [DOMAIN v.immutables -> SUBSET Id]
      BY <1>1, <2>1
    <2> HIDE DEF overlays
    <2> QED
      BY <1>1, <2>2, <2>3 DEF PayloadAcc
  <1>4. CASE ~Alive(acc.mutable, id) /\ Holders(v, id) = {}
    BY <1>4 DEF PayloadId
  <1> QED
    BY <1>2, <1>3, <1>4

(* F[1..k] is the state of the loop after k ids. *)
IsPayloadRun(v, ids, payload, F) ==
    /\ F[{}] = PayloadStart(v)
    /\ \A k \in 0..(Len(ids) - 1) : F[1..(k + 1)] = PayloadId(v, F[1..k], ids[k + 1], payload)

PayloadFolded(v, ids, payload) ==
    FoldLeft(LAMBDA a, id : PayloadId(v, a, id, payload), PayloadStart(v), ids)

LEMMA PayloadFold ==
    ASSUME NEW v \in View, NEW ids \in Seq(Id), NEW payload \in OptPayload
    PROVE  \E F : PayloadFolded(v, ids, payload) = F[1..Len(ids)] /\ IsPayloadRun(v, ids, payload, F)
  <1> DEFINE D == DOMAIN ids
             Acc == PayloadAcc(v)
             h == [x \in Acc \X Id |-> PayloadId(v, x[1], x[2], payload)]
             Unfolded(F) == [s \in SUBSET D |-> IF s = {} THEN PayloadStart(v)
                               ELSE PayloadId(v, F[s \ {Max(s)}], ids[Max(s)], payload)]
             F0 == CHOOSE F : F = Unfolded(F)
  <1>1. PICK len \in Nat : D = 1..len /\ len = Len(ids) /\ \A i \in D : ids[i] \in Id
    BY LenProperties, ElementOfSeq
  <1>2. PayloadStart(v) \in Acc /\ \A a \in Acc, id \in Id : PayloadId(v, a, id, payload) \in Acc
    <2>1. PayloadStart(v) \in Acc
      BY DEF PayloadStart, PayloadAcc, View
    <2> QED
      BY <2>1, PayloadIdType
  <1>3. PayloadFolded(v, ids, payload) = F0[D]
    BY DEF PayloadFolded, FoldLeft, MapThenFoldSet
  <1> HIDE DEF Acc
  <1>4. IsBody(h, Id, Acc)
    BY <1>2 DEF IsBody
  <1>5. ASSUME NEW F, IsFold(F, ids, Acc) PROVE FoldStep(h, PayloadStart(v), ids, F) = Unfolded(F)
    <2>1. ASSUME NEW s \in SUBSET D, s # {}
          PROVE  h[<<F[s \ {Max(s)}], ids[Max(s)]>>]
                   = PayloadId(v, F[s \ {Max(s)}], ids[Max(s)], payload)
      <3>1. F[s \ {Max(s)}] \in Acc /\ ids[Max(s)] \in Id
        BY <1>1, <1>5, <2>1, LastOf DEF IsFold
      <3> QED
        BY <3>1
    <2> HIDE DEF h
    <2> QED
      BY <2>1 DEF FoldStep
  <1> HIDE DEF h, Unfolded
  <1>6. \E F : F = Unfolded(F)
    <2>1. \E F : IsFold(F, ids, Acc) /\ F = FoldStep(h, PayloadStart(v), ids, F)
      BY <1>1, <1>2, <1>4, FoldExists
    <2> QED
      BY <1>5, <2>1, Zenon
  <1>7. F0 = Unfolded(F0)
    BY <1>6, Zenon
  <1> HIDE DEF F0
  <1>8. \A s \in SUBSET D : F0[s] = IF s = {} THEN PayloadStart(v)
                                    ELSE PayloadId(v, F0[s \ {Max(s)}], ids[Max(s)], payload)
    BY <1>7 DEF Unfolded
  <1>9. F0[{}] = PayloadStart(v)
    BY <1>8
  <1>10. ASSUME NEW k \in 0..(len - 1)
         PROVE  F0[1..(k + 1)] = PayloadId(v, F0[1..k], ids[k + 1], payload)
    <2>1. 1..(k + 1) \in SUBSET D /\ k \in Nat
      BY <1>1
    <2> QED
      BY <1>8, <2>1, PrefixFacts
  <1> QED
    BY <1>1, <1>3, <1>9, <1>10 DEF IsPayloadRun

(* The state of the loop after the ids of the set done. *)
PayloadsDone(v, done, payload, acc) ==
    /\ acc.mutable = MutableSetPayload(v.mutable, done, payload)
    /\ acc.overlays = [i \in DOMAIN v.immutables |-> OldestIn(v, done, i)]
    /\ acc = [mutable |-> acc.mutable, overlays |-> acc.overlays, hit |-> acc.hit]

LEMMA PayloadAgain ==
    ASSUME NEW m \in Mutable, NEW done, NEW id \in Id, NEW payload \in OptPayload
    PROVE  /\ Alive(MutableSetPayload(m, done, payload), id) <=> Alive(m, id)
           /\ Alive(m, id) =>
                MutableSetPayload(MutableSetPayload(m, done, payload), {id}, payload)
                  = MutableSetPayload(m, done \cup {id}, payload)
           /\ ~Alive(m, id) =>
                MutableSetPayload(m, done \cup {id}, payload) = MutableSetPayload(m, done, payload)
  <1> DEFINE n == MutableSetPayload(m, done, payload)
  <1>1. \A x \in Id : m.rows[x] # NoRow =>
          /\ m.rows[x] \in Row
          /\ [m.rows[x] EXCEPT !.payload = payload] # NoRow
          /\ [[m.rows[x] EXCEPT !.payload = payload] EXCEPT !.payload = payload]
               = [m.rows[x] EXCEPT !.payload = payload]
    BY NoRowAssumption DEF Mutable, Rows, OptRow, Row
  <1>2. /\ n.deleted = m.deleted
        /\ \A x \in Id : n.rows[x] = IF x \in done /\ Alive(m, x)
                                       THEN [m.rows[x] EXCEPT !.payload = payload] ELSE m.rows[x]
        /\ n = [rows |-> n.rows, deleted |-> n.deleted]
        /\ n.rows = [x \in Id |-> n.rows[x]]
    BY DEF MutableSetPayload, Mutable
  <1> HIDE DEF n
  <1>3. \A x \in Id : Alive(n, x) <=> Alive(m, x)
    BY <1>1, <1>2 DEF Alive
  <1>4. ASSUME Alive(m, id)
        PROVE  MutableSetPayload(n, {id}, payload) = MutableSetPayload(m, done \cup {id}, payload)
    <2> DEFINE left == [x \in Id |-> IF x \in {id} /\ Alive(n, x)
                                       THEN [n.rows[x] EXCEPT !.payload = payload] ELSE n.rows[x]]
               right == [x \in Id |-> IF x \in done \cup {id} /\ Alive(m, x)
                                        THEN [m.rows[x] EXCEPT !.payload = payload] ELSE m.rows[x]]
    <2>1. \A x \in Id : left[x] = right[x]
      BY <1>1, <1>2, <1>3, <1>4 DEF Alive
    <2>2. left = right
      BY <2>1
    <2>3. /\ MutableSetPayload(n, {id}, payload) = [rows |-> left, deleted |-> n.deleted]
          /\ MutableSetPayload(m, done \cup {id}, payload) = [rows |-> right, deleted |-> m.deleted]
      BY <1>2 DEF MutableSetPayload, Mutable
    <2> QED
      BY <1>2, <2>2, <2>3
  <1>5. ASSUME ~Alive(m, id)
        PROVE  MutableSetPayload(m, done \cup {id}, payload) = MutableSetPayload(m, done, payload)
    BY <1>5 DEF MutableSetPayload
  <1> QED
    BY <1>3, <1>4, <1>5 DEF n

LEMMA PayloadsKeepAlive ==
    ASSUME NEW v \in View, NEW done, NEW id \in Id, NEW payload \in OptPayload, NEW acc,
           PayloadsDone(v, done, payload, acc)
    PROVE  Alive(acc.mutable, id) <=> Alive(v.mutable, id)
  <1>1. v.mutable \in Mutable /\ acc.mutable = MutableSetPayload(v.mutable, done, payload)
    BY DEF View, PayloadsDone
  <1>2. Alive(MutableSetPayload(v.mutable, done, payload), id) <=> Alive(v.mutable, id)
    BY <1>1, PayloadAgain
  <1> QED
    BY <1>1, <1>2

(* One more id: a duplicate finds its row again and counts again. *)
LEMMA PayloadIdAfter ==
    ASSUME NEW v \in View, WellFormed(v), NEW done, NEW id \in Id,
           NEW payload \in OptPayload, NEW acc, PayloadsDone(v, done, payload, acc)
    PROVE  PayloadsDone(v, done \cup {id}, payload, PayloadId(v, acc, id, payload))
  <1> DEFINE next == PayloadId(v, acc, id, payload)
             m == v.mutable
  <1>0. /\ acc.mutable = MutableSetPayload(v.mutable, done, payload)
        /\ acc.overlays = [i \in DOMAIN v.immutables |-> OldestIn(v, done, i)]
        /\ acc = [mutable |-> acc.mutable, overlays |-> acc.overlays, hit |-> acc.hit]
    BY DEF PayloadsDone
  <1>1. m \in Mutable
    BY DEF View
  <1>7. /\ Alive(MutableSetPayload(m, done, payload), id) <=> Alive(m, id)
        /\ Alive(m, id) =>
             MutableSetPayload(MutableSetPayload(m, done, payload), {id}, payload)
               = MutableSetPayload(m, done \cup {id}, payload)
        /\ ~Alive(m, id) =>
             MutableSetPayload(m, done \cup {id}, payload) = MutableSetPayload(m, done, payload)
    BY <1>1, PayloadAgain
  <1>2. Alive(acc.mutable, id) <=> Alive(m, id)
    BY <1>0, <1>7
  <1>3. Alive(m, id) => Holders(v, id) = {}
    BY DEF WellFormed, RowIds, Alive
  <1>4. CASE Alive(m, id)
    <2>1. next = [acc EXCEPT !.mutable = MutableSetPayload(@, {id}, payload), !.hit = @ + 1]
      BY <1>2, <1>4 DEF PayloadId
    <2>2. next = [mutable |-> MutableSetPayload(acc.mutable, {id}, payload),
                  overlays |-> acc.overlays, hit |-> acc.hit + 1]
      BY <1>0, <2>1
    <2>3. MutableSetPayload(acc.mutable, {id}, payload) = MutableSetPayload(m, done \cup {id}, payload)
      BY <1>0, <1>4, <1>7
    <2>4. \A i : OldestIn(v, done \cup {id}, i) = OldestIn(v, done, i)
      BY <1>4 DEF OldestIn
    <2> QED
      BY <1>0, <2>2, <2>3, <2>4 DEF PayloadsDone
  <1>5. CASE ~Alive(m, id) /\ Holders(v, id) # {}
    <2> DEFINE first == Min(Holders(v, id))
    <2>1. next = [acc EXCEPT !.overlays[first] = @ \cup {id}, !.hit = @ + 1]
      BY <1>2, <1>5 DEF PayloadId
    <2>2. next = [mutable |-> acc.mutable, overlays |-> [acc.overlays EXCEPT ![first] = @ \cup {id}],
                  hit |-> acc.hit + 1]
      BY <1>0, <2>1
    <2>3. first \in DOMAIN v.immutables /\ first \in Holders(v, id)
      BY <1>5, OldestHolder
    <2>4. MutableSetPayload(m, done \cup {id}, payload) = MutableSetPayload(m, done, payload)
      BY <1>5, <1>7
    <2>5. \A i \in DOMAIN v.immutables :
            OldestIn(v, done \cup {id}, i)
              = IF i = first THEN OldestIn(v, done, i) \cup {id} ELSE OldestIn(v, done, i)
      BY <1>5, <2>3 DEF OldestIn
    <2>6. [acc.overlays EXCEPT ![first] = @ \cup {id}]
            = [i \in DOMAIN v.immutables |-> OldestIn(v, done \cup {id}, i)]
      <3> HIDE DEF first
      <3> QED
        BY <1>0, <2>3, <2>5
    <2> HIDE DEF first, next
    <2> QED
      BY <1>0, <2>2, <2>4, <2>6 DEF next, PayloadsDone
  <1>6. CASE ~Alive(m, id) /\ Holders(v, id) = {}
    <2>1. next = acc
      BY <1>2, <1>6 DEF PayloadId
    <2>2. MutableSetPayload(m, done \cup {id}, payload) = MutableSetPayload(m, done, payload)
      BY <1>6, <1>7
    <2>3. \A i : OldestIn(v, done \cup {id}, i) = OldestIn(v, done, i)
      BY <1>6 DEF OldestIn
    <2> QED
      BY <1>0, <2>1, <2>2, <2>3 DEF PayloadsDone
  <1> QED
    BY <1>4, <1>5, <1>6

ShownPositions(v, ids, k) == {j \in 1..k : LookupPoint(v, ids[j]) # NoRow}

LEMMA PayloadProgress ==
    ASSUME NEW v \in View, WellFormed(v), NEW ids \in Seq(Id), NEW payload \in OptPayload,
           NEW F, IsPayloadRun(v, ids, payload, F)
    PROVE  \A k \in 0..Len(ids) :
             /\ PayloadsDone(v, UptoIds(ids, k), payload, F[1..k])
             /\ F[1..k].hit = Cardinality(ShownPositions(v, ids, k))
  <1> DEFINE len == Len(ids)
             Done(k) == /\ PayloadsDone(v, UptoIds(ids, k), payload, F[1..k])
                        /\ F[1..k].hit = Cardinality(ShownPositions(v, ids, k))
             S == {k \in 0..len : Done(k)}
  <1>1. len \in Nat
    BY LenProperties
  <1>2. Done(0)
    <2>1. F[1..0] = PayloadStart(v)
      <3>1. 1..0 = {}
        OBVIOUS
      <3> QED
        BY <3>1 DEF IsPayloadRun
    <2>2. MutableSetPayload(v.mutable, {}, payload) = v.mutable
      <3>1. v.mutable \in Mutable
        BY DEF View
      <3> QED
        BY <3>1 DEF MutableSetPayload, Mutable, Rows
    <2>3. \A i : OldestIn(v, {}, i) = {}
      BY DEF OldestIn
    <2>4. PayloadsDone(v, {}, payload, PayloadStart(v))
      BY <2>2, <2>3 DEF PayloadsDone, PayloadStart
    <2>5. UptoIds(ids, 0) = {}
      BY UptoIdsFacts
    <2>6. ShownPositions(v, ids, 0) = {}
      BY DEF ShownPositions
    <2>7. PayloadStart(v).hit = 0
      BY DEF PayloadStart
    <2> QED
      BY <2>1, <2>4, <2>5, <2>6, <2>7, FS_EmptySet
  <1>3. ASSUME NEW k \in 0..(len - 1), Done(k) PROVE Done(k + 1)
    <2> DEFINE done == UptoIds(ids, k)
               acc == F[1..k]
               id == ids[k + 1]
               before == ShownPositions(v, ids, k)
    <2>1. done \in SUBSET Id /\ id \in Id /\ UptoIds(ids, k + 1) = done \cup {id}
      BY UptoIdsFacts
    <2>2. PayloadsDone(v, done, payload, acc) /\ acc.hit = Cardinality(before)
      BY <1>3
    <2>3. F[1..(k + 1)] = PayloadId(v, acc, id, payload)
      BY DEF IsPayloadRun
    <2>4. IsFiniteSet(before) /\ k + 1 \notin before
      <3>1. before \in SUBSET (1..k) /\ k + 1 \notin 1..k /\ k \in Nat
        BY <1>1 DEF ShownPositions
      <3> HIDE DEF before
      <3> QED
        <4>1. IsFiniteSet(1..k)
          BY <3>1, FS_Interval
        <4> QED
          BY <3>1, <4>1, FS_Subset
    <2>5. Cardinality(before \cup {k + 1}) = Cardinality(before) + 1
      BY <2>4, FS_AddElement
    <2>6. ShownPositions(v, ids, k + 1)
            = IF LookupPoint(v, id) # NoRow THEN before \cup {k + 1} ELSE before
      <3>1. 1..(k + 1) = (1..k) \cup {k + 1}
        BY <1>1
      <3> QED
        BY <3>1 DEF ShownPositions
    <2> HIDE DEF done, acc, id, before
    <2>7. PayloadsDone(v, done \cup {id}, payload, PayloadId(v, acc, id, payload))
      BY <2>1, <2>2, PayloadIdAfter
    <2>8. PayloadId(v, acc, id, payload).hit
            = IF LookupPoint(v, id) # NoRow THEN acc.hit + 1 ELSE acc.hit
      <3>1. Alive(acc.mutable, id) <=> Alive(v.mutable, id)
        BY <2>1, <2>2, PayloadsKeepAlive
      <3>2. acc = [mutable |-> acc.mutable, overlays |-> acc.overlays, hit |-> acc.hit]
        BY <2>2 DEF PayloadsDone
      <3>3. LookupPoint(v, id) # NoRow <=> Alive(acc.mutable, id) \/ Holders(v, id) # {}
        BY <2>1, <3>1, LookupFinds
      <3> QED
        BY <3>2, <3>3 DEF PayloadId
    <2> QED
      BY <2>1, <2>2, <2>3, <2>5, <2>6, <2>7, <2>8
  <1> HIDE DEF Done
  <1>4. 0 \in S /\ \A k \in 0..(len - 1) : k \in S => k + 1 \in S
    BY <1>1, <1>2, <1>3
  <1>5. \A k \in S : Done(k)
    OBVIOUS
  <1> HIDE DEF S
  <1>6. \A k \in 0..len : k \in S
    BY <1>1, <1>4, LoopInduction
  <1> QED
    BY <1>5, <1>6 DEF Done

(* apply_payload's loop leaves the view of the set of its ids and counts   *)
(* every listed id that is shown, duplicates included.                     *)
LEMMA PayloadOfAnyList ==
    ASSUME NEW v \in View, WellFormed(v), NEW ids \in Seq(Id), NEW payload \in OptPayload
    PROVE  /\ PayloadLoop(v, ids, payload).view = ApplyPayload(v, ToSet(ids), payload)
           /\ PayloadLoop(v, ids, payload).hit
                = Cardinality({k \in DOMAIN ids : LookupPoint(v, ids[k]) # NoRow})
  <1>1. PICK F : PayloadFolded(v, ids, payload) = F[1..Len(ids)] /\ IsPayloadRun(v, ids, payload, F)
    BY PayloadFold
  <1> DEFINE acc == F[1..Len(ids)]
             all == ToSet(ids)
             w == ApplyPayload(v, all, payload)
  <1>2. Len(ids) \in Nat /\ UptoIds(ids, Len(ids)) = all /\ DOMAIN ids = 1..Len(ids)
    BY LenProperties, UptoIdsFacts
  <1>4. PayloadLoop(v, ids, payload)
          = [view |-> [mutable    |-> acc.mutable,
                       immutables |-> [i \in DOMAIN v.immutables |->
                                         SetOverlayBatch(v.immutables[i], acc.overlays[i], payload)]],
             hit  |-> acc.hit]
    BY <1>1 DEF PayloadLoop, PayloadFolded, PayloadStart
  <1>5. /\ PayloadsDone(v, UptoIds(ids, Len(ids)), payload, acc)
        /\ acc.hit = Cardinality(ShownPositions(v, ids, Len(ids)))
    <2>1. \A k \in 0..Len(ids) :
            /\ PayloadsDone(v, UptoIds(ids, k), payload, F[1..k])
            /\ F[1..k].hit = Cardinality(ShownPositions(v, ids, k))
      BY <1>1, PayloadProgress
    <2> QED
      BY <1>2, <2>1
  <1> HIDE DEF acc
  <1>7. PayloadLoop(v, ids, payload).view = w
    <2>1. /\ acc.mutable = MutableSetPayload(v.mutable, all, payload)
          /\ acc.overlays = [i \in DOMAIN v.immutables |-> OldestIn(v, all, i)]
      BY <1>2, <1>5 DEF PayloadsDone
    <2> DEFINE segs == [i \in DOMAIN v.immutables |->
                          SetOverlayBatch(v.immutables[i], OldestIn(v, all, i), payload)]
    <2>2. [i \in DOMAIN v.immutables |-> SetOverlayBatch(v.immutables[i], acc.overlays[i], payload)] = segs
      BY <2>1
    <2>3. w = [mutable |-> MutableSetPayload(v.mutable, all, payload), immutables |-> segs]
      <3>1. \A i : OldestIn(v, all, i)
                     = {id \in {x \in all : ~Alive(v.mutable, x)} :
                          i \in Holders(v, id) /\ i = Min(Holders(v, id))}
        BY DEF OldestIn
      <3> QED
        BY <3>1 DEF ApplyPayload
    <2>4. PayloadLoop(v, ids, payload).view = [mutable |-> acc.mutable, immutables |-> segs]
      BY <1>4, <2>2
    <2> HIDE DEF w, segs
    <2> QED
      BY <2>1, <2>3, <2>4
  <1>8. PayloadLoop(v, ids, payload).hit = acc.hit
    BY <1>4
  <1>9. ShownPositions(v, ids, Len(ids)) = {k \in DOMAIN ids : LookupPoint(v, ids[k]) # NoRow}
    BY <1>2 DEF ShownPositions
  <1> QED
    BY <1>5, <1>7, <1>8, <1>9

-----------------------------------------------------------------------------
(* Compaction. *)

MergeSegment(m, seg) == MutableUpsert(m, LiveRows(seg))
MergeFolded(v) == FoldLeft(LAMBDA m, seg : MutableUpsert(m, LiveRows(seg)), EmptyMutable, v.immutables)

(* F[1..k] is the mutable segment after the first k segments. *)
IsMergeRun(v, F) ==
    /\ F[{}] = EmptyMutable
    /\ \A k \in 0..(Len(v.immutables) - 1) : F[1..(k + 1)] = MergeSegment(F[1..k], v.immutables[k + 1])

LEMMA MergeFold ==
    ASSUME NEW v \in View
    PROVE  \E F : MergeFolded(v) = F[1..Len(v.immutables)] /\ IsMergeRun(v, F)
  <1> DEFINE segs == v.immutables
             D == DOMAIN segs
             h == [x \in Mutable \X Segment |-> MergeSegment(x[1], x[2])]
             Unfolded(F) == [s \in SUBSET D |-> IF s = {} THEN EmptyMutable
                               ELSE MutableUpsert(F[s \ {Max(s)}], LiveRows(segs[Max(s)]))]
             F0 == CHOOSE F : F = Unfolded(F)
  <1>1. segs \in Seq(Segment)
    BY DEF View
  <1>2. PICK len \in Nat : D = 1..len /\ len = Len(segs) /\ \A i \in D : segs[i] \in Segment
    BY <1>1, LenProperties, ElementOfSeq
  <1>3. MergeFolded(v) = F0[D]
    BY DEF MergeFolded, FoldLeft, MapThenFoldSet
  <1>4. IsBody(h, Segment, Mutable)
    <2>1. \A m \in Mutable, seg \in Segment : MergeSegment(m, seg) \in Mutable
      BY LiveRowsType, MutableUpsertType DEF MergeSegment, Batch
    <2> QED
      BY <2>1 DEF IsBody
  <1>5. ASSUME NEW F, IsFold(F, segs, Mutable) PROVE FoldStep(h, EmptyMutable, segs, F) = Unfolded(F)
    <2>1. ASSUME NEW s \in SUBSET D, s # {}
          PROVE  h[<<F[s \ {Max(s)}], segs[Max(s)]>>]
                   = MutableUpsert(F[s \ {Max(s)}], LiveRows(segs[Max(s)]))
      <3>1. F[s \ {Max(s)}] \in Mutable /\ segs[Max(s)] \in Segment
        BY <1>2, <1>5, <2>1, LastOf DEF IsFold
      <3> QED
        BY <3>1 DEF MergeSegment
    <2> HIDE DEF h, segs
    <2> QED
      BY <2>1 DEF FoldStep
  <1> HIDE DEF h, Unfolded, segs
  <1>6. \E F : F = Unfolded(F)
    <2>1. \E F : IsFold(F, segs, Mutable) /\ F = FoldStep(h, EmptyMutable, segs, F)
      BY <1>1, <1>4, EmptyMutableType, FoldExists
    <2> QED
      BY <1>5, <2>1, Zenon
  <1>7. F0 = Unfolded(F0)
    BY <1>6, Zenon
  <1> HIDE DEF F0
  <1>8. \A s \in SUBSET D : F0[s] = IF s = {} THEN EmptyMutable
                                    ELSE MutableUpsert(F0[s \ {Max(s)}], LiveRows(segs[Max(s)]))
    BY <1>7 DEF Unfolded
  <1>9. F0[{}] = EmptyMutable
    BY <1>8
  <1>10. ASSUME NEW k \in 0..(len - 1)
         PROVE  F0[1..(k + 1)] = MergeSegment(F0[1..k], segs[k + 1])
    <2>1. 1..(k + 1) \in SUBSET D /\ k \in Nat
      BY <1>2
    <2> QED
      BY <1>8, <2>1, PrefixFacts DEF MergeSegment
  <1> QED
    BY <1>2, <1>3, <1>9, <1>10 DEF IsMergeRun, segs

(* The newest live row of each id among the first k segments. *)
HoldersUpto(v, k, id) == {i \in 1..k : Alive(v.immutables[i], id)}
MergedRow(v, k, id) ==
    IF HoldersUpto(v, k, id) # {} THEN LiveRows(v.immutables[Max(HoldersUpto(v, k, id))])[id] ELSE NoRow
MergedUpto(v, k) == [rows |-> [id \in Id |-> MergedRow(v, k, id)], deleted |-> {}]

LEMMA MergeSegmentAfter ==
    ASSUME NEW v \in View, NEW k \in 0..(Len(v.immutables) - 1)
    PROVE  MergeSegment(MergedUpto(v, k), v.immutables[k + 1]) = MergedUpto(v, k + 1)
  <1> DEFINE seg == v.immutables[k + 1]
  <1>1. v.immutables \in Seq(Segment) /\ Len(v.immutables) \in Nat /\ k \in Nat
    BY LenProperties DEF View
  <1>2. seg \in Segment
    BY <1>1
  <1>3. ASSUME NEW id \in Id
        PROVE  MergedRow(v, k + 1, id)
                 = IF LiveRows(seg)[id] # NoRow THEN LiveRows(seg)[id] ELSE MergedRow(v, k, id)
    <2>1. CASE Alive(seg, id)
      <3>1. /\ k + 1 \in HoldersUpto(v, k + 1, id)
            /\ \A t \in HoldersUpto(v, k + 1, id) : t <= k + 1
            /\ HoldersUpto(v, k + 1, id) \in SUBSET Nat
        BY <1>1, <2>1 DEF HoldersUpto
      <3>2. Max(HoldersUpto(v, k + 1, id)) = k + 1
        BY <3>1, MaxIs
      <3>3. MergedRow(v, k + 1, id) = LiveRows(seg)[id]
        BY <3>1, <3>2 DEF MergedRow
      <3>4. LiveRows(seg)[id] \in Row
        BY <1>2, <2>1, PointOfType DEF LiveRows, Alive
      <3> QED
        BY <3>3, <3>4, NoRowAssumption
    <2>2. CASE ~Alive(seg, id)
      <3>1. HoldersUpto(v, k + 1, id) = HoldersUpto(v, k, id)
        <4>1. 1..(k + 1) = (1..k) \cup {k + 1}
          BY <1>1
        <4> QED
          BY <2>2, <4>1 DEF HoldersUpto
      <3>2. LiveRows(seg)[id] = NoRow
        BY <2>2 DEF LiveRows
      <3> QED
        BY <3>1, <3>2 DEF MergedRow
    <2> QED
      BY <2>1, <2>2
  <1> HIDE DEF seg
  <1>4. MergeSegment(MergedUpto(v, k), seg) = MergedUpto(v, k + 1)
    BY <1>3 DEF MergeSegment, MutableUpsert, MergedUpto
  <1> QED
    BY <1>4 DEF seg

(* compact_locked's loop over the segments, oldest first, leaves the       *)
(* newest live row of each id, and those are what a lookup finds.          *)
LEMMA CompactLoopMerges ==
    ASSUME NEW v \in View, WellFormed(v)
    PROVE  CompactLoop(v) = Merged(v) /\ CompactLoop(v).rows = LiveStore(v)
  <1>1. PICK F : MergeFolded(v) = F[1..Len(v.immutables)] /\ IsMergeRun(v, F)
    BY MergeFold
  <1> DEFINE len == Len(v.immutables)
             S == {k \in 0..len : F[1..k] = MergedUpto(v, k)}
  <1>2. len \in Nat /\ DOMAIN v.immutables = 1..len
    BY LenProperties DEF View
  <1>3. F[1..0] = MergedUpto(v, 0)
    <2>1. 1..0 = {}
      OBVIOUS
    <2>2. \A id : MergedRow(v, 0, id) = NoRow
      BY <2>1 DEF MergedRow, HoldersUpto
    <2> QED
      BY <1>1, <2>1, <2>2 DEF IsMergeRun, MergedUpto, EmptyMutable
  <1>4. ASSUME NEW k \in 0..(len - 1), F[1..k] = MergedUpto(v, k)
        PROVE  F[1..(k + 1)] = MergedUpto(v, k + 1)
    <2>1. F[1..(k + 1)] = MergeSegment(MergedUpto(v, k), v.immutables[k + 1])
      BY <1>1, <1>4 DEF IsMergeRun
    <2> QED
      BY <2>1, MergeSegmentAfter
  <1>5. MergeFolded(v) = MergedUpto(v, len)
    <2>1. 0 \in S /\ \A k \in 0..(len - 1) : k \in S => k + 1 \in S
      BY <1>2, <1>3, <1>4
    <2>2. len \in S => F[1..len] = MergedUpto(v, len)
      OBVIOUS
    <2> HIDE DEF S
    <2>3. \A k \in 0..len : k \in S
      BY <1>2, <2>1, LoopInduction
    <2> QED
      BY <1>1, <1>2, <2>2, <2>3
  <1>6. CompactLoop(v) = MutableUpsert(MergedUpto(v, len), MutableLiveRows(v.mutable))
    BY <1>5 DEF CompactLoop, MergeFolded
  <1>7. \A id \in Id : HoldersUpto(v, len, id) = Holders(v, id)
    BY <1>2 DEF HoldersUpto, Holders
  <1>8. \A id \in Id : MutableLiveRows(v.mutable)[id]
                         = IF Alive(v.mutable, id) THEN v.mutable.rows[id] ELSE NoRow
    BY DEF MutableLiveRows
  <1>9. CompactLoop(v) = Merged(v)
    <2>1. ASSUME NEW id \in Id
          PROVE  (IF MutableLiveRows(v.mutable)[id] # NoRow THEN MutableLiveRows(v.mutable)[id]
                  ELSE MergedRow(v, len, id))
                 = IF Alive(v.mutable, id) THEN v.mutable.rows[id]
                   ELSE IF Holders(v, id) # {} THEN LiveRows(v.immutables[Max(Holders(v, id))])[id]
                   ELSE NoRow
      BY <1>7, <1>8 DEF Alive, MergedRow
    <2>2. \A id \in Id : MergedUpto(v, len).rows[id] = MergedRow(v, len, id)
      BY DEF MergedUpto
    <2>3. MergedUpto(v, len).deleted = {}
      BY DEF MergedUpto
    <2> QED
      BY <1>6, <2>1, <2>2, <2>3 DEF MutableUpsert, Merged
  <1> QED
    BY <1>9, MergeIsLiveStore

-----------------------------------------------------------------------------
(* The properties. *)

LEMMA ListsAreSequences ==
    ASSUME NEW S, NEW n \in Nat, NEW s \in [1..n -> S]
    PROVE  s \in Seq(S)
  OBVIOUS

(* engine.rs, apply_upsert: for every history of the collection and every  *)
(* list of points, with any duplicates, the loop's tombstones and rows are *)
(* those of the batch of the last rows.                                    *)
THEOREM UpsertsOfListsAreBatches == Spec => []UpsertLoopIsBatch
  <1>1. Inv => UpsertLoopIsBatch
    <2> SUFFICES ASSUME Inv, NEW n \in 1..MaxBatch, NEW points \in [1..n -> Point]
                 PROVE  UpsertLoop(view, points) = ApplyUpsert(view, BatchOf(points))
      BY DEF UpsertLoopIsBatch, PointLists
    <2>1. n \in Nat
      BY MaxBatchAssumption
    <2>2. points \in Seq(Point)
      BY <2>1, ListsAreSequences
    <2> QED
      BY <2>2, UpsertOfAnyList DEF Inv, TypeOK
  <1> QED
    BY <1>1, Invariance, PTL

(* apply_delete: the loop deletes the set of the listed ids, and without   *)
(* duplicates returns how many points disappear from the collection.       *)
THEOREM DeletesOfListsAreBatches == Spec => []DeleteLoopIsBatch
  <1>1. Inv => DeleteLoopIsBatch
    <2> SUFFICES ASSUME Inv, NEW n \in 1..MaxBatch, NEW ids \in [1..n -> Id]
                 PROVE  /\ DeleteLoop(view, ids).view = ApplyDelete(view, ToSet(ids))
                        /\ IsInjective(ids) =>
                             DeleteLoop(view, ids).deleted
                               = Cardinality({id \in Id :
                                    /\ LookupPoint(view, id) # NoRow
                                    /\ LookupPoint(DeleteLoop(view, ids).view, id) = NoRow})
      BY DEF DeleteLoopIsBatch, IdLists
    <2>1. n \in Nat
      BY MaxBatchAssumption
    <2>2. ids \in Seq(Id)
      BY <2>1, ListsAreSequences
    <2> QED
      BY <2>2, DeleteOfAnyList DEF Inv, TypeOK
  <1> QED
    BY <1>1, Invariance, PTL

(* apply_payload: the loop gives the payload to the set of the listed ids  *)
(* and counts each listed id that exists.                                  *)
THEOREM PayloadsOfListsAreBatches == Spec => []PayloadLoopIsBatch
  <1>1. Inv => PayloadLoopIsBatch
    <2> SUFFICES ASSUME Inv, NEW n \in 1..MaxBatch, NEW ids \in [1..n -> Id],
                        NEW payload \in OptPayload
                 PROVE  /\ PayloadLoop(view, ids, payload).view = ApplyPayload(view, ToSet(ids), payload)
                        /\ PayloadLoop(view, ids, payload).hit
                             = Cardinality({k \in DOMAIN ids : LookupPoint(view, ids[k]) # NoRow})
      BY DEF PayloadLoopIsBatch, IdLists
    <2>1. n \in Nat
      BY MaxBatchAssumption
    <2>2. ids \in Seq(Id)
      BY <2>1, ListsAreSequences
    <2> QED
      BY <2>2, PayloadOfAnyList DEF Inv, TypeOK
  <1> QED
    BY <1>1, Invariance, PTL

(* compact_locked: merging the segments one by one gives what lookups find.*)
THEOREM CompactionMerges == Spec => []CompactLoopIsMerge
  <1>1. Inv => CompactLoopIsMerge
    BY CompactLoopMerges DEF Inv, TypeOK, CompactLoopIsMerge
  <1> QED
    BY <1>1, Invariance, PTL
=============================================================================
