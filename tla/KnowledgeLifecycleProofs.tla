---------------------- MODULE KnowledgeLifecycleProofs ----------------------
(***************************************************************************)
(* Proofs about KnowledgeLifecycle, for every set of ids, cycles, recounts *)
(* and requests and every bound.  What each operation does to a table is   *)
(* in KnowledgeRecordProofs; here the steps are sorted by what they do to  *)
(* the table (StepKinds), and the invariants follow from the kinds.        *)
(***************************************************************************)
EXTENDS KnowledgeLifecycle, KnowledgeRecordProofs, FiniteSetTheorems, TLAPS

\* The metadata a recount is about to write has been through Validate too.
RecountSound ==
    \A k \in Recounts : recount[k] # None =>
        \A i \in Ids : recount[k][i] # None => Consistent(recount[k][i])

IInv == TypeOK /\ Sound(rec) /\ RecountSound

\* A step stores a new row.
Inserts == \E i \in Ids \ used, q \in Record :
    /\ Consistent(q.meta) /\ ~q.meta.canonical
    /\ rec' = [rec EXCEPT ![i] = q] /\ used' = used \cup {i}

\* A step removes keys from a row.
Clears == \E i \in Stored(rec), K \in SUBSET Keys : Clear(i, K)

-----------------------------------------------------------------------------
(* Type correctness and the kinds of steps.                                *)

\* The tally of references is a number, since there are finitely many rows.
LEMMA TallyType == \A i \in Ids : Tally(rec, i) \in Nat
  <1> SUFFICES ASSUME NEW i \in Ids PROVE Tally(rec, i) \in Nat
    OBVIOUS
  <1>1. /\ {j \in Stored(rec) : rec[j].meta.avoided = i} \subseteq Ids
        /\ {j \in Stored(rec) : rec[j].supersededBy = i} \subseteq Ids
    BY DEF Stored
  <1>2. /\ Cardinality({j \in Stored(rec) : rec[j].meta.avoided = i}) \in Nat
        /\ Cardinality({j \in Stored(rec) : rec[j].supersededBy = i}) \in Nat
    BY <1>1, IdsAssumption, FS_Subset, FS_CardinalityType
  <1> QED
    BY <1>2 DEF Tally

\* The empty store satisfies the invariant.
LEMMA InitSound == Init => IInv
  <1> SUFFICES ASSUME Init PROVE IInv
    OBVIOUS
  <1>1. rec \in Table /\ Stored(rec) = {} /\ used = {}
    BY DEF Init, Table, Stored
  <1>2. /\ reviews \in [Ids -> [Flags -> Nat]]
        /\ cycle \in [Cycles -> {"idle", "listed", "run"}]
        /\ plan \in [Cycles -> [Ids -> {1, 2, 3, None}]]
        /\ pending \in [Cycles -> SUBSET Ids]
        /\ recount \in [Recounts -> [Ids -> Meta \cup {None}] \cup {None}]
        /\ count \in [Requests -> Ids \cup {None}]
        /\ ops \in Nat
    BY DEF Init, NoPlan
  <1>3. TypeOK
    BY <1>1, <1>2 DEF TypeOK
  <1>4. RecountSound
    BY DEF Init, RecountSound
  <1> QED
    BY <1>1, <1>3, <1>4 DEF IInv, Sound

\* A request other than Clear rewrites the table as its operation does.
LEMMA RequestStep ==
    ASSUME IInv, NEW i \in Stored(rec), Requested(i)
    PROVE  TableStep(rec, rec') \/ Clears
  <1>1. rec \in Table /\ Sound(rec) /\ used \subseteq Ids
    BY DEF IInv, TypeOK
  <1>2. rec[i] \in Record /\ Consistent(rec[i].meta) /\ i \in Ids
    BY <1>1, Rows
  <1>3. CASE \E s \in NewStatuses : Edit(i, s)
    <2>1. PICK s \in Statuses \cup {"absent"} : Edit(i, s)
      BY <1>3, LifecycleAssumption
    <2>2. rec' = [rec EXCEPT ![i] = WithStatus(rec[i], s)]
      BY <2>1 DEF Edit, Request
    <2> QED
      BY <1>1, <1>2, <2>2, WithStatusFacts, OneRow
  <1>4. CASE \E K \in SUBSET Keys : Clear(i, K)
    BY <1>4 DEF Clears
  <1>5. CASE Delete(i)
    BY <1>1, <1>5, OneRow DEF Delete, Request
  <1>6. CASE \E s \in used \cup {None} : Outdate(i, s)
    BY <1>1, <1>6, MarkOutdatedStep DEF Outdate, Request
  <1>7. CASE \E verified \in BOOLEAN : Promote(i, verified)
    BY <1>1, <1>7, PromoteStep DEF Promote, Request
  <1>8. CASE \E D \in SUBSET (used \ {i}) : Merge(i, D)
    BY <1>1, <1>8, MergeStep DEF Merge, Request
  <1>9. CASE \E layer \in Layers : SetLayer(i, layer)
    BY <1>1, <1>9, LayerStep DEF SetLayer, Request, PromoteSediment
  <1>10. CASE Demote(i)
    BY <1>1, <1>10, DemoteStep DEF Demote, Request
  <1> QED
    BY <1>3, <1>4, <1>5, <1>6, <1>7, <1>8, <1>9, <1>10 DEF Requested

\* Every step is of one of five kinds.
LEMMA StepKinds ==
    ASSUME IInv, [Next]_vars
    PROVE  rec' = rec \/ TableStep(rec, rec') \/ Inserts \/ Clears \/ WritesBack
  <1>1. rec \in Table /\ Sound(rec) /\ used \subseteq Ids
    BY DEF IInv, TypeOK
  <1>2. ASSUME NEW i \in Ids, NEW type \in NewTypes, NEW s \in NewStatuses,
               Store(i, type, s)
        PROVE  Inserts
    <2>1. type \in Types /\ s \in Statuses \cup {"absent"}
      BY LifecycleAssumption
    <2>2. LET q == NewRecord(type, FALSE, s, None) IN
          q \in Record /\ Consistent(q.meta) /\ ~q.meta.canonical
      BY <2>1, NewRecordFacts
    <2> QED
      BY <1>2, <2>2 DEF Store, Inserts
  <1>3. ASSUME NEW r \in Requests, NEW i \in Ids, NEW j \in used,
               StoreDecision(r, i, j)
        PROVE  Inserts
    <2>1. LET q == NewRecord("semantic", TRUE, "confirmed", j) IN
          q \in Record /\ Consistent(q.meta) /\ ~q.meta.canonical
      BY <1>1, NewRecordFacts DEF Types, Statuses
    <2> QED
      BY <1>3, <2>1 DEF StoreDecision, Inserts
  <1>4. ASSUME NEW r \in Requests, CountReference(r)
        PROVE  TableStep(rec, rec')
    <2>1. count[r] \in Ids
      BY <1>4 DEF CountReference, IInv, TypeOK
    <2> QED
      BY <1>1, <1>4, <2>1, IncrementStep DEF CountReference
  <1>5. ASSUME NEW c \in Cycles, Cycle(c)
        PROVE  rec' = rec \/ TableStep(rec, rec')
    <2>1. ASSUME NEW i \in Ids, CyclePromotes(c, i)
          PROVE  rec' = rec \/ TableStep(rec, rec')
      <3>1. CASE rec[i] # None
        <4>1. i \in Stored(rec) /\ 1 \in Layers
          BY <3>1 DEF Stored, Layers
        <4>2. rec' = [rec EXCEPT ![i].layer = 1]
          BY <2>1, <3>1 DEF CyclePromotes, PromoteSediment
        <4> QED
          BY <1>1, <4>1, <4>2, LayerStep
      <3> QED
        BY <2>1, <3>1 DEF CyclePromotes
    <2> QED
      BY <1>5, <2>1
      DEF Cycle, CycleList, loadPendingSedimentReviews, CycleEnds,
          createSedimentReviewItem
  <1>6. ASSUME NEW i \in Ids, ResolveReview(i) \/ \E f \in Flags : DeleteReview(i, f)
        PROVE  rec' = rec
    BY <1>6 DEF ResolveReview, DeleteReview
  <1>7. ASSUME NEW k \in Recounts, RecountScan(k)
        PROVE  rec' = rec
    BY <1>7 DEF RecountScan
  <1>8. CASE UNCHANGED vars
    BY <1>8 DEF vars
  <1> QED
    BY <1>2, <1>3, <1>4, <1>5, <1>6, <1>7, <1>8, RequestStep DEF Next, WritesBack

\* A request touches the table and the bound on operations, nothing else.
LEMMA RequestFrame ==
    ASSUME NEW i \in Stored(rec), Requested(i)
    PROVE  UNCHANGED <<used, reviews, cycle, plan, pending, recount, count>>
           /\ ops' = ops + 1
  BY DEF Requested, Edit, Clear, Delete, Outdate, Promote, Merge, SetLayer,
         Demote, Request, Op, cycleVars

\* What a recount reads is metadata, and sound where the table is.
LEMMA ScanFacts ==
    ASSUME IInv, NEW k \in Recounts, RecountScan(k)
    PROVE  /\ recount' \in [Recounts -> [Ids -> Meta \cup {None}] \cup {None}]
           /\ RecountSound'
  <1> DEFINE stale == {i \in Stored(rec) : rec[i].meta.refs # Tally(rec, i)}
             metas == [i \in Ids |-> IF i \in stale
                         THEN [rec[i].meta EXCEPT !.refs = Tally(rec, i)]
                         ELSE None]
             x == IF stale = {} THEN None ELSE metas
  <1>1. rec \in Table /\ Sound(rec)
        /\ recount \in [Recounts -> [Ids -> Meta \cup {None}] \cup {None}]
    BY DEF IInv, TypeOK
  <1>2. ASSUME NEW i \in stale
        PROVE  LET y == [rec[i].meta EXCEPT !.refs = Tally(rec, i)] IN
               y \in Meta /\ Consistent(y)
    <2>1. i \in Ids /\ rec[i] \in Record /\ Consistent(rec[i].meta)
      BY <1>1, Rows
    <2>2. rec[i].meta \in Meta /\ Tally(rec, i) \in Nat
      BY <2>1, TallyType DEF Record
    <2> DEFINE n == Tally(rec, i)
    <2> HIDE DEF n
    <2>3. LET y == [rec[i].meta EXCEPT !.refs = n] IN y \in Meta /\ Consistent(y)
      BY <2>1, <2>2 DEF Meta, Consistent, n
    <2> QED
      BY <2>3 DEF n
  <1>3. metas \in [Ids -> Meta \cup {None}]
        /\ \A i \in Ids : metas[i] # None => Consistent(metas[i])
    BY <1>2
  <1>4. recount' = [recount EXCEPT ![k] = x]
    BY DEF RecountScan
  <1> HIDE DEF metas, stale
  <1>5. x \in [Ids -> Meta \cup {None}] \cup {None}
        /\ (x # None => \A i \in Ids : x[i] # None => Consistent(x[i]))
    BY <1>3
  <1> HIDE DEF x
  <1>6. RecountSound'
    BY <1>1, <1>4, <1>5 DEF IInv, RecountSound
  <1> QED
    BY <1>1, <1>4, <1>5, <1>6

\* Between the scan of a recount and its write nothing touches what it read.
LEMMA RecountFrame ==
    ASSUME IInv, [Next]_vars, NEW k \in Recounts
    PROVE  recount'[k] \in {recount[k], None} \/ RecountScan(k)
  <1>1. recount = [l \in Recounts |-> recount[l]]
    BY DEF IInv, TypeOK
  <1>2. CASE recount' = recount
    BY <1>2
  <1>3. ASSUME NEW l \in Recounts, RecountScan(l)
        PROVE  recount'[k] = recount[k] \/ RecountScan(k)
    <2>1. CASE l # k
      BY <1>1, <1>3, <2>1 DEF RecountScan
    <2> QED
      BY <1>3, <2>1
  <1>4. ASSUME NEW l \in Recounts, RecountWrite(l)
        PROVE  recount'[k] \in {recount[k], None}
    BY <1>1, <1>4 DEF RecountWrite
  <1>5. CASE UNCHANGED vars
    BY <1>2, <1>5 DEF vars
  <1> QED
    BY <1>2, <1>3, <1>4, <1>5, RequestFrame
    DEF Next, Store, StoreDecision, CountReference, Cycle, CycleList,
        loadPendingSedimentReviews, CycleEnds, CyclePromotes,
        createSedimentReviewItem, ResolveReview, DeleteReview

\* The variables next to the table keep their types, and no id is forgotten.
LEMMA OthersTyped ==
    ASSUME IInv, [Next]_vars
    PROVE  /\ used' \subseteq Ids /\ used \subseteq used'
           /\ reviews' \in [Ids -> [Flags -> Nat]]
           /\ cycle' \in [Cycles -> {"idle", "listed", "run"}]
           /\ plan' \in [Cycles -> [Ids -> {1, 2, 3, None}]]
           /\ pending' \in [Cycles -> SUBSET Ids]
           /\ recount' \in [Recounts -> [Ids -> Meta \cup {None}] \cup {None}]
           /\ count' \in [Requests -> Ids \cup {None}]
           /\ ops' \in Nat
           /\ RecountSound'
  <1> DEFINE Others ==
           /\ used' \subseteq Ids /\ used \subseteq used'
           /\ reviews' \in [Ids -> [Flags -> Nat]]
           /\ cycle' \in [Cycles -> {"idle", "listed", "run"}]
           /\ plan' \in [Cycles -> [Ids -> {1, 2, 3, None}]]
           /\ pending' \in [Cycles -> SUBSET Ids]
           /\ recount' \in [Recounts -> [Ids -> Meta \cup {None}] \cup {None}]
           /\ count' \in [Requests -> Ids \cup {None}]
           /\ ops' \in Nat
           /\ RecountSound'
  <1>1. TypeOK /\ RecountSound
    BY DEF IInv
  <1>2. ASSUME NEW i \in Ids, NEW type \in NewTypes, NEW s \in NewStatuses,
               Store(i, type, s)
        PROVE  Others
    BY <1>1, <1>2 DEF TypeOK, Store, cycleVars, RecountSound
  <1>3. ASSUME NEW r \in Requests, NEW i \in Ids, NEW j \in used,
               StoreDecision(r, i, j)
        PROVE  Others
    BY <1>1, <1>3 DEF TypeOK, StoreDecision, Op, cycleVars, RecountSound
  <1>4. ASSUME NEW r \in Requests, CountReference(r)
        PROVE  Others
    BY <1>1, <1>4 DEF TypeOK, CountReference, cycleVars, RecountSound
  <1>5. ASSUME NEW i \in Stored(rec), Requested(i)
        PROVE  Others
    BY <1>1, <1>5, RequestFrame DEF TypeOK, RecountSound
  <1>6. ASSUME NEW c \in Cycles, Cycle(c)
        PROVE  Others
    <2>1. CASE CycleList(c)
      <3>1. plan' \in [Cycles -> [Ids -> {1, 2, 3, None}]]
        <4>1. PICK seen \in SUBSET Stored(rec) : \E ripe \in SUBSET seen :
                plan' = [plan EXCEPT ![c] =
                           [i \in Ids |-> IF i \in seen
                                          THEN Decide(rec[i], i \in ripe)
                                          ELSE None]]
          BY <2>1 DEF CycleList
        <4>2. PICK ripe \in SUBSET seen :
                plan' = [plan EXCEPT ![c] =
                           [i \in Ids |-> IF i \in seen
                                          THEN Decide(rec[i], i \in ripe)
                                          ELSE None]]
          BY <4>1
        <4>3. ASSUME NEW i \in seen
              PROVE  Decide(rec[i], i \in ripe) \in {1, 2, 3, None}
          BY DEF Decide
        <4>4. [i \in Ids |-> IF i \in seen THEN Decide(rec[i], i \in ripe)
                             ELSE None] \in [Ids -> {1, 2, 3, None}]
          BY <4>3
        <4> DEFINE p == [i \in Ids |-> IF i \in seen
                                      THEN Decide(rec[i], i \in ripe) ELSE None]
        <4>5. p \in [Ids -> {1, 2, 3, None}] /\ plan' = [plan EXCEPT ![c] = p]
          BY <4>2, <4>4
        <4> HIDE DEF p
        <4> QED
          BY <1>1, <4>5 DEF TypeOK
      <3> QED
        BY <1>1, <2>1, <3>1 DEF TypeOK, CycleList, Op, RecountSound
    <2>2. CASE loadPendingSedimentReviews(c)
      BY <1>1, <2>2 DEF TypeOK, loadPendingSedimentReviews, RecountSound
    <2>3. CASE CycleEnds(c)
      BY <1>1, <2>3 DEF TypeOK, CycleEnds, RecountSound
    <2>4. ASSUME NEW i \in Ids, CyclePromotes(c, i)
          PROVE  Others
      BY <1>1, <2>4 DEF TypeOK, CyclePromotes, RecountSound
    <2>5. ASSUME NEW i \in Ids, createSedimentReviewItem(c, i)
          PROVE  Others
      BY <1>1, <2>5
      DEF TypeOK, createSedimentReviewItem, normalizeReviewRequired, Flags,
          RecountSound
    <2> QED
      BY <1>6, <2>1, <2>2, <2>3, <2>4, <2>5 DEF Cycle
  <1>7. ASSUME NEW i \in Ids, ResolveReview(i)
        PROVE  Others
    <2>1. reviews[i]["true"] - 1 \in Nat
      BY <1>1, <1>7 DEF TypeOK, ResolveReview, Flags
    <2> QED
      BY <1>1, <1>7, <2>1
      DEF TypeOK, ResolveReview, normalizeReviewRequired, Flags, RecountSound
  <1>8. ASSUME NEW i \in Ids, NEW f \in Flags, DeleteReview(i, f)
        PROVE  Others
    <2>1. reviews[i][f] - 1 \in Nat
      BY <1>1, <1>8 DEF TypeOK, DeleteReview
    <2> QED
      BY <1>1, <1>8, <2>1 DEF TypeOK, DeleteReview, RecountSound
  <1>9. ASSUME NEW k \in Recounts, RecountScan(k)
        PROVE  Others
    <2>1. UNCHANGED <<rec, used, reviews, cycle, plan, pending, count>>
          /\ ops' = ops + 1
      BY <1>9 DEF RecountScan, Op, cycleVars
    <2>2. /\ recount' \in [Recounts -> [Ids -> Meta \cup {None}] \cup {None}]
          /\ RecountSound'
      BY <1>9, ScanFacts
    <2> QED
      BY <1>1, <2>1, <2>2 DEF TypeOK
  <1>10. ASSUME NEW k \in Recounts, RecountWrite(k)
         PROVE  Others
    BY <1>1, <1>10 DEF TypeOK, RecountWrite, cycleVars, RecountSound
  <1>11. CASE UNCHANGED vars
    BY <1>1, <1>11 DEF TypeOK, vars, RecountSound
  <1> QED
    BY <1>2, <1>3, <1>4, <1>5, <1>6, <1>7, <1>8, <1>9, <1>10, <1>11 DEF Next

\* The table stays one of records that have been through Validate.
LEMMA TableTyped ==
    ASSUME IInv, [Next]_vars
    PROVE  rec' \in Table /\ Sound(rec') /\ Stored(rec') \subseteq used'
  <1>1. /\ rec \in Table /\ Sound(rec) /\ Stored(rec) \subseteq used
        /\ used \subseteq used' /\ used' \subseteq Ids
    BY OthersTyped DEF IInv, TypeOK
  <1>2. CASE rec' = rec
    BY <1>1, <1>2
  <1>3. CASE TableStep(rec, rec')
    BY <1>1, <1>3 DEF TableStep, Sound, Lifecycle
  <1>4. CASE Inserts
    <2>1. PICK i \in Ids \ used, q \in Record :
            /\ Consistent(q.meta) /\ ~q.meta.canonical
            /\ rec' = [rec EXCEPT ![i] = q] /\ used' = used \cup {i}
      BY <1>4 DEF Inserts
    <2> QED
      BY <1>1, <2>1 DEF Table, Sound, Stored
  <1>5. CASE Clears
    <2>1. PICK i \in Stored(rec), K \in SUBSET Keys : Clear(i, K)
      BY <1>5 DEF Clears
    <2>2. /\ rec[i] \in Record /\ Consistent(rec[i].meta)
          /\ rec' = [rec EXCEPT ![i] = Cleared(rec[i], K)]
      BY <1>1, <2>1, Rows DEF Clear, Request
    <2>3. Cleared(rec[i], K) \in Record /\ Consistent(Cleared(rec[i], K).meta)
      BY <2>2, ClearedFacts
    <2> QED
      BY <1>1, <2>2, <2>3 DEF Table, Sound, Stored
  <1>6. CASE WritesBack
    <2>1. PICK k \in Recounts : RecountWrite(k)
      BY <1>6 DEF WritesBack
    <2>2. /\ recount[k] \in [Ids -> Meta \cup {None}]
          /\ \A i \in Ids : recount[k][i] # None => Consistent(recount[k][i])
      BY <2>1 DEF RecountWrite, IInv, TypeOK, RecountSound
    <2>3. ASSUME NEW i \in Ids, rec[i] # None, recount[k][i] # None
          PROVE  LET q == [rec[i] EXCEPT !.meta = recount[k][i]] IN
                 q \in Record /\ q # None /\ Consistent(q.meta)
      <3>1. rec[i] \in Record /\ recount[k][i] \in Meta
        BY <1>1, <2>2, <2>3 DEF Table
      <3>2. LET q == [rec[i] EXCEPT !.meta = recount[k][i]] IN
            q \in Record /\ q.meta = recount[k][i]
        BY <3>1 DEF Record
      <3> QED
        BY <2>2, <2>3, <3>2, RecordAssumption
    <2>4. rec' = [i \in Ids |-> IF rec[i] = None \/ recount[k][i] = None
                    THEN rec[i] ELSE [rec[i] EXCEPT !.meta = recount[k][i]]]
      BY <2>1 DEF RecountWrite
    <2>5. rec' \in Table /\ Stored(rec') = Stored(rec)
      BY <1>1, <2>3, <2>4 DEF Table, Stored
    <2>6. Sound(rec')
      BY <1>1, <2>3, <2>4, <2>5 DEF Sound, Stored
    <2> QED
      BY <1>1, <2>5, <2>6
  <1> QED
    BY <1>2, <1>3, <1>4, <1>5, <1>6, StepKinds

-----------------------------------------------------------------------------
(* The theorems.                                                           *)

\* Invariance: types, and Validate's agreement of flag and lifecycle status in
\* every row and in everything a recount is about to write.
THEOREM Invariance == Spec => []IInv
  <1>1. IInv /\ [Next]_vars => IInv'
    <2> SUFFICES ASSUME IInv, [Next]_vars PROVE IInv'
      OBVIOUS
    <2>1. TypeOK'
      BY OthersTyped, TableTyped DEF TypeOK
    <2> QED
      BY <2>1, OthersTyped, TableTyped DEF IInv
  <1> QED
    BY <1>1, InitSound, PTL DEF Spec

\* TypeOK holds in every reachable state.
THEOREM TypeCorrect == Spec => []TypeOK
  <1>1. IInv => TypeOK
    BY DEF IInv
  <1> QED
    BY <1>1, Invariance, PTL

-----------------------------------------------------------------------------
(* Trust.                                                                  *)

\* No row is canonical without a trusted provenance, and no recount is about
\* to make one so.
TrustInv ==
    /\ \A i \in Stored(rec) : rec[i].meta.canonical => rec[i].meta.trusted
    /\ \A k \in Recounts : recount[k] # None =>
         \A i \in Ids : recount[k][i] # None =>
             (recount[k][i].canonical => recount[k][i].trusted)

\* Every row keeps its trust in every step but the removal of a key.
LEMMA TrustStep ==
    ASSUME "clear" \notin Kinds, IInv, TrustInv, [Next]_vars
    PROVE  TrustInv'
  <1>1. /\ rec \in Table /\ Sound(rec) /\ Stored(rec) \subseteq used
        /\ rec' \in Table /\ used \subseteq Ids
        /\ recount \in [Recounts -> [Ids -> Meta \cup {None}] \cup {None}]
    BY TableTyped DEF IInv, TypeOK
  <1>2. ASSUME NEW i \in Stored(rec'), rec'[i].meta.canonical
        PROVE  rec'[i].meta.trusted
    <2>1. CASE rec' = rec
      BY <1>2, <2>1 DEF TrustInv
    <2>2. CASE TableStep(rec, rec')
      BY <1>2, <2>2 DEF TableStep, Lifecycle, TrustInv
    <2>3. CASE Inserts
      BY <1>1, <1>2, <2>3 DEF Inserts, TrustInv, Table, Stored
    <2>4. CASE Clears
      BY <2>4 DEF Clears, Clear, Request, Op
    <2>5. CASE WritesBack
      <3>1. PICK k \in Recounts : RecountWrite(k)
        BY <2>5 DEF WritesBack
      <3>2. CASE rec[i] = None \/ recount[k][i] = None
        BY <1>1, <1>2, <3>1, <3>2 DEF RecountWrite, TrustInv, Stored, Table
      <3>3. CASE rec[i] # None /\ recount[k][i] # None
        <4>1. i \in Ids /\ rec[i] \in Record
          BY <1>1, <3>3, <1>2 DEF Table, Stored
        <4>2. rec'[i] = [rec[i] EXCEPT !.meta = recount[k][i]]
          BY <3>1, <3>3, <4>1 DEF RecountWrite
        <4>3. rec'[i].meta = recount[k][i]
          BY <4>1, <4>2 DEF Record
        <4> QED
          BY <1>2, <3>1, <3>3, <4>1, <4>3 DEF RecountWrite, TrustInv
      <3> QED
        BY <3>2, <3>3
    <2> QED
      BY <2>1, <2>2, <2>3, <2>4, <2>5, StepKinds
  <1>3. ASSUME NEW k \in Recounts, recount'[k] # None, NEW i \in Ids,
               recount'[k][i] # None, recount'[k][i].canonical
        PROVE  recount'[k][i].trusted
    <2>1. CASE recount'[k] = recount[k]
      BY <1>3, <2>1 DEF TrustInv
    <2>2. CASE RecountScan(k)
      <3>1. /\ i \in Stored(rec)
            /\ recount'[k][i] = [rec[i].meta EXCEPT !.refs = Tally(rec, i)]
        BY <1>1, <1>3, <2>2 DEF RecountScan
      <3>2. rec[i].meta \in Meta
        BY <1>1, <3>1 DEF Table, Stored, Record
      <3>3. /\ recount'[k][i].canonical = rec[i].meta.canonical
            /\ recount'[k][i].trusted = rec[i].meta.trusted
        BY <3>1, <3>2 DEF Meta
      <3> QED
        BY <1>3, <3>1, <3>3 DEF TrustInv
    <2> QED
      BY <1>3, <2>1, <2>2, RecountFrame
  <1> QED
    BY <1>2, <1>3 DEF TrustInv

\* CanonicalIsTrusted: as long as callers cannot remove keys (update_memory
\* with an empty provenance can), every canonical record has a trusted
\* provenance, through concurrent cycles and recounts.
THEOREM CanonicalIsTrustedHolds ==
    ASSUME "clear" \notin Kinds
    PROVE  Spec => []CanonicalIsTrusted
  <1>1. Init => TrustInv
    BY DEF Init, TrustInv, Stored
  <1>2. IInv /\ TrustInv /\ [Next]_vars => TrustInv'
    BY TrustStep
  <1>3. IInv /\ TrustInv => CanonicalIsTrusted
    <2> SUFFICES ASSUME IInv, TrustInv, NEW i \in Stored(rec),
                        IsCanonicalMemory(rec[i])
                 PROVE  rec[i].meta.trusted
      BY DEF CanonicalIsTrusted
    <2>1. rec[i] \in Record /\ Consistent(rec[i].meta)
      BY Rows DEF IInv, TypeOK
    <2> QED
      BY <2>1, CanonicalIsFlag DEF TrustInv
  <1> QED
    BY <1>1, <1>2, <1>3, Invariance, PTL DEF Spec

\* What a step that is no write-back of a recount does to a row: it takes key
\* removal to lose anything of its past.
LEMMA RowStep ==
    ASSUME IInv, [Next]_vars, ~WritesBack, NEW i \in Stored(rec), rec'[i] # None
    PROVE  /\ rec'[i].meta.canonical
                => rec'[i].meta.trusted \/ rec[i].meta.canonical
           /\ rec[i].meta.archived
                => rec'[i].meta.archived \/ rec'[i].meta.canonical \/ Unarchives
  <1>1. rec \in Table /\ Sound(rec) /\ i \in used /\ i \in Stored(rec')
        /\ i \in Ids
    BY DEF IInv, TypeOK, Stored
  <1>2. CASE rec' = rec
    BY <1>2
  <1>3. CASE TableStep(rec, rec')
    BY <1>1, <1>3 DEF TableStep, Lifecycle
  <1>4. CASE Inserts
    BY <1>1, <1>4 DEF Inserts, Table
  <1>5. CASE Clears
    <2>1. PICK j \in Stored(rec), K \in SUBSET Keys : Clear(j, K)
      BY <1>5 DEF Clears
    <2>2. rec' = [rec EXCEPT ![j] = Cleared(rec[j], K)]
      BY <2>1 DEF Clear, Request
    <2>3. rec[j] \in Record /\ Consistent(rec[j].meta)
      BY <1>1, Rows
    <2>4. /\ Cleared(rec[j], K).meta.canonical => rec[j].meta.canonical
          /\ rec[j].meta.archived /\ "archived" \notin K
               => Cleared(rec[j], K).meta.archived
      BY <2>3, ClearedFacts
    <2>5. "archived" \in K => Unarchives
      BY <2>1 DEF Unarchives
    <2> QED
      BY <1>1, <2>2, <2>4, <2>5 DEF Table
  <1> QED
    BY <1>2, <1>3, <1>4, <1>5, StepKinds

\* PromotionIsVerified: nothing callers, cycles or overlapping recounts do makes
\* a record canonical without a trusted provenance; a recount only restores one.
THEOREM PromotionIsVerifiedHolds == Spec => PromotionIsVerified
  <1>1. IInv /\ [Next]_vars =>
          [~WritesBack =>
             \A i \in Stored(rec) :
               ~IsCanonicalMemory(rec[i]) /\ rec'[i] # None
                 /\ IsCanonicalMemory(rec'[i])
                 => rec'[i].meta.trusted]_vars
    <2> SUFFICES ASSUME IInv, [Next]_vars, ~WritesBack, NEW i \in Stored(rec),
                        ~IsCanonicalMemory(rec[i]), rec'[i] # None,
                        IsCanonicalMemory(rec'[i])
                 PROVE  rec'[i].meta.trusted
      OBVIOUS
    <2>1. rec \in Table /\ rec' \in Table /\ Sound(rec) /\ Sound(rec')
      BY TableTyped DEF IInv, TypeOK
    <2>2. i \in Stored(rec')
      BY DEF Stored
    <2>3. ~rec[i].meta.canonical /\ rec'[i].meta.canonical
      BY <2>1, <2>2, Rows, CanonicalIsFlag
    <2> QED
      BY <2>3, RowStep
  <1> QED
    BY <1>1, Invariance, PTL DEF Spec, PromotionIsVerified

\* RetirementIsKept: a retired record only leaves the archive by a promotion,
\* by a caller who removes the flag, or by a recount that had read it before.
THEOREM RetirementIsKeptHolds == Spec => RetirementIsKept
  <1>1. IInv /\ [Next]_vars =>
          [~WritesBack /\ ~Unarchives =>
             \A i \in Stored(rec) :
               rec[i].meta.archived /\ rec'[i] # None
                 => rec'[i].meta.archived \/ rec'[i].meta.canonical]_vars
    BY RowStep
  <1> QED
    BY <1>1, Invariance, PTL DEF Spec, RetirementIsKept

-----------------------------------------------------------------------------
(* Reviews.                                                                *)

\* An open review item of a running cycle's target is one it knows of.
ReviewInv ==
    \A i \in Ids :
        /\ reviews[i]["true"] <= 1
        /\ \A c \in Cycles :
             cycle[c] = "run" /\ reviews[i]["true"] > 0 => i \in pending[c]

\* With one cycle at a time, what it has read of the open items stays complete:
\* only the cycle itself adds one.
LEMMA ReviewStep ==
    ASSUME \A c, d \in Cycles : c = d, IInv, ReviewInv, [Next]_vars
    PROVE  ReviewInv'
  <1>1. TypeOK /\ "true" \in Flags
    BY DEF IInv, Flags
  <1>2. CASE UNCHANGED <<reviews, cycle, pending>>
    BY <1>2 DEF ReviewInv
  <1>3. ASSUME NEW c \in Cycles, Cycle(c)
        PROVE  ReviewInv'
    <2>1. CASE CycleList(c)
      BY <1>1, <2>1 DEF CycleList, ReviewInv, TypeOK
    <2>2. CASE loadPendingSedimentReviews(c)
      BY <1>1, <2>2 DEF loadPendingSedimentReviews, ReviewInv, TypeOK, Flags
    <2>3. CASE CycleEnds(c)
      BY <1>1, <2>3 DEF CycleEnds, ReviewInv, TypeOK
    <2>4. ASSUME NEW i \in Ids, CyclePromotes(c, i)
          PROVE  ReviewInv'
      BY <2>4 DEF CyclePromotes, ReviewInv
    <2>5. ASSUME NEW i \in Ids, createSedimentReviewItem(c, i)
          PROVE  ReviewInv'
      <3>1. cycle[c] = "run" /\ UNCHANGED cycle
            /\ pending' = [pending EXCEPT ![c] = pending[c] \cup {i}]
        BY <2>5 DEF createSedimentReviewItem
      <3>2. CASE i \in pending[c]
        BY <1>1, <2>5, <3>1, <3>2 DEF createSedimentReviewItem, ReviewInv, TypeOK
      <3>3. CASE i \notin pending[c]
        <4>1. reviews[i]["true"] = 0
          BY <1>1, <3>1, <3>3 DEF ReviewInv, TypeOK
        <4>2. reviews' = [reviews EXCEPT ![i]["true"] = reviews[i]["true"] + 1]
          BY <2>5, <3>3 DEF createSedimentReviewItem, normalizeReviewRequired
        <4>3. \A j \in Ids : reviews'[j]["true"] =
                IF j = i THEN 1 ELSE reviews[j]["true"]
          BY <1>1, <4>1, <4>2 DEF TypeOK
        <4> QED
          BY <1>1, <3>1, <4>3 DEF ReviewInv, TypeOK
      <3> QED
        BY <3>2, <3>3
    <2> QED
      BY <1>3, <2>1, <2>2, <2>3, <2>4, <2>5 DEF Cycle
  <1>4. ASSUME NEW i \in Ids,
               ResolveReview(i) \/ \E f \in Flags : DeleteReview(i, f)
        PROVE  ReviewInv'
    <2>1. /\ \A j \in Ids : reviews'[j]["true"] <= reviews[j]["true"]
          /\ \A j \in Ids : reviews[j]["true"] \in Nat /\ reviews'[j]["true"] \in Nat
          /\ UNCHANGED <<cycle, pending>>
      <3>1. CASE ResolveReview(i)
        BY <1>1, <3>1
        DEF ResolveReview, TypeOK, Flags, normalizeReviewRequired
      <3>2. CASE \E f \in Flags : DeleteReview(i, f)
        BY <1>1, <3>2 DEF DeleteReview, TypeOK, Flags
      <3> QED
        BY <1>4, <3>1, <3>2
    <2> QED
      BY <2>1 DEF ReviewInv
  <1>5. CASE UNCHANGED vars
    BY <1>2, <1>5 DEF vars
  <1> QED
    BY <1>2, <1>3, <1>4, <1>5, RequestFrame
    DEF Next, Store, StoreDecision, CountReference, RecountScan, RecountWrite,
        cycleVars

\* OneReviewPerTarget: with one sediment cycle at a time no target has two open
\* review items, whatever requests resolve or delete meanwhile.
THEOREM OneReviewPerTargetHolds ==
    ASSUME \A c, d \in Cycles : c = d
    PROVE  Spec => []OneReviewPerTarget
  <1>1. Init => ReviewInv
    BY DEF Init, ReviewInv, Flags
  <1>2. IInv /\ ReviewInv /\ [Next]_vars => ReviewInv'
    BY ReviewStep
  <1>3. ReviewInv => OneReviewPerTarget
    BY DEF ReviewInv, OneReviewPerTarget
  <1> QED
    BY <1>1, <1>2, <1>3, Invariance, PTL DEF Spec


-----------------------------------------------------------------------------
(* Supersession.                                                           *)

\* A step stores a row without links.
InsertsUnlinked == \E i \in Ids \ used, q \in Record :
    /\ q.supersededBy = None /\ q.replaces = None
    /\ rec' = [rec EXCEPT ![i] = q] /\ used' = used \cup {i}

\* A step retires a row, with or without a successor.
Retires == \E i \in Stored(rec), s \in used \cup {None} : Outdate(i, s)

\* The columns of every row are kept, whatever becomes of its counter.
KeepsColumns ==
    \A i \in Ids : rec'[i] # None =>
        /\ rec[i] # None
        /\ rec'[i].supersededBy = rec[i].supersededBy
        /\ rec'[i].replaces = rec[i].replaces

\* Every step but a retirement and a new row keeps the columns, and unless it
\* is the write of a recount the counter as well.
LEMMA LinkKinds ==
    ASSUME IInv, [Next]_vars
    PROVE  \/ KeepsLinks(rec, rec') /\ used' = used
           \/ InsertsUnlinked
           \/ Retires /\ used' = used
           \/ WritesBack /\ KeepsColumns /\ used' = used
  <1>1. rec \in Table /\ Sound(rec) /\ used \subseteq Ids
    BY DEF IInv, TypeOK
  <1>2. \A i \in Stored(rec) : i \in Ids /\ rec[i] \in Record /\ rec[i] # None
    BY <1>1 DEF Stored, Table
  <1>3. CASE rec' = rec /\ used' = used
    BY <1>2, <1>3 DEF KeepsLinks, SameLinks, Stored, Record, Meta
  <1>4. ASSUME NEW i \in Ids, NEW type \in NewTypes, NEW s \in NewStatuses,
               Store(i, type, s)
        PROVE  InsertsUnlinked
    <2>1. NewRecord(type, FALSE, s, None) \in Record
      BY NewRecordFacts, LifecycleAssumption
    <2> QED
      BY <1>4, <2>1 DEF Store, InsertsUnlinked, NewRecord
  <1>5. ASSUME NEW r \in Requests, NEW i \in Ids, NEW j \in used,
               StoreDecision(r, i, j)
        PROVE  InsertsUnlinked
    <2>1. NewRecord("semantic", TRUE, "confirmed", j) \in Record
      BY <1>1, NewRecordFacts DEF Types, Statuses
    <2> QED
      BY <1>5, <2>1 DEF StoreDecision, InsertsUnlinked, NewRecord
  <1>6. ASSUME NEW r \in Requests, CountReference(r)
        PROVE  KeepsLinks(rec, rec') /\ used' = used
    <2>1. count[r] \in Ids /\ used' = used
      BY <1>6 DEF CountReference, IInv, TypeOK
    <2>2. CASE rec[count[r]] = None
      BY <1>3, <1>6, <2>1, <2>2 DEF CountReference, IncrementReferencedByCount,
                                    KeepsLinks, SameLinks, Table, Record, Meta,
                                    IInv, TypeOK
    <2>3. CASE rec[count[r]] # None
      <3>1. count[r] \in Stored(rec)
            /\ rec' = [rec EXCEPT ![count[r]] =
                         [rec[count[r]] EXCEPT !.meta.refs = @ + 1]]
        BY <1>6, <2>1, <2>3
        DEF CountReference, IncrementReferencedByCount, Stored
      <3> QED
        BY <1>1, <1>2, <2>1, <3>1, RowLinks, OneRowLinks
    <2> QED
      BY <2>2, <2>3
  <1>7. ASSUME NEW i \in Stored(rec), Requested(i)
        PROVE  /\ KeepsLinks(rec, rec') \/ Retires
               /\ used' = used
    <2>0. used' = used
      BY <1>7, RequestFrame
    <2>1. CASE \E s \in NewStatuses : Edit(i, s)
      BY <1>1, <1>2, <2>0, <2>1, LifecycleAssumption, RowLinks, OneRowLinks
      DEF Edit, Request
    <2>2. CASE \E K \in SUBSET Keys : Clear(i, K)
      BY <1>1, <1>2, <2>0, <2>2, RowLinks, OneRowLinks DEF Clear, Request
    <2>3. CASE Delete(i)
      BY <1>1, <2>0, <2>3, OneRowLinks DEF Delete, Request
    <2>4. CASE \E s \in used \cup {None} : Outdate(i, s)
      BY <2>0, <2>4 DEF Retires
    <2>5. ASSUME NEW v \in BOOLEAN, Promote(i, v)
          PROVE  KeepsLinks(rec, rec')
      <3>1. CASE PromotionAllowed(rec[i], v)
        <4>1. rec' = [rec EXCEPT ![i] = Promoted(rec[i], v)]
          BY <2>5, <3>1 DEF Promote, Request, PromoteToCanonical
        <4> QED
          BY <1>1, <1>2, <4>1, RowLinks, OneRowLinks
      <3>2. CASE ~PromotionAllowed(rec[i], v)
        BY <1>3, <2>0, <2>5, <3>2 DEF Promote, Request, PromoteToCanonical,
           KeepsLinks, SameLinks, Table, Record, Meta, IInv, TypeOK
      <3> QED
        BY <3>1, <3>2
    <2>6. CASE \E D \in SUBSET (used \ {i}) : Merge(i, D)
      BY <1>1, <2>0, <2>6, MergeLinks DEF Merge, Request
    <2>7. CASE \E layer \in Layers : SetLayer(i, layer)
      BY <1>1, <1>2, <2>0, <2>7, RowLinks, OneRowLinks
      DEF SetLayer, Request, PromoteSediment
    <2>8. CASE Demote(i)
      <3> DEFINE l == IF rec[i].layer = 0 THEN 0 ELSE rec[i].layer - 1
      <3>1. rec[i].layer \in Layers
        BY <1>2 DEF Record
      <3>2. l \in Layers
        BY <3>1 DEF Layers
      <3>3. rec' = [rec EXCEPT ![i] = [rec[i] EXCEPT !.layer = l]]
        BY <2>8 DEF Demote, Request, DemoteSediment
      <3> HIDE DEF l
      <3> QED
        BY <1>1, <1>2, <2>0, <3>2, <3>3, RowLinks, OneRowLinks
    <2> QED
      BY <1>7, <2>0, <2>1, <2>2, <2>3, <2>4, <2>5, <2>6, <2>7, <2>8 DEF Requested
  <1>8. ASSUME NEW c \in Cycles, Cycle(c)
        PROVE  KeepsLinks(rec, rec') /\ used' = used
    <2>1. used' = used
      BY <1>8 DEF Cycle, CycleList, loadPendingSedimentReviews, CycleEnds,
                  CyclePromotes, createSedimentReviewItem
    <2>2. ASSUME NEW i \in Ids, rec[i] # None, CyclePromotes(c, i)
          PROVE  KeepsLinks(rec, rec')
      <3>1. /\ i \in Stored(rec) /\ 1 \in Layers
            /\ rec' = [rec EXCEPT ![i] = [rec[i] EXCEPT !.layer = 1]]
        BY <2>2 DEF CyclePromotes, PromoteSediment, Stored, Layers
      <3> QED
        BY <1>1, <1>2, <3>1, RowLinks, OneRowLinks
    <2>3. \/ rec' = rec
          \/ \E i \in Ids : rec[i] # None /\ CyclePromotes(c, i)
      BY <1>8 DEF Cycle, CycleList, loadPendingSedimentReviews, CycleEnds,
                  CyclePromotes, createSedimentReviewItem
    <2>4. CASE rec' = rec
      BY <1>2, <2>1, <2>4 DEF KeepsLinks, SameLinks, Stored, Record, Meta
    <2> QED
      BY <2>1, <2>2, <2>3, <2>4
  <1>9. ASSUME NEW k \in Recounts, RecountWrite(k)
        PROVE  WritesBack /\ KeepsColumns /\ used' = used
    <2>1. used' = used /\ WritesBack
      BY <1>9 DEF RecountWrite, WritesBack
    <2>2. \A i \in Ids : rec'[i] = IF rec[i] = None \/ recount[k][i] = None
                           THEN rec[i] ELSE [rec[i] EXCEPT !.meta = recount[k][i]]
      BY <1>9 DEF RecountWrite
    <2>3. KeepsColumns
      BY <1>2, <2>2 DEF KeepsColumns, Stored, Record
    <2> QED
      BY <2>1, <2>3
  <1>10. ASSUME \/ \E i \in Ids : ResolveReview(i) \/ \E f \in Flags : DeleteReview(i, f)
                \/ \E k \in Recounts : RecountScan(k)
                \/ UNCHANGED vars
         PROVE  rec' = rec /\ used' = used
    BY <1>10 DEF ResolveReview, DeleteReview, RecountScan, vars
  <1> QED
    BY <1>3, <1>4, <1>5, <1>6, <1>7, <1>8, <1>9, <1>10 DEF Next

\* Links name ids that were drawn.
LinksUsed == \A i \in Stored(rec) :
    rec[i].supersededBy \in used \cup {None} /\ rec[i].replaces \in used \cup {None}

PairInv == LinksUsed /\ ReplacedIsSuperseded

\* No step leaves half a pair.
LEMMA PairStep ==
    ASSUME IInv, PairInv, [Next]_vars
    PROVE  PairInv'
  <1>1. /\ rec \in Table /\ Stored(rec) \subseteq used /\ used \subseteq Ids
        /\ used \subseteq used'
    BY OthersTyped DEF IInv, TypeOK
  <1>2. CASE KeepsColumns
    BY <1>1, <1>2 DEF KeepsColumns, PairInv, LinksUsed, ReplacedIsSuperseded,
                      Stored
  <1>3. CASE KeepsLinks(rec, rec')
    BY <1>2, <1>3 DEF KeepsLinks, SameLinks, KeepsColumns
  <1>4. CASE InsertsUnlinked
    <2>1. PICK i \in Ids \ used, q \in Record :
            /\ q.supersededBy = None /\ q.replaces = None
            /\ rec' = [rec EXCEPT ![i] = q] /\ used' = used \cup {i}
      BY <1>4 DEF InsertsUnlinked
    <2>2. /\ Stored(rec') = Stored(rec) \cup {i} /\ i \notin Stored(rec)
          /\ \A j \in Stored(rec') : rec'[j] = IF j = i THEN q ELSE rec[j]
      BY <1>1, <2>1, RecordAssumption DEF Stored, Table
    <2> QED
      BY <1>1, <2>1, <2>2, NoneAssumption
      DEF PairInv, LinksUsed, ReplacedIsSuperseded, Stored
  <1>5. CASE Retires /\ used' = used
    <2>1. PICK i \in Stored(rec), s \in used \cup {None} :
            rec' = MarkOutdated(rec, i, s)
      BY <1>5 DEF Retires, Outdate, Request
    <2>2. s \in Ids \cup {None} /\ i \in used
      BY <1>1
    <2>3. /\ \A j \in Ids : rec'[j] = None <=> rec[j] = None
          /\ \A j \in Stored(rec) :
               /\ rec'[j].supersededBy = IF j = i /\ s # None /\ s # i THEN s
                                         ELSE rec[j].supersededBy
               /\ rec'[j].replaces = IF j = s THEN i ELSE rec[j].replaces
      BY <1>1, <2>1, <2>2, OutdatedLinks
    <2>4. Stored(rec') = Stored(rec) /\ Stored(rec) \subseteq Ids
      BY <2>3 DEF Stored
    <2>5. LinksUsed'
      BY <1>5, <2>2, <2>3, <2>4 DEF PairInv, LinksUsed
    <2>6. ReplacedIsSuperseded'
      BY <2>2, <2>3, <2>4, NoneAssumption DEF PairInv, ReplacedIsSuperseded
    <2> QED
      BY <2>5, <2>6 DEF PairInv
  <1> QED
    BY <1>2, <1>3, <1>4, <1>5, LinkKinds

\* ReplacedIsSuperseded: the two rows of a supersession are written in one
\* transaction and no operation, cycle or recount undoes one half of it.
THEOREM ReplacedIsSupersededHolds == Spec => []ReplacedIsSuperseded
  <1>1. Init => PairInv
    BY DEF Init, PairInv, LinksUsed, ReplacedIsSuperseded, Stored
  <1>2. IInv /\ PairInv /\ [Next]_vars => PairInv'
    BY PairStep
  <1>3. PairInv => ReplacedIsSuperseded
    BY DEF PairInv
  <1> QED
    BY <1>1, <1>2, <1>3, Invariance, PTL DEF Spec

\* The rows superseded by i.
Superseding(t, i) == {j \in Stored(t) \ {i} : t[j].supersededBy = i}

\* What supersedes i is a finite set.
LEMMA SupersedingFinite ==
    ASSUME NEW t, NEW i \in Ids
    PROVE  /\ IsFiniteSet(Superseding(t, i))
           /\ Cardinality(Superseding(t, i)) \in Nat
  <1>1. Superseding(t, i) \subseteq Ids
    BY DEF Superseding, Stored
  <1> QED
    BY <1>1, IdsAssumption, FS_Subset, FS_CardinalityType

\* A step that adds nothing to what supersedes i.
LEMMA FewerLinks ==
    ASSUME NEW t, NEW u, NEW i \in Ids, NEW n \in Nat, NEW m \in Nat, m >= n,
           n >= Cardinality(Superseding(t, i)),
           Superseding(u, i) \subseteq Superseding(t, i)
    PROVE  m >= Cardinality(Superseding(u, i))
  <1>1. Cardinality(Superseding(u, i)) <= Cardinality(Superseding(t, i))
    BY SupersedingFinite, FS_Subset
  <1> QED
    BY <1>1, SupersedingFinite

\* A step that adds at most one row to what supersedes i, and counts it.
LEMMA CountedLink ==
    ASSUME NEW t, NEW u, NEW i \in Ids, NEW n \in Nat,
           n >= Cardinality(Superseding(t, i)), NEW j,
           Superseding(u, i) \subseteq Superseding(t, i) \cup {j}
    PROVE  n + 1 >= Cardinality(Superseding(u, i))
  <1> DEFINE S == Superseding(t, i)
  <1>1. IsFiniteSet(S) /\ Cardinality(S) \in Nat
    BY SupersedingFinite
  <1> HIDE DEF S
  <1>2. /\ IsFiniteSet(S \cup {j})
        /\ Cardinality(S \cup {j}) \in {Cardinality(S), Cardinality(S) + 1}
    BY <1>1, FS_AddElement
  <1>3. Cardinality(Superseding(u, i)) <= Cardinality(S \cup {j})
    BY <1>2, FS_Subset DEF S
  <1>4. n >= Cardinality(S)
    BY DEF S
  <1> QED
    BY <1>1, <1>2, <1>3, <1>4, SupersedingFinite

\* RefsCoverLinks: while no recount overlaps other operations, the counter of a
\* record is at least the number of records it supersedes: MarkOutdated commits
\* link and count together, and nothing else takes from the counter.
THEOREM RefsCoverLinksHolds ==
    ASSUME Recounts = {}
    PROVE  Spec => []RefsCoverLinks
  <1>1. Init => RefsCoverLinks
    BY DEF Init, RefsCoverLinks, Stored
  <1>2. Init => PairInv
    BY DEF Init, PairInv, LinksUsed, ReplacedIsSuperseded, Stored
  <1>3. IInv /\ PairInv /\ [Next]_vars => PairInv'
    BY PairStep
  <1>4. ASSUME IInv, PairInv, RefsCoverLinks, [Next]_vars
        PROVE  RefsCoverLinks'
    <2>1. /\ rec \in Table /\ rec' \in Table /\ Stored(rec) \subseteq used
          /\ used \subseteq Ids
      BY <1>4, TableTyped DEF IInv, TypeOK
    <2>2. /\ \A i \in Stored(rec) : rec[i].meta.refs \in Nat
          /\ \A i \in Stored(rec') : rec'[i].meta.refs \in Nat
      BY <2>1 DEF Table, Stored, Record, Meta
    <2>3. \A i \in Stored(rec) : rec[i].meta.refs >= Cardinality(Superseding(rec, i))
      BY <1>4 DEF RefsCoverLinks, Superseding
    <2> SUFFICES ASSUME NEW i \in Stored(rec')
                 PROVE  rec'[i].meta.refs >= Cardinality(Superseding(rec', i))
      BY DEF RefsCoverLinks, Superseding
    <2>4. i \in Ids
      BY DEF Stored
    <2>5. CASE KeepsLinks(rec, rec')
      <3>1. i \in Stored(rec) /\ rec'[i].meta.refs >= rec[i].meta.refs
        BY <2>4, <2>5 DEF KeepsLinks, SameLinks, Stored
      <3>2. Superseding(rec', i) \subseteq Superseding(rec, i)
        BY <2>5 DEF KeepsLinks, SameLinks, Superseding, Stored
      <3> QED
        BY <2>2, <2>3, <2>4, <3>1, <3>2, FewerLinks
    <2>6. CASE InsertsUnlinked
      <3>1. PICK k \in Ids \ used, q \in Record :
              /\ q.supersededBy = None /\ q.replaces = None
              /\ rec' = [rec EXCEPT ![k] = q] /\ used' = used \cup {k}
        BY <2>6 DEF InsertsUnlinked
      <3>2. /\ Stored(rec') \subseteq Stored(rec) \cup {k} /\ k \notin Stored(rec)
            /\ \A j \in Stored(rec') : rec'[j] = IF j = k THEN q ELSE rec[j]
        BY <2>1, <3>1 DEF Stored, Table
      <3>3. Superseding(rec', i) \subseteq Superseding(rec, i)
        BY <2>4, <3>1, <3>2, NoneAssumption DEF Superseding
      <3>4. CASE i # k
        BY <2>2, <2>3, <2>4, <3>2, <3>3, <3>4, FewerLinks
      <3>5. CASE i = k
        <4>1. Superseding(rec', i) = {}
          BY <1>4, <2>4, <3>1, <3>3, <3>5, NoneAssumption
          DEF Superseding, PairInv, LinksUsed
        <4>2. Cardinality(Superseding(rec', i)) = 0
          BY <4>1, FS_EmptySet
        <4> QED
          BY <2>2, <4>2
      <3> QED
        BY <3>4, <3>5
    <2>7. CASE Retires
      <3>1. PICK k \in Stored(rec), s \in used \cup {None} :
              rec' = MarkOutdated(rec, k, s)
        BY <2>7 DEF Retires, Outdate, Request
      <3>2. s \in Ids \cup {None}
        BY <2>1
      <3>3. /\ \A j \in Ids : rec'[j] = None <=> rec[j] = None
            /\ \A j \in Stored(rec) :
                 /\ rec'[j].supersededBy = IF j = k /\ s # None /\ s # k THEN s
                                           ELSE rec[j].supersededBy
                 /\ rec'[j].meta.refs = IF j = s THEN rec[j].meta.refs + 1
                                        ELSE rec[j].meta.refs
        BY <2>1, <3>1, <3>2, OutdatedLinks
      <3>4. Stored(rec') = Stored(rec)
        BY <3>3 DEF Stored
      <3>5. /\ rec[i].meta.refs \in Nat /\ rec'[i].meta.refs \in Nat
            /\ rec[i].meta.refs >= Cardinality(Superseding(rec, i))
        BY <2>2, <2>3, <3>4
      <3>6. CASE i = s
        <4>1. Superseding(rec', i) \subseteq Superseding(rec, i) \cup {k}
          BY <3>3, <3>4 DEF Superseding
        <4>2. rec'[i].meta.refs = rec[i].meta.refs + 1
          BY <2>2, <3>3, <3>4, <3>6
        <4>3. rec[i].meta.refs + 1 >= Cardinality(Superseding(rec', i))
          BY <2>4, <3>5, <4>1, CountedLink
        <4> QED
          BY <4>2, <4>3
      <3>7. CASE i # s
        <4>1. Superseding(rec', i) \subseteq Superseding(rec, i)
          BY <3>3, <3>4, <3>7 DEF Superseding
        <4>2. rec'[i].meta.refs = rec[i].meta.refs
          BY <3>3, <3>4, <3>7
        <4>3. rec'[i].meta.refs >= rec[i].meta.refs
          BY <3>5, <4>2
        <4> QED
          BY <2>4, <3>5, <4>1, <4>3, FewerLinks
      <3> QED
        BY <3>6, <3>7
    <2>8. ~WritesBack
      BY DEF WritesBack
    <2> QED
      BY <1>4, <2>5, <2>6, <2>7, <2>8, LinkKinds
  <1>5. IInv /\ PairInv /\ RefsCoverLinks /\ [Next]_vars => RefsCoverLinks'
    BY <1>4
  <1> QED
    BY <1>1, <1>2, <1>3, <1>5, Invariance, PTL DEF Spec
=============================================================================
