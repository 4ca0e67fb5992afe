------------------------- MODULE StewardInboxProofs -------------------------
(***************************************************************************)
(* Proofs about StewardInbox, for every set of memories, items, runners    *)
(* and reviewers: the detailed inbox implements ReviewInbox, a run spares  *)
(* what was canonical when it read the cache and merges without losing a   *)
(* fact, and reconciliation takes no review away that is still needed.     *)
(***************************************************************************)
EXTENDS StewardInbox, KnowledgeRecordProofs, FiniteSetTheorems, TLAPS

\* What a plan may hold that was made on a reading with the rows in known and
\* the canonical ones in canon.
Fits(a, known, canon) ==
    /\ a \in Action /\ Targets(a) \subseteq known
    /\ a.auto => /\ a.kind \in {"mark_stale", "merge_duplicates", "delete_expired_working"}
                 /\ Targets(a) \cap canon = {}

CanonicalOf(t) == {i \in Stored(t) : IsCanonicalMemory(t[i])}

-----------------------------------------------------------------------------
(* Plans.                                                                  *)

LEMMA ActFits ==
    ASSUME NEW known \in SUBSET Ids, NEW canon, NEW auto \in BOOLEAN,
           NEW kind \in {"merge_duplicates", "flag_conflict", "flag_contradiction",
                         "mark_stale", "delete_expired_working", "promote_canonical"},
           NEW i \in known, NEW R \in SUBSET known,
           auto => /\ kind \in {"mark_stale", "merge_duplicates", "delete_expired_working"}
                   /\ ({i} \cup R) \cap canon = {}
    PROVE  Fits(Act(kind, auto, i, R), known, canon)
  <1>1. Act(kind, auto, i, R) \in Action
    BY DEF Act, Action
  <1>2. /\ Act(kind, auto, i, R).auto = auto /\ Act(kind, auto, i, R).kind = kind
        /\ Targets(Act(kind, auto, i, R)) = {i} \cup R
    BY DEF Act, Targets
  <1> HIDE DEF Act
  <1> QED
    BY <1>1, <1>2 DEF Fits

\* A member of a group is an active row, and no group is empty.
LEMMA GroupFacts ==
    ASSUME NEW c, NEW G \in groups(c)
    PROVE  /\ G \subseteq Stored(c.rec) /\ (CHOOSE i \in G : TRUE) \in G
           /\ \A p \in containerIndex(c, G) : p \in G
  <1>1. PICK k \in loadActiveMemories(c) :
          G = {i \in loadActiveMemories(c) : groupKey(c, i) = groupKey(c, k)}
    BY DEF groups
  <1>2. G \subseteq loadActiveMemories(c) /\ k \in G
    BY <1>1
  <1>3. loadActiveMemories(c) \subseteq Stored(c.rec)
    BY DEF loadActiveMemories
  <1> QED
    BY <1>2, <1>3 DEF containerIndex

\* Whatever the scanners propose is about rows they read; and what they let a
\* run do by itself is about rows that are not canonical.
LEMMA ScanFits ==
    ASSUME NEW c, NEW p \in Policy, NEW scope,
           NEW plan \in RunScanners(c, p, scope), NEW a \in plan
    PROVE  Fits(a, Stored(c.rec), CanonicalOf(c.rec))
  <1> DEFINE known == Stored(c.rec)
             canon == CanonicalOf(c.rec)
  <1>0. /\ known \subseteq Ids /\ loadActiveMemories(c) \subseteq known
        /\ \A i \in known : ~Canonical(c, i) => i \notin canon
    BY DEF Stored, loadActiveMemories, Canonical, CanonicalOf
  <1>1. ASSUME NEW G \in groups(c), a \in scanDuplicates(c, G, p)
        PROVE  Fits(a, known, canon)
    <2>1. PICK q \in containerIndex(c, G) :
            a = Act("merge_duplicates", shouldAutoMergeGroup(c, G, q, p), q, G \ {q})
      BY <1>1 DEF scanDuplicates
    <2>2. q \in known /\ G \ {q} \in SUBSET known /\ {q} \cup (G \ {q}) = G
      BY GroupFacts
    <2>3. shouldAutoMergeGroup(c, G, q, p) \in BOOLEAN
      BY DEF shouldAutoMergeGroup, Policy
    <2>4. shouldAutoMergeGroup(c, G, q, p) => G \cap canon = {}
      BY <1>0, GroupFacts DEF shouldAutoMergeGroup
    <2> HIDE DEF known, canon
    <2> QED
      BY <1>0, <2>1, <2>2, <2>3, <2>4, ActFits
  <1>2. ASSUME a \in scanConflicts(c) PROVE Fits(a, known, canon)
    <2>1. PICK G \in groups(c) :
            a = Act("flag_conflict", FALSE, CHOOSE i \in G : TRUE,
                    G \ {CHOOSE i \in G : TRUE})
      BY <1>2 DEF scanConflicts
    <2>2. (CHOOSE i \in G : TRUE) \in known /\ G \in SUBSET known
      BY GroupFacts
    <2> QED
      BY <1>0, <2>1, <2>2, ActFits
  <1>3. ASSUME a \in scanSemanticConflicts(c) PROVE Fits(a, known, canon)
    <2>1. PICK P \in SUBSET loadActiveMemories(c) :
            /\ a = Act("flag_contradiction", FALSE, CHOOSE i \in P : TRUE,
                       P \ {CHOOSE i \in P : TRUE})
            /\ \E i, j \in P : i # j
      BY <1>3 DEF scanSemanticConflicts
    <2>2. (CHOOSE i \in P : TRUE) \in known /\ P \in SUBSET known
      BY <1>0, <2>1
    <2> QED
      BY <1>0, <2>1, <2>2, ActFits
  <1>4. ASSUME a \in scanStale(c, p) PROVE Fits(a, known, canon)
    <2>1. PICK i \in loadActiveMemories(c) :
            a = Act("mark_stale",
                    p.autoStale /\ ~c.rec[i].important /\ ~Canonical(c, i), i, {})
      BY <1>4 DEF scanStale
    <2> DEFINE auto == p.autoStale /\ ~c.rec[i].important /\ ~Canonical(c, i)
    <2>2. auto \in BOOLEAN /\ (auto => ({i} \cup {}) \cap canon = {})
      BY <1>0
    <2> HIDE DEF auto
    <2> QED
      BY <1>0, <2>1, <2>2, ActFits DEF auto
  <1>5. ASSUME a \in scanExpiredWorking(c, p) PROVE Fits(a, known, canon)
    <2>1. PICK i \in loadActiveMemories(c) :
            a = Act("delete_expired_working",
                    ~c.rec[i].important /\ ~Canonical(c, i), i, {})
      BY <1>5 DEF scanExpiredWorking
    <2> DEFINE auto == ~c.rec[i].important /\ ~Canonical(c, i)
    <2>2. auto \in BOOLEAN /\ (auto => ({i} \cup {}) \cap canon = {})
      BY <1>0
    <2> HIDE DEF auto
    <2> QED
      BY <1>0, <2>1, <2>2, ActFits DEF auto
  <1>6. ASSUME a \in scanCanonicalCandidates(c) PROVE Fits(a, known, canon)
    <2>1. PICK i \in loadActiveMemories(c) : a = Act("promote_canonical", FALSE, i, {})
      BY <1>6 DEF scanCanonicalCandidates
    <2> QED
      BY <1>0, <2>1, ActFits
  <1>7. \/ \E G \in groups(c) : a \in scanDuplicates(c, G, p)
        \/ a \in scanConflicts(c) \/ a \in scanSemanticConflicts(c)
        \/ a \in scanStale(c, p) \/ a \in scanExpiredWorking(c, p)
        \/ a \in scanCanonicalCandidates(c)
    BY DEF RunScanners
  <1> QED
    BY <1>1, <1>2, <1>3, <1>4, <1>5, <1>6, <1>7

-----------------------------------------------------------------------------
(* What a step does to the memories.                                       *)

\* u is what a step may make of the table t, but for new rows: see TableStep.
RowsKept(t, u) == TableStep(t, u) /\ \A i \in Stored(u) : u[i].type = t[i].type

LEMMA SameTable ==
    ASSUME NEW t \in Table, Sound(t)
    PROVE  RowsKept(t, t)
  <1>1. DOMAIN t = Ids /\ t = [j \in Ids |-> t[j]]
    BY DEF Table
  <1> QED
    BY <1>1, RowByRow DEF RowsKept

LEMMA RetireKeeps ==
    ASSUME NEW t \in Table, Sound(t), NEW i \in Stored(t), NEW s \in Ids \cup {None}
    PROVE  RowsKept(t, MarkOutdated(t, i, s))
  <1>1. TableStep(t, MarkOutdated(t, i, s))
    BY MarkOutdatedStep
  <1>2. i \in Ids /\ \A j \in Stored(t) : j \in Ids /\ t[j] \in Record
    BY Rows
  <1>3. \A r \in Record : Retired(r, s).type = r.type /\ Successor(r, i).type = r.type
    BY DEF Retired, Successor, Record
  <1>4. \A j \in Ids : \/ MarkOutdated(t, i, s)[j] = t[j]
                       \/ j = i /\ MarkOutdated(t, i, s)[j] = Retired(t[j], s)
                       \/ /\ j = s /\ s # None /\ t[s] # None
                          /\ MarkOutdated(t, i, s)[j] = Successor(t[j], i)
    BY <1>2 DEF MarkOutdated, Table
  <1>5. Stored(MarkOutdated(t, i, s)) \subseteq Stored(t)
    BY <1>1 DEF TableStep
  <1> QED
    BY <1>1, <1>2, <1>3, <1>4, <1>5 DEF RowsKept, Stored

LEMMA PromoteKeeps ==
    ASSUME NEW t \in Table, Sound(t), NEW i \in Stored(t), NEW v \in BOOLEAN
    PROVE  RowsKept(t, PromoteToCanonical(t, i, v))
  <1>1. TableStep(t, PromoteToCanonical(t, i, v))
    BY PromoteStep
  <1>2. i \in Ids /\ \A j \in Stored(t) : j \in Ids /\ t[j] \in Record
    BY Rows
  <1>3. \A r \in Record : Promoted(r, v).type = r.type
    BY DEF Promoted, Record
  <1>4. \A j \in Ids : \/ PromoteToCanonical(t, i, v)[j] = t[j]
                       \/ j = i /\ PromoteToCanonical(t, i, v)[j] = Promoted(t[j], v)
    BY <1>2 DEF PromoteToCanonical, Table
  <1>5. Stored(PromoteToCanonical(t, i, v)) \subseteq Stored(t)
    BY <1>1 DEF TableStep
  <1> QED
    BY <1>1, <1>2, <1>3, <1>4, <1>5 DEF RowsKept, Stored

LEMMA MergeKeeps ==
    ASSUME NEW t \in Table, Sound(t), NEW p \in Stored(t), NEW D
    PROVE  RowsKept(t, MergeDuplicates(t, p, D))
  <1>1. TableStep(t, MergeDuplicates(t, p, D))
    BY MergeStep
  <1>2. p \in Ids /\ \A j \in Stored(t) : j \in Ids /\ t[j] \in Record
    BY Rows
  <1>3. \A r \in Record : /\ Merged(r, p).type = r.type
                          /\ [r EXCEPT !.meta = Validate(r.meta)].type = r.type
    BY DEF Merged, Record
  <1>4. Stored(MergeDuplicates(t, p, D)) \subseteq Stored(t)
    BY <1>1 DEF TableStep
  <1>5. ASSUME NEW j \in Stored(MergeDuplicates(t, p, D))
        PROVE  MergeDuplicates(t, p, D)[j].type = t[j].type
    <2>1. j \in Ids /\ t[j] \in Record /\ t[p] \in Record
      BY <1>2, <1>4
    <2> DEFINE q == MergeDuplicates(t, p, D)[j]
    <2>2. \/ j = p /\ q = [t[p] EXCEPT !.meta = Validate(t[p].meta)]
          \/ q = Merged(t[j], p) \/ q = t[j]
      BY <2>1 DEF MergeDuplicates
    <2> HIDE DEF q
    <2>3. q.type = t[j].type
      BY <1>3, <2>1, <2>2
    <2> QED
      BY <2>3 DEF q
  <1> QED
    BY <1>1, <1>5 DEF RowsKept

LEMMA StatusKeeps ==
    ASSUME NEW t \in Table, Sound(t), NEW i \in Stored(t), NEW s \in Statuses
    PROVE  RowsKept(t, [t EXCEPT ![i] = WithStatus(t[i], s)])
  <1>1. i \in Ids /\ t[i] \in Record /\ Consistent(t[i].meta)
    BY Rows
  <1>2. WithStatus(t[i], s) \in Record /\ Lifecycle(t[i], WithStatus(t[i], s))
    BY <1>1, WithStatusFacts
  <1>3. TableStep(t, [t EXCEPT ![i] = WithStatus(t[i], s)])
    BY <1>2, OneRow
  <1>4. WithStatus(t[i], s).type = t[i].type
    BY <1>1 DEF WithStatus, Record
  <1> QED
    BY <1>1, <1>3, <1>4 DEF RowsKept, Stored, Table

LEMMA RemoveKeeps ==
    ASSUME NEW t \in Table, Sound(t), NEW i \in Ids
    PROVE  RowsKept(t, [t EXCEPT ![i] = None])
  <1> DEFINE u == [t EXCEPT ![i] = None]
  <1>1. /\ DOMAIN u = Ids /\ u = [j \in Ids |-> u[j]]
        /\ \A j \in Ids : u[j] = t[j] \/ u[j] = None
    BY DEF Table
  <1>2. \A j \in Stored(u) : u[j] = t[j]
    BY <1>1 DEF Stored
  <1> HIDE DEF u
  <1>3. TableStep(t, u)
    BY <1>1, RowByRow
  <1> QED
    BY <1>2, <1>3 DEF RowsKept, u

\* A step that stores no memory.
MemStep == /\ RowsKept(rec, rec') /\ UNCHANGED face
           /\ old' \in SUBSET Ids /\ text' \in [Ids -> SUBSET Facts]

LEMMA UnchangedMemStep ==
    ASSUME TypeOK, Sound(rec), UNCHANGED memVars PROVE MemStep
  BY SameTable DEF MemStep, memVars, TypeOK

LEMMA RetireMemStep ==
    ASSUME TypeOK, Sound(rec), NEW i \in Stored(rec), NEW s \in Ids \cup {None},
           Retire(i, s)
    PROVE  MemStep
  BY RetireKeeps DEF Retire, MemStep, TypeOK

LEMMA RemoveMemStep ==
    ASSUME TypeOK, Sound(rec), NEW i \in Ids, Remove(i) PROVE MemStep
  BY RemoveKeeps DEF Remove, MemStep, TypeOK

LEMMA PromoteMemStep ==
    ASSUME TypeOK, Sound(rec), NEW i \in Stored(rec), MakeCanonical(i, TRUE)
    PROVE  MemStep
  BY PromoteKeeps DEF MakeCanonical, MemStep, TypeOK

LEMMA MergeMemStep ==
    ASSUME TypeOK, Sound(rec), NEW p \in Ids, NEW D \in SUBSET Ids, MergeInto(p, D)
    PROVE  MemStep
  <1>1. CASE UNCHANGED memVars
    BY <1>1, UnchangedMemStep
  <1>2. CASE /\ rec' = MergeDuplicates(rec, p, D) /\ text' = mergeContent(p, D)
             /\ old' = old \ (D \cup {p}) /\ UNCHANGED face
    <2>1. p \in Stored(rec) /\ rec \in Table
      BY DEF MergeInto, Stored, TypeOK
    <2>2. RowsKept(rec, rec')
      BY <1>2, <2>1, MergeKeeps
    <2>3. old' \in SUBSET Ids
      BY <1>2 DEF TypeOK
    <2>4. UNION {text[d] : d \in D \cap Stored(rec)} \subseteq Facts
      BY DEF TypeOK, Stored
    <2>5. text' \in [Ids -> SUBSET Facts]
      BY <1>2, <2>4 DEF mergeContent, TypeOK
    <2> QED
      BY <1>2, <2>2, <2>3, <2>5 DEF MemStep
  <1> QED
    BY <1>1, <1>2 DEF MergeInto

-----------------------------------------------------------------------------
(* The inductive invariant.                                                *)

\* Memories that were ever stored: their faces stay when the rows go.
Faced == {i \in Ids : face[i] # None}

\* Why an item that was listed for closing needs no review: as it was in the
\* reading the run reconciles against.
Moot(item, gone, t) ==
    \/ Targets(item) \subseteq gone
    \/ /\ item.kind = "duplicate_candidate"
       /\ \A i, j \in Targets(item) \ gone : i = j
    \/ /\ item.kind = "stale_entry"
       /\ \A i \in Targets(item) : t[i] = None \/ t[i].type = "episodic"

Busy(r) == run[r].pc \notin {"idle", "waiting"}

\* One run at a time has what it read or planned in its hands.
OneRun == \A r, o \in Runners : Busy(r) /\ Busy(o) => r = o

\* Rows, planned actions and items name memories that were stored; what a run
\* does by itself spares what was canonical in its reading.
AboutStored ==
    /\ Stored(rec) \subseteq Faced
    /\ \A r \in Runners : \A a \in run[r].plan : Fits(a, Faced, run[r].canon)
    /\ \A n \in Items : inbox[n] # None => Targets(inbox[n]) \subseteq Faced

\* A listed item is there, and its reason holds still.
ListedIsMoot == \A r \in Runners : \A n \in run[r].listed :
    inbox[n] # None /\ Moot(inbox[n], run[r].gone, rec)

\* A resolution is about an item that is there, and one about to close it has
\* carried out its verb.
Resolving == \A q \in Resolvers : res[q] # None =>
    /\ inbox[res[q].item] # None
    /\ res[q].pc = "close" => \/ res[q].verb = "suppress"
                              \/ <<res[q].item, res[q].verb>> \in done

IInv == TypeOK /\ Sound(rec) /\ OneRun /\ AboutStored /\ ListedIsMoot /\ Resolving

LEMMA InitSound == Init => IInv
  <1> SUFFICES ASSUME Init PROVE IInv
    OBVIOUS
  <1>1. rec \in Table /\ Stored(rec) = {}
    BY DEF Init, Table, Stored
  <1>2. /\ text \in [Ids -> SUBSET Facts] /\ face \in [Ids -> Face \cup {None}]
        /\ old \subseteq Ids /\ inbox \in [Items -> {None} \cup Item]
        /\ policy \in Policy /\ saved \in Policy
        /\ done \subseteq Items \X Verbs /\ ops \in Nat /\ runs \in Nat
    BY StewardAssumption DEF Init
  <1>3. run \in [Runners ->
                  [pc : {"idle", "waiting", "reconcile", "apply", "file"},
                   listed : SUBSET Items, gone : SUBSET Ids, plan : SUBSET Action,
                   canon : SUBSET Ids]]
    BY DEF Init, Idle
  <1>4. res \in [Resolvers -> {None} \cup
                  [item : Items, verb : Verbs \cup {"suppress"},
                   pc : {"execute", "close"}, left : SUBSET Ids]]
    BY DEF Init
  <1>5. TypeOK
    BY <1>1, <1>2, <1>3, <1>4 DEF TypeOK
  <1>6. OneRun /\ AboutStored /\ ListedIsMoot /\ Resolving
    BY <1>1 DEF Init, Idle, OneRun, Busy, AboutStored, ListedIsMoot, Resolving
  <1> QED
    BY <1>1, <1>5, <1>6 DEF IInv, Sound

\* Who runs does what the scanners planned, to memories that were stored.
LEMMA ApplyMemStep ==
    ASSUME TypeOK, Sound(rec), NEW a \in Action, applyAction(a) PROVE MemStep
  <1>1. a.lead \in Ids /\ a.rest \in SUBSET Ids
    BY DEF Action
  <1>2. CASE rec[a.lead] # None /\ Retire(a.lead, None)
    BY <1>1, <1>2, RetireMemStep DEF Stored
  <1>3. CASE MergeInto(a.lead, a.rest)
    BY <1>1, <1>3, MergeMemStep
  <1>4. CASE Remove(a.lead)
    BY <1>1, <1>4, RemoveMemStep
  <1> QED
    BY <1>2, <1>3, <1>4 DEF applyAction

LEMMA ResolutionMemStep ==
    ASSUME TypeOK, Sound(rec), NEW item \in Item, NEW v, executeResolution(item, v)
    PROVE  MemStep
  <1>1. item.lead \in Ids /\ item.rest \in SUBSET Ids
    BY DEF Item
  <1>2. CASE MergeInto(item.lead, item.rest)
    BY <1>1, <1>2, MergeMemStep
  <1>3. CASE rec[item.lead] # None /\ \E s \in item.rest \cup {None} : Retire(item.lead, s)
    BY <1>1, <1>3, RetireMemStep DEF Stored
  <1>4. CASE rec[item.lead] # None /\ MakeCanonical(item.lead, TRUE)
    BY <1>1, <1>4, PromoteMemStep DEF Stored
  <1>5. CASE old' = old \ {item.lead} /\ UNCHANGED <<rec, text, face>>
    BY <1>5, SameTable DEF MemStep, TypeOK
  <1> QED
    BY <1>2, <1>3, <1>4, <1>5 DEF executeResolution

LEMMA RequestMemStep ==
    ASSUME TypeOK, Sound(rec), NEW i \in Stored(rec), Requested(i) \/ Age(i)
    PROVE  MemStep
  <1>0. i \in Ids /\ rec \in Table
    BY DEF Stored, TypeOK
  <1>1. CASE \E s \in {"confirmed", "outdated"} : Edit(i, s)
    <2>1. PICK s \in Statuses : Edit(i, s)
      BY <1>1 DEF Statuses
    <2>2. RowsKept(rec, rec')
      BY <1>0, <2>1, StatusKeeps DEF Edit
    <2> QED
      BY <2>1, <2>2 DEF Edit, MemStep, TypeOK
  <1>2. CASE \E x \in Texts : Write(i, x)
    <2>1. PICK x \in SUBSET Facts : Write(i, x)
      BY <1>2, StewardAssumption
    <2> QED
      BY <1>0, <2>1, SameTable DEF Write, MemStep, TypeOK
  <1>3. CASE VerifyEntry(i) \/ Age(i)
    BY <1>0, <1>3, SameTable DEF VerifyEntry, Age, MemStep, TypeOK
  <1>4. CASE Remove(i)
    BY <1>0, <1>4, RemoveMemStep
  <1>5. CASE Retire(i, None)
    BY <1>5, RetireMemStep
  <1>6. CASE MakeCanonical(i, TRUE)
    BY <1>6, PromoteMemStep
  <1> QED
    BY <1>1, <1>2, <1>3, <1>4, <1>5, <1>6 DEF Requested


-----------------------------------------------------------------------------
(* Steps.                                                                  *)

\* What a step makes of the memories: those once stored may go and keep their
\* type; only new ones come.
MemoriesKept ==
    /\ rec' \in Table /\ text' \in [Ids -> SUBSET Facts]
    /\ face' \in [Ids -> Face \cup {None}] /\ old' \in SUBSET Ids
    /\ Sound(rec)' /\ Stored(rec)' \subseteq Faced' /\ Faced \subseteq Faced'
    /\ \A i \in Faced :
         \/ rec'[i] = None
         \/ rec[i] # None /\ rec'[i].type = rec[i].type

LEMMA MemStepKeeps ==
    ASSUME IInv, MemStep PROVE MemoriesKept
  <1>1. rec' \in Table /\ Stored(rec') \subseteq Stored(rec) /\ Faced' = Faced
    BY DEF MemStep, RowsKept, TableStep, Faced
  <1>2. \A i \in Stored(rec') : Consistent(rec'[i].meta)
    BY DEF MemStep, RowsKept, TableStep, Lifecycle
  <1>3. \A i \in Faced :
          \/ rec'[i] = None
          \/ rec[i] # None /\ rec'[i].type = rec[i].type
    BY <1>1 DEF MemStep, RowsKept, Faced, Stored
  <1>4. /\ text' \in [Ids -> SUBSET Facts] /\ old' \in SUBSET Ids
        /\ face' \in [Ids -> Face \cup {None}]
    BY DEF MemStep, IInv, TypeOK
  <1>5. Stored(rec) \subseteq Faced
    BY DEF IInv, AboutStored
  <1>6. Sound(rec)' /\ Stored(rec)' = Stored(rec')
    BY <1>2 DEF Sound, Stored
  <1> QED
    BY <1>1, <1>3, <1>4, <1>5, <1>6 DEF MemoriesKept

LEMMA StoreKeeps ==
    ASSUME IInv, NEW i \in Ids, NEW s \in Seeds, Store(i, s) PROVE MemoriesKept
  <1>1. /\ s.type \in Types /\ s.important \in BOOLEAN /\ s.text \in SUBSET Facts
        /\ s.face \in Face
    BY StewardAssumption
  <1> DEFINE q == NewRecord(s.type, s.important, "absent", None)
  <1>2. q \in Record /\ Consistent(q.meta)
    BY <1>1, NewRecordFacts
  <1>3. rec' = [rec EXCEPT ![i] = q]
    BY DEF Store
  <1> HIDE DEF q
  <1>4. rec' \in Table /\ \A j \in Ids : rec'[j] = IF j = i THEN q ELSE rec[j]
    BY <1>2, <1>3 DEF Table, IInv, TypeOK
  <1>5. text' \in [Ids -> SUBSET Facts] /\ old' \in SUBSET Ids
    BY <1>1 DEF Store, IInv, TypeOK
  <1>6. /\ face' \in [Ids -> Face \cup {None}] /\ i \notin Faced
        /\ \A j \in Ids : face'[j] = IF j = i THEN s.face ELSE face[j]
    BY <1>1 DEF Store, IInv, TypeOK, Faced
  <1>7. \A j \in Stored(rec') : Consistent(rec'[j].meta)
    BY <1>2, <1>4 DEF IInv, Sound, Stored
  <1>8. s.face # None
    BY <1>1, StewardAssumption
  <1>9. Faced \subseteq Faced' /\ i \in Faced'
    BY <1>6, <1>8 DEF Faced
  <1>10. Stored(rec') \subseteq Faced'
    BY <1>4, <1>9 DEF Stored, IInv, AboutStored
  <1>11. \A j \in Faced : rec'[j] = rec[j]
    BY <1>4, <1>6 DEF Faced
  <1> QED
    BY <1>4, <1>5, <1>6, <1>7, <1>9, <1>10, <1>11 DEF MemoriesKept, Sound, Stored

LEMMA PlanFacts ==
    ASSUME IInv, NEW r \in Runners, NEW a \in run[r].plan
    PROVE  a \in Action /\ Targets(a) \subseteq Faced /\ a.lead \in Ids
  BY DEF IInv, AboutStored, Fits, Action

LEMMA ItemFacts ==
    ASSUME IInv, NEW q \in Resolvers, res[q] # None
    PROVE  /\ res[q].item \in Items /\ inbox[res[q].item] \in Item
           /\ res[q].verb \in Verbs \cup {"suppress"}
  BY DEF IInv, TypeOK, Resolving

LEMMA MemoriesStep ==
    ASSUME IInv, [Next]_vars PROVE MemoriesKept
  <1>0. TypeOK /\ Sound(rec)
    BY DEF IInv
  <1>1. ASSUME NEW i \in Ids, NEW s \in Seeds, Store(i, s) PROVE MemoriesKept
    BY <1>1, StoreKeeps
  <1>2. ASSUME NEW i \in Stored(rec), Requested(i) \/ Age(i) PROVE MemoriesKept
    BY <1>0, <1>2, RequestMemStep, MemStepKeeps
  <1>3. ASSUME UNCHANGED memVars PROVE MemoriesKept
    BY <1>0, <1>3, UnchangedMemStep, MemStepKeeps
  <1>4. ASSUME NEW r \in Runners, Run(r) PROVE MemoriesKept
    <2>1. ASSUME NEW a \in run[r].plan, RunApplies(r, a) PROVE MemoriesKept
      <3>1. applyAction(a) /\ a \in Action
        BY <2>1, PlanFacts DEF RunApplies
      <3> QED
        BY <1>0, <3>1, ApplyMemStep, MemStepKeeps
    <2>2. CASE UNCHANGED memVars
      BY <1>3, <2>2
    <2>3. \/ UNCHANGED memVars
          \/ \E a \in run[r].plan : RunApplies(r, a)
      BY <1>4 DEF Run, RunBegins, RunLocks, RunSaves, RunEnds, reconcileInboxPage,
           RunScans, RunSkips, RunFileFails, RunFiles
    <2> QED
      BY <2>1, <2>2, <2>3
  <1>5. ASSUME NEW q \in Resolvers, Resolve(q) PROVE MemoriesKept
    <2>1. ASSUME ResolveExecutes(q) PROVE MemoriesKept
      BY <1>0, <2>1, ItemFacts, ResolutionMemStep, MemStepKeeps DEF ResolveExecutes
    <2>2. ASSUME NEW i \in Ids, ResolveDeletes(q, i) PROVE MemoriesKept
      BY <1>0, <2>2, RemoveMemStep, MemStepKeeps DEF ResolveDeletes
    <2>3. \/ UNCHANGED memVars \/ ResolveExecutes(q)
          \/ \E i \in Ids : ResolveDeletes(q, i)
      BY <1>5 DEF Resolve, ResolveReads, ResolveSuppresses, ResolveFails, ResolveCloses
    <2> QED
      BY <1>3, <2>1, <2>2, <2>3
  <1>6. ASSUME \/ PatchPublishes \/ \E p \in Policies : PatchSaves(p)
               \/ \E n \in Items : DeferInboxItem(n)
               \/ UNCHANGED vars
        PROVE  UNCHANGED memVars
    BY <1>6 DEF PatchPublishes, PatchSaves, DeferInboxItem, vars, memVars
  <1> QED
    BY <1>1, <1>2, <1>3, <1>4, <1>5, <1>6 DEF Next


\* What a step makes of the items: new ones are about memories that were
\* stored, and those that are there keep what they are about.
SameReview(x, y) == y.kind = x.kind /\ y.lead = x.lead /\ y.rest = x.rest

ItemsKept ==
    /\ inbox' \in [Items -> {None} \cup Item]
    /\ \A n \in Items : inbox[n] # None =>
         inbox'[n] # None /\ SameReview(inbox[n], inbox'[n])
    /\ \A n \in Items : inbox'[n] # None => Targets(inbox'[n]) \subseteq Faced

LEMMA SameItems ==
    ASSUME IInv, UNCHANGED inbox PROVE ItemsKept
  BY DEF ItemsKept, IInv, TypeOK, AboutStored, SameReview

LEMMA CloseKeeps ==
    ASSUME IInv, NEW n \in Items,
           NEW s \in Verbs \cup {"suppress", "deferred", "obsolete"}, closeItem(n, s)
    PROVE  ItemsKept
  <1>1. CASE UNCHANGED inbox
    BY <1>1, SameItems
  <1>2. CASE Pending(n) /\ inbox' = [inbox EXCEPT ![n].state = s]
    <2>1. inbox \in [Items -> {None} \cup Item] /\ inbox[n] \in Item
      BY <1>2 DEF Pending, IInv, TypeOK
    <2> DEFINE x == [inbox[n] EXCEPT !.state = s]
    <2>2. x \in Item /\ SameReview(inbox[n], x) /\ Targets(x) = Targets(inbox[n])
      BY <2>1 DEF Item, SameReview, Targets
    <2>3. inbox' = [inbox EXCEPT ![n] = x]
      BY <1>2
    <2>4. \A m \in Items : SameReview(inbox[m], inbox[m])
      BY DEF SameReview
    <2>5. /\ \A m \in Items : inbox[m] # None => Targets(inbox[m]) \subseteq Faced
          /\ inbox[n] # None /\ x # None
      BY <1>2, <2>2, StewardAssumption DEF Pending, IInv, AboutStored
    <2> HIDE DEF x
    <2>6. \A m \in Items : inbox'[m] = IF m = n THEN x ELSE inbox[m]
      BY <2>1, <2>3
    <2>7. inbox' \in [Items -> {None} \cup Item]
      BY <2>1, <2>2, <2>3
    <2> QED
      BY <2>2, <2>4, <2>5, <2>6, <2>7 DEF ItemsKept
  <1> QED
    BY <1>1, <1>2 DEF closeItem

LEMMA FileKeeps ==
    ASSUME IInv, NEW r \in Runners, NEW a \in run[r].plan, NEW n \in Items,
           RunFiles(r, a, n)
    PROVE  ItemsKept
  <1> DEFINE x == [kind |-> actionToInboxKind(a.kind), lead |-> a.lead,
                   rest |-> a.rest, state |-> "pending"]
  <1>1. a \in Action /\ Targets(a) \subseteq Faced
    BY PlanFacts
  <1>2. actionToInboxKind(a.kind) \in {"duplicate_candidate",
          "contradiction_candidate", "stale_entry", "promotion_candidate"}
    BY <1>1 DEF Action, actionToInboxKind
  <1>3. x \in Item /\ Targets(x) = Targets(a)
    BY <1>1, <1>2 DEF Item, Action, Targets
  <1>4. inbox[n] = None /\ inbox' = [inbox EXCEPT ![n] = x]
    BY DEF RunFiles
  <1> HIDE DEF x
  <1>5. inbox \in [Items -> {None} \cup Item]
    BY DEF IInv, TypeOK
  <1>6. \A m \in Items : /\ inbox'[m] = IF m = n THEN x ELSE inbox[m]
                         /\ inbox[m] # None => Targets(inbox[m]) \subseteq Faced
                         /\ SameReview(inbox[m], inbox[m])
    BY <1>4, <1>5 DEF IInv, AboutStored, SameReview
  <1>7. inbox' \in [Items -> {None} \cup Item]
    BY <1>3, <1>4, <1>5
  <1> QED
    BY <1>1, <1>3, <1>4, <1>6, <1>7 DEF ItemsKept

LEMMA ItemsStep ==
    ASSUME IInv, [Next]_vars PROVE ItemsKept
  <1>1. CASE UNCHANGED inbox
    BY <1>1, SameItems
  <1>2. ASSUME NEW r \in Runners, Run(r), ~UNCHANGED inbox PROVE ItemsKept
    <2>1. \/ \E n \in run[r].listed : reconcileInboxPage(r, n)
          \/ \E a \in run[r].plan, n \in Items : RunFiles(r, a, n)
      BY <1>2 DEF Run, RunBegins, RunLocks, RunSaves, RunEnds, RunScans,
           RunSkips, RunFileFails, RunApplies
    <2>2. run[r].listed \subseteq Items
      BY DEF IInv, TypeOK
    <2> QED
      BY <2>1, <2>2, CloseKeeps, FileKeeps DEF reconcileInboxPage
  <1>3. ASSUME NEW q \in Resolvers, Resolve(q), ~UNCHANGED inbox PROVE ItemsKept
    <2>1. ResolveCloses(q)
      BY <1>3 DEF Resolve, ResolveReads, ResolveExecutes, ResolveSuppresses,
           ResolveFails, ResolveDeletes
    <2> QED
      BY <2>1, ItemFacts, CloseKeeps DEF ResolveCloses
  <1>4. ASSUME NEW n \in Items, DeferInboxItem(n) PROVE ItemsKept
    BY <1>4, CloseKeeps DEF DeferInboxItem
  <1>5. ASSUME \/ \E i \in Ids, s \in Seeds : Store(i, s)
               \/ \E i \in Stored(rec) : Requested(i) \/ Age(i)
               \/ PatchPublishes \/ \E p \in Policies : PatchSaves(p)
               \/ UNCHANGED vars
        PROVE  UNCHANGED inbox
    BY <1>5 DEF Store, Requested, Request, Edit, Write, VerifyEntry, Age,
         PatchPublishes, PatchSaves, vars
  <1> QED
    BY <1>1, <1>2, <1>3, <1>4, <1>5 DEF Next


LEMMA AtMostOne ==
    ASSUME NEW S, IsFiniteSet(S), Cardinality(S) < 2, NEW i \in S, NEW j \in S
    PROVE  i = j
  <1>1. Cardinality(S) \in Nat
    BY FS_CardinalityType
  <1>2. CASE Cardinality(S) = 0
    BY <1>2, FS_EmptySet
  <1>3. CASE Cardinality(S) = 1
    BY <1>3, FS_Singleton
  <1> QED
    BY <1>1, <1>2, <1>3

\* The reasons of reconcileReason, in the words of the invariant.
LEMMA ReasonIsMoot ==
    ASSUME TypeOK, NEW item \in Item, reconcileReason(item, rec),
           NEW gone, gone = {i \in Ids : targetGoneIn(rec, i)}
    PROVE  Moot(item, gone, rec)
  <1> DEFINE live == {i \in Targets(item) : ~targetGoneIn(rec, i)}
  <1>1. Targets(item) \subseteq Ids
    BY DEF Item, Targets
  <1>2. live = Targets(item) \ gone
    BY <1>1
  <1>3. CASE live = {}
    BY <1>2, <1>3 DEF Moot
  <1>4. CASE item.kind = "duplicate_candidate" /\ Cardinality(live) < 2
    <2>1. IsFiniteSet(live)
      BY <1>1, <1>2, IdsAssumption, FS_Subset
    <2> HIDE DEF live
    <2>2. \A i, j \in live : i = j
      BY <1>4, <2>1, AtMostOne
    <2> QED
      BY <1>2, <1>4, <2>2 DEF Moot
  <1>5. CASE /\ item.kind = "stale_entry"
             /\ \A i \in Targets(item) : rec[i] # None /\ rec[i].type = "episodic"
    BY <1>5 DEF Moot
  <1> QED
    BY <1>3, <1>4, <1>5 DEF reconcileReason

\* What is known of a runner.
Stage == [pc : {"idle", "waiting", "reconcile", "apply", "file"},
          listed : SUBSET Items, gone : SUBSET Ids, plan : SUBSET Action,
          canon : SUBSET Ids]

Held(x) == /\ x \in Stage
           /\ \A a \in x.plan : Fits(a, Faced, x.canon)
           /\ \A n \in x.listed : inbox[n] # None /\ Moot(inbox[n], x.gone, rec)

LEMMA RunnersHeld ==
    ASSUME IInv, NEW r \in Runners PROVE Held(run[r])
  BY DEF IInv, TypeOK, AboutStored, ListedIsMoot, Held, Stage

\* Only the runner that locks becomes busy, and then nobody else is.
RunnerStep(r, x) ==
    /\ run' = [run EXCEPT ![r] = x] /\ Held(x)
    /\ \/ Busy(r)
       \/ x.pc \in {"idle", "waiting"}
       \/ \A o \in Runners : ~Busy(o)

TakesAction(r, a) == /\ run[r].pc \in {"apply", "file"}
                     /\ run' = [run EXCEPT ![r].plan = @ \ {a}]

LEMMA FewerPlanned ==
    ASSUME IInv, NEW r \in Runners, NEW a, TakesAction(r, a)
    PROVE  \E x : RunnerStep(r, x)
  <1> DEFINE x == [run[r] EXCEPT !.plan = run[r].plan \ {a}]
  <1>1. Held(run[r])
    BY RunnersHeld
  <1>2. /\ x \in Stage /\ x.plan \subseteq run[r].plan /\ x.canon = run[r].canon
        /\ x.listed = run[r].listed /\ x.gone = run[r].gone
    BY <1>1 DEF Held, Stage
  <1>3. Held(x)
    BY <1>1, <1>2 DEF Held
  <1> QED
    BY <1>3 DEF RunnerStep, Busy, TakesAction

LEMMA BeginStep ==
    ASSUME IInv, NEW r \in Runners, RunBegins(r)
    PROVE  RunnerStep(r, [run[r] EXCEPT !.pc = "waiting"])
  <1> DEFINE x == [run[r] EXCEPT !.pc = "waiting"]
  <1>1. Held(run[r])
    BY RunnersHeld
  <1>2. /\ x \in Stage /\ x.plan = run[r].plan /\ x.canon = run[r].canon
        /\ x.listed = run[r].listed /\ x.gone = run[r].gone /\ x.pc = "waiting"
    BY <1>1 DEF Held, Stage
  <1>3. Held(x)
    BY <1>1, <1>2 DEF Held
  <1> QED
    BY <1>2, <1>3 DEF RunnerStep, RunBegins

LEMMA LockStep ==
    ASSUME IInv, NEW r \in Runners, RunLocks(r)
    PROVE  \E x : RunnerStep(r, x)
  <1> DEFINE gone == {i \in Ids : targetGoneIn(rec, i)}
             listed == {n \in Items : Pending(n) /\ reconcileReason(inbox[n], rec)}
             x == [run[r] EXCEPT !.pc = "reconcile", !.gone = gone, !.listed = listed]
  <1>1. Held(run[r])
    BY RunnersHeld
  <1>2. gone \in SUBSET Ids /\ listed \in SUBSET Items
    OBVIOUS
  <1>3. ASSUME NEW n \in listed PROVE inbox[n] # None /\ Moot(inbox[n], gone, rec)
    <2>1. inbox[n] \in Item
      BY DEF Pending, IInv, TypeOK
    <2> QED
      BY <2>1, ReasonIsMoot DEF Pending, IInv
  <1>4. run' = [run EXCEPT ![r] = x]
    BY DEF RunLocks
  <1> HIDE DEF gone, listed
  <1>5. /\ x \in Stage /\ x.plan = run[r].plan /\ x.canon = run[r].canon
        /\ x.listed = listed /\ x.gone = gone
    BY <1>1, <1>2 DEF Held, Stage
  <1> HIDE DEF x
  <1>6. Held(x)
    BY <1>1, <1>3, <1>5 DEF Held
  <1>7. \A o \in Runners : ~Busy(o)
    BY DEF RunLocks, Busy
  <1> QED
    BY <1>4, <1>6, <1>7 DEF RunnerStep

LEMMA PageStep ==
    ASSUME IInv, NEW r \in Runners, NEW n, reconcileInboxPage(r, n)
    PROVE  RunnerStep(r, [run[r] EXCEPT !.listed = run[r].listed \ {n}])
  <1> DEFINE x == [run[r] EXCEPT !.listed = run[r].listed \ {n}]
  <1>1. Held(run[r])
    BY RunnersHeld
  <1>2. /\ x \in Stage /\ x.plan = run[r].plan /\ x.canon = run[r].canon
        /\ x.listed \subseteq run[r].listed /\ x.gone = run[r].gone
    BY <1>1 DEF Held, Stage
  <1>3. Held(x)
    BY <1>1, <1>2 DEF Held
  <1> QED
    BY <1>3 DEF RunnerStep, reconcileInboxPage, Running, Busy

LEMMA ScanStep ==
    ASSUME IInv, NEW r \in Runners, NEW p \in CopiedPolicies, NEW scope,
           RunScans(r, p, scope)
    PROVE  \E x : RunnerStep(r, x)
  <1> DEFINE canon == CanonicalOf(rec)
  <1>1. PICK plan \in RunScanners(corpus, p, scope) :
          run' = [run EXCEPT ![r] =
                    [Idle EXCEPT !.pc = "apply", !.plan = plan, !.canon = canon]]
    BY DEF RunScans, CanonicalOf
  <1> DEFINE x == [Idle EXCEPT !.pc = "apply", !.plan = plan, !.canon = canon]
  <1>2. p \in Policy /\ corpus.rec = rec
    BY DEF CopiedPolicies, corpus
  <1>3. \A a \in plan : Fits(a, Stored(rec), canon)
    BY <1>2, ScanFits
  <1>4. Stored(rec) \subseteq Faced /\ canon \in SUBSET Ids
    BY DEF IInv, AboutStored, CanonicalOf, Stored
  <1>5. \A a \in plan : a \in Action /\ Fits(a, Faced, canon)
    BY <1>3, <1>4 DEF Fits
  <1> HIDE DEF canon
  <1>6. x \in Stage /\ x.plan = plan /\ x.canon = canon /\ x.listed = {}
    BY <1>4, <1>5 DEF Idle, Stage
  <1>7. Held(x)
    BY <1>5, <1>6 DEF Held
  <1>8. Busy(r)
    BY DEF RunScans, Running, Busy
  <1> QED
    BY <1>1, <1>7, <1>8 DEF RunnerStep

LEMMA SaveStep ==
    ASSUME IInv, NEW r \in Runners, RunSaves(r)
    PROVE  RunnerStep(r, [run[r] EXCEPT !.pc = "file"])
  <1> DEFINE x == [run[r] EXCEPT !.pc = "file"]
  <1>1. Held(run[r])
    BY RunnersHeld
  <1>2. /\ x \in Stage /\ x.plan = run[r].plan /\ x.canon = run[r].canon
        /\ x.listed = run[r].listed /\ x.gone = run[r].gone
    BY <1>1 DEF Held, Stage
  <1>3. Held(x)
    BY <1>1, <1>2 DEF Held
  <1> QED
    BY <1>3 DEF RunnerStep, RunSaves, Running, Busy

LEMMA EndStep ==
    ASSUME IInv, NEW r \in Runners, RunEnds(r) PROVE RunnerStep(r, Idle)
  BY DEF RunnerStep, RunEnds, Idle, Held, Stage

LEMMA RunnersStep ==
    ASSUME IInv, [Next]_vars
    PROVE  UNCHANGED run \/ \E r \in Runners : \E x : RunnerStep(r, x)
  <1>1. ASSUME NEW r \in Runners, Run(r) PROVE \E x : RunnerStep(r, x)
    <2>1. ASSUME NEW a, RunApplies(r, a) PROVE TakesAction(r, a)
      BY <2>1 DEF RunApplies, Running, TakesAction
    <2>2. ASSUME NEW a, RunSkips(r, a) PROVE TakesAction(r, a)
      BY <2>2 DEF RunSkips, Running, TakesAction
    <2>3. ASSUME NEW a, RunFileFails(r, a) PROVE TakesAction(r, a)
      BY <2>3 DEF RunFileFails, Running, TakesAction
    <2>4. ASSUME NEW a, NEW n, RunFiles(r, a, n) PROVE TakesAction(r, a)
      BY <2>4 DEF RunFiles, Running, TakesAction
    <2> QED
      BY <1>1, <2>1, <2>2, <2>3, <2>4, FewerPlanned, BeginStep, LockStep, PageStep,
         ScanStep, SaveStep, EndStep
      DEF Run
  <1>2. ASSUME \/ \E i \in Ids, s \in Seeds : Store(i, s)
               \/ \E i \in Stored(rec) : Requested(i) \/ Age(i)
               \/ PatchPublishes \/ \E p \in Policies : PatchSaves(p)
               \/ \E q \in Resolvers : Resolve(q)
               \/ \E n \in Items : DeferInboxItem(n)
               \/ UNCHANGED vars
        PROVE  UNCHANGED run
    BY <1>2 DEF Store, Requested, Request, Edit, Write, VerifyEntry, Age,
         PatchPublishes, PatchSaves, Resolve, ResolveReads, ResolveExecutes,
         ResolveSuppresses, ResolveDeletes, ResolveFails, ResolveCloses,
         DeferInboxItem, vars
  <1> QED
    BY <1>1, <1>2 DEF Next


\* What is known of a resolution when the verbs in d have been carried out.
Resolution == [item : Items, verb : Verbs \cup {"suppress"},
               pc : {"execute", "close"}, left : SUBSET Ids]

Ready(y, d) == /\ y \in Resolution /\ inbox[y.item] # None
               /\ y.pc = "close" => y.verb = "suppress" \/ <<y.item, y.verb>> \in d

LEMMA ResolversReady ==
    ASSUME IInv, NEW q \in Resolvers, res[q] # None PROVE Ready(res[q], done)
  BY DEF IInv, TypeOK, Resolving, Ready, Resolution

ResolverStep(q, y) ==
    /\ res' = [res EXCEPT ![q] = y] /\ (y = None \/ Ready(y, done'))
    /\ done \subseteq done' /\ done' \subseteq Items \X Verbs

LEMMA ReadStep ==
    ASSUME IInv, NEW q \in Resolvers, NEW n \in Items, NEW v \in Decisions,
           ResolveReads(q, n, v)
    PROVE  \E y : ResolverStep(q, y)
  <1> DEFINE y == [item |-> n, verb |-> v, pc |-> "execute", left |-> Targets(inbox[n])]
  <1>1. inbox[n] \in Item /\ v \in Verbs \cup {"suppress"}
    BY StewardAssumption DEF ResolveReads, Pending, IInv, TypeOK
  <1>2. Targets(inbox[n]) \in SUBSET Ids
    BY <1>1 DEF Item, Targets
  <1>3. y \in Resolution /\ y.item = n /\ y.pc = "execute"
    BY <1>1, <1>2 DEF Resolution
  <1>4. res' = [res EXCEPT ![q] = y] /\ UNCHANGED done
    BY DEF ResolveReads
  <1> HIDE DEF y
  <1>5. Ready(y, done')
    BY <1>3 DEF Ready, ResolveReads, Pending
  <1> QED
    BY <1>4, <1>5 DEF ResolverStep, IInv, TypeOK

LEMMA ClosingStep ==
    ASSUME IInv, NEW q \in Resolvers, res[q] # None,
           ResolveExecutes(q) \/ ResolveSuppresses(q)
    PROVE  \E y : ResolverStep(q, y)
  <1> DEFINE y == [res[q] EXCEPT !.pc = "close"]
  <1>1. Ready(res[q], done)
    BY ResolversReady
  <1>2. y \in Resolution /\ y.item = res[q].item /\ y.verb = res[q].verb
    BY <1>1 DEF Ready, Resolution
  <1>3. res' = [res EXCEPT ![q] = y]
    BY DEF ResolveExecutes, ResolveSuppresses
  <1> HIDE DEF y
  <1>4. CASE ResolveExecutes(q)
    <2>1. done' = done \cup {<<res[q].item, res[q].verb>>} /\ res[q].verb # "suppress"
      BY <1>4 DEF ResolveExecutes
    <2>2. res[q].item \in Items /\ res[q].verb \in Verbs
      BY <1>1, <2>1 DEF Ready, Resolution
    <2>3. done' \subseteq Items \X Verbs
      BY <2>1, <2>2 DEF IInv, TypeOK
    <2>4. Ready(y, done')
      BY <1>1, <1>2, <2>1 DEF Ready
    <2> QED
      BY <1>3, <2>1, <2>3, <2>4 DEF ResolverStep
  <1>5. CASE ResolveSuppresses(q)
    <2>1. Ready(y, done') /\ UNCHANGED done
      BY <1>1, <1>2, <1>5 DEF Ready, ResolveSuppresses
    <2> QED
      BY <1>3, <2>1 DEF ResolverStep, IInv, TypeOK
  <1> QED
    BY <1>4, <1>5

LEMMA DeleteStep ==
    ASSUME IInv, NEW q \in Resolvers, NEW i \in Ids, ResolveDeletes(q, i)
    PROVE  \E y : ResolverStep(q, y)
  <1> DEFINE last == res[q].left = {i}
             y == [res[q] EXCEPT !.left = res[q].left \ {i},
                                 !.pc = IF last THEN "close" ELSE res[q].pc]
  <1>1. Ready(res[q], done) /\ res[q].pc = "execute" /\ res[q].verb = "delete"
    BY ResolversReady DEF ResolveDeletes
  <1>2. /\ y \in Resolution /\ y.item = res[q].item /\ y.verb = "delete"
        /\ y.pc = IF last THEN "close" ELSE "execute"
    BY <1>1 DEF Ready, Resolution
  <1>3. res' = [res EXCEPT ![q] = y]
    BY DEF ResolveDeletes
  <1>4. done' = IF last THEN done \cup {<<res[q].item, "delete">>} ELSE done
    BY DEF ResolveDeletes
  <1> HIDE DEF y, last
  <1>5. res[q].item \in Items /\ "delete" \in Verbs
    BY <1>1 DEF Ready, Resolution, Verbs
  <1>6. done \subseteq done' /\ done' \subseteq Items \X Verbs
    BY <1>4, <1>5 DEF IInv, TypeOK
  <1>7. Ready(y, done')
    <2>1. CASE last
      BY <1>1, <1>2, <1>4, <2>1 DEF Ready
    <2>2. CASE ~last
      BY <1>1, <1>2, <2>2 DEF Ready
    <2> QED
      BY <2>1, <2>2
  <1> QED
    BY <1>3, <1>6, <1>7 DEF ResolverStep

LEMMA LetGoStep ==
    ASSUME IInv, NEW q \in Resolvers, ResolveFails(q) \/ ResolveCloses(q)
    PROVE  ResolverStep(q, None)
  BY DEF ResolveFails, ResolveCloses, ResolverStep, IInv, TypeOK

LEMMA ResolversStep ==
    ASSUME IInv, [Next]_vars
    PROVE  UNCHANGED <<res, done>> \/ \E q \in Resolvers : \E y : ResolverStep(q, y)
  <1>1. ASSUME NEW q \in Resolvers, Resolve(q) PROVE \E y : ResolverStep(q, y)
    <2>1. ASSUME ResolveExecutes(q) \/ ResolveSuppresses(q)
          PROVE  \E y : ResolverStep(q, y)
      BY <2>1, ClosingStep DEF ResolveExecutes, ResolveSuppresses
    <2> QED
      BY <1>1, <2>1, ReadStep, DeleteStep, LetGoStep DEF Resolve
  <1>2. ASSUME NEW r \in Runners, Run(r) PROVE UNCHANGED <<res, done>>
    BY <1>2 DEF Run, RunBegins, RunLocks, RunSaves, RunEnds, reconcileInboxPage,
         RunScans, RunApplies, RunSkips, RunFileFails, RunFiles
  <1>3. ASSUME \/ \E i \in Ids, s \in Seeds : Store(i, s)
               \/ \E i \in Stored(rec) : Requested(i) \/ Age(i)
               \/ PatchPublishes \/ \E p \in Policies : PatchSaves(p)
               \/ \E n \in Items : DeferInboxItem(n)
               \/ UNCHANGED vars
        PROVE  UNCHANGED <<res, done>>
    BY <1>3 DEF Store, Requested, Request, Edit, Write, VerifyEntry, Age,
         PatchPublishes, PatchSaves, DeferInboxItem, vars
  <1> QED
    BY <1>1, <1>2, <1>3 DEF Next

LEMMA CountersStep ==
    ASSUME IInv, [Next]_vars
    PROVE  /\ policy' \in Policy /\ saved' \in Policy /\ ops' \in Nat /\ runs' \in Nat
  <1>0. policy \in Policy /\ saved \in Policy /\ ops \in Nat /\ runs \in Nat
    BY DEF IInv, TypeOK
  <1>1. ASSUME NEW r \in Runners, Run(r)
        PROVE  UNCHANGED <<policy, saved, ops>> /\ runs' \in {runs, runs + 1}
    BY <1>1 DEF Run, RunBegins, RunLocks, RunSaves, RunEnds, reconcileInboxPage,
         RunScans, RunApplies, RunSkips, RunFileFails, RunFiles, policyVars
  <1>2. ASSUME NEW q \in Resolvers, Resolve(q)
        PROVE  UNCHANGED <<policy, saved, ops, runs>>
    BY <1>2 DEF Resolve, ResolveReads, ResolveExecutes, ResolveSuppresses,
         ResolveDeletes, ResolveFails, ResolveCloses, policyVars
  <1>3. ASSUME \/ \E i \in Ids, s \in Seeds : Store(i, s)
               \/ \E i \in Stored(rec) : Requested(i) \/ Age(i)
        PROVE  UNCHANGED <<policy, saved, runs>> /\ ops' \in {ops, ops + 1}
    BY <1>3 DEF Store, Requested, Request, Edit, Write, VerifyEntry, Age, policyVars
  <1>4. ASSUME NEW p \in Policies, PatchSaves(p)
        PROVE  saved' = p /\ UNCHANGED <<policy, runs>> /\ ops' = ops + 1
    BY <1>4 DEF PatchSaves
  <1>5. ASSUME PatchPublishes
        PROVE  policy' = saved /\ UNCHANGED <<saved, ops, runs>>
    BY <1>5 DEF PatchPublishes
  <1>6. ASSUME \/ \E n \in Items : DeferInboxItem(n)
               \/ UNCHANGED vars
        PROVE  UNCHANGED <<policy, saved, ops, runs>>
    BY <1>6 DEF DeferInboxItem, vars, policyVars
  <1>7. Policies \subseteq Policy
    BY StewardAssumption
  <1> QED
    BY <1>0, <1>1, <1>2, <1>3, <1>4, <1>5, <1>6, <1>7 DEF Next


-----------------------------------------------------------------------------
(* Invariance.                                                             *)

\* A review that is moot stays so: what was stored does not come back under
\* its id, and keeps its type.
LEMMA MootStays ==
    ASSUME MemoriesKept, NEW x, NEW y, Targets(x) \subseteq Faced,
           SameReview(x, y), NEW gone, Moot(x, gone, rec)
    PROVE  Moot(y, gone, rec')
  <1>1. Targets(y) = Targets(x) /\ y.kind = x.kind
    BY DEF SameReview, Targets
  <1>2. \A i \in Targets(x) : \/ rec'[i] = None
                              \/ rec[i] # None /\ rec'[i].type = rec[i].type
    BY DEF MemoriesKept
  <1>3. CASE Targets(x) \subseteq gone
    BY <1>1, <1>3 DEF Moot
  <1>4. CASE /\ x.kind = "duplicate_candidate"
             /\ \A i, j \in Targets(x) \ gone : i = j
    BY <1>1, <1>4 DEF Moot
  <1>5. CASE /\ x.kind = "stale_entry"
             /\ \A i \in Targets(x) : rec[i] = None \/ rec[i].type = "episodic"
    <2>1. \A i \in Targets(x) : rec'[i] = None \/ rec'[i].type = "episodic"
      BY <1>2, <1>5
    <2> QED
      BY <1>1, <1>5, <2>1 DEF Moot
  <1> QED
    BY <1>3, <1>4, <1>5 DEF Moot

\* What a runner holds stays true, whoever makes the step.
LEMMA HeldStays ==
    ASSUME IInv, MemoriesKept, ItemsKept, NEW x, Held(x) PROVE Held(x)'
  <1>1. ASSUME NEW a \in x.plan PROVE Fits(a, Faced', x.canon)
    BY DEF Held, Fits, MemoriesKept
  <1>2. ASSUME NEW n \in x.listed PROVE inbox'[n] # None /\ Moot(inbox'[n], x.gone, rec')
    <2>1. n \in Items /\ inbox[n] # None /\ Moot(inbox[n], x.gone, rec)
      BY DEF Held, Stage
    <2>2. inbox'[n] # None /\ SameReview(inbox[n], inbox'[n])
      BY <2>1 DEF ItemsKept
    <2>3. Targets(inbox[n]) \subseteq Faced
      BY <2>1 DEF IInv, AboutStored
    <2> QED
      BY <2>1, <2>2, <2>3, MootStays
  <1>3. x \in Stage
    BY DEF Held
  <1> QED
    BY <1>1, <1>2, <1>3 DEF Held


LEMMA RunsKept ==
    ASSUME IInv, [Next]_vars PROVE \A r \in Runners : Held(run[r])'
  <1>1. MemoriesKept /\ ItemsKept
    BY MemoriesStep, ItemsStep
  <1>2. DOMAIN run = Runners
    BY DEF IInv, TypeOK
  <1>3. ASSUME NEW o \in Runners PROVE \E x : run'[o] = x /\ Held(x)
    <2>1. Held(run[o])
      BY RunnersHeld
    <2>2. ASSUME NEW r \in Runners, NEW x, RunnerStep(r, x)
          PROVE  run'[o] = (IF o = r THEN x ELSE run[o]) /\ Held(x)
      BY <1>2, <2>2 DEF RunnerStep
    <2> QED
      BY <2>1, <2>2, RunnersStep
  <1>4. ASSUME NEW o \in Runners, NEW x, run'[o] = x, Held(x)
        PROVE  Held(run[o])'
    <2>1. Held(x)'
      BY <1>1, <1>4, HeldStays
    <2> QED
      BY <1>4, <2>1 DEF Held
  <1> QED
    BY <1>3, <1>4

LEMMA OneRunKept ==
    ASSUME IInv, [Next]_vars PROVE OneRun'
  <1>1. DOMAIN run = Runners /\ OneRun
    BY DEF IInv, TypeOK
  <1>2. ASSUME NEW r \in Runners, NEW x, RunnerStep(r, x) PROVE OneRun'
    <2>1. \A o \in Runners : run'[o] = IF o = r THEN x ELSE run[o]
      BY <1>1, <1>2 DEF RunnerStep
    <2>2. \A o \in Runners \ {r} : Busy(o)' <=> Busy(o)
      BY <2>1 DEF Busy
    <2>3. Busy(r)' => x.pc \notin {"idle", "waiting"}
      BY <2>1 DEF Busy
    <2>4. Busy(r)' => Busy(r) \/ \A o \in Runners : ~Busy(o)
      BY <1>2, <2>3 DEF RunnerStep
    <2> QED
      BY <1>1, <2>2, <2>4 DEF OneRun
  <1>3. CASE UNCHANGED run
    BY <1>1, <1>3 DEF OneRun, Busy
  <1> QED
    BY <1>2, <1>3, RunnersStep

LEMMA ResolversKept ==
    ASSUME IInv, [Next]_vars
    PROVE  /\ res' \in [Resolvers -> {None} \cup Resolution] /\ Resolving'
           /\ done' \subseteq Items \X Verbs
  <1>1. ItemsKept
    BY ItemsStep
  <1>2. res \in [Resolvers -> {None} \cup Resolution] /\ done \subseteq Items \X Verbs
    BY DEF IInv, TypeOK, Resolution
  <1>3. ASSUME NEW y, Ready(y, done')
        PROVE  inbox'[y.item] # None
    BY <1>1, <1>3 DEF Ready, Resolution, ItemsKept
  <1>4. ASSUME NEW q \in Resolvers, NEW y, ResolverStep(q, y)
        PROVE  /\ res' \in [Resolvers -> {None} \cup Resolution]
               /\ done' \subseteq Items \X Verbs
               /\ \A o \in Resolvers : res'[o] # None => Ready(res'[o], done')
    <2>1. y \in {None} \cup Resolution
      BY <1>4 DEF ResolverStep, Ready
    <2>2. ASSUME NEW o \in Resolvers, res'[o] # None PROVE Ready(res'[o], done')
      <3>1. res'[o] = IF o = q THEN y ELSE res[o]
        BY <1>2, <1>4 DEF ResolverStep
      <3>2. CASE o = q
        BY <1>4, <2>2, <3>1, <3>2 DEF ResolverStep
      <3>3. CASE o # q
        <4>1. Ready(res[o], done) /\ res'[o] = res[o]
          BY <2>2, <3>1, <3>3, ResolversReady
        <4> QED
          BY <1>4, <4>1 DEF Ready, ResolverStep
      <3> QED
        BY <3>2, <3>3
    <2> QED
      BY <1>2, <1>4, <2>1, <2>2 DEF ResolverStep
  <1>5. CASE UNCHANGED <<res, done>>
    <2>1. \A o \in Resolvers : res'[o] # None => Ready(res'[o], done')
      BY <1>5, ResolversReady
    <2> QED
      BY <1>2, <1>3, <1>5, <2>1 DEF Resolving, Ready
  <1>6. ASSUME \A o \in Resolvers : res'[o] # None => Ready(res'[o], done')
        PROVE  Resolving'
    BY <1>3, <1>6 DEF Resolving, Ready
  <1> QED
    BY <1>4, <1>5, <1>6, ResolversStep

LEMMA Invariance == IInv /\ [Next]_vars => IInv'
  <1> SUFFICES ASSUME IInv, [Next]_vars PROVE IInv'
    OBVIOUS
  <1>1. MemoriesKept /\ ItemsKept
    BY MemoriesStep, ItemsStep
  <1>2. \A r \in Runners : Held(run[r])'
    BY RunsKept
  <1>3. DOMAIN run' = Runners /\ run' = [r \in Runners |-> run'[r]]
    <2>1. DOMAIN run = Runners /\ run = [r \in Runners |-> run[r]]
      BY DEF IInv, TypeOK
    <2>2. ASSUME NEW r \in Runners, NEW x, RunnerStep(r, x)
          PROVE  DOMAIN run' = Runners /\ run' = [o \in Runners |-> run'[o]]
      BY <2>1, <2>2 DEF RunnerStep
    <2> QED
      BY <2>1, <2>2, RunnersStep
  <1>4. run' \in [Runners -> Stage]
    BY <1>2, <1>3 DEF Held, Stage
  <1>5. TypeOK'
    BY <1>1, <1>4, ResolversKept, CountersStep
    DEF TypeOK, MemoriesKept, ItemsKept, Stage, Resolution
  <1>6. AboutStored'
    <2>1. (\A r \in Runners : \A a \in run[r].plan : Fits(a, Faced, run[r].canon))'
      BY <1>2 DEF Held
    <2>2. (\A n \in Items : inbox[n] # None => Targets(inbox[n]) \subseteq Faced)'
      BY <1>1 DEF ItemsKept, MemoriesKept
    <2> QED
      BY <1>1, <2>1, <2>2 DEF AboutStored, MemoriesKept
  <1>7. ListedIsMoot'
    BY <1>2 DEF Held, ListedIsMoot
  <1> QED
    BY <1>1, <1>5, <1>6, <1>7, OneRunKept, ResolversKept DEF IInv, MemoriesKept

\* The types are right in every state.
THEOREM TypeCorrect == Spec => []TypeOK
  <1>1. IInv => TypeOK
    BY DEF IInv
  <1> QED
    BY <1>1, InitSound, Invariance, PTL DEF Spec


\* Reconciliation takes no review away that is still needed: closeItem under
\* the run of reconcileInbox, whatever happens between its reading and here.
THEOREM ReconcileIsRightHolds == Spec => ReconcileIsRight
  <1> DEFINE Right(r, n) ==
        Running(r, "reconcile") /\ Pending(n) /\ n \notin run'[r].listed
          /\ inbox'[n].state = "obsolete"
        => \/ ~NeedsReview(inbox[n])
           \/ \E i \in Targets(inbox[n]) \cap run[r].gone : ~targetGoneIn(rec, i)
  <1>1. ASSUME IInv, NEW r \in Runners, NEW n \in run[r].listed,
               \A i \in Targets(inbox[n]) \cap run[r].gone : targetGoneIn(rec, i)
        PROVE  ~NeedsReview(inbox[n])
    <2> DEFINE x == inbox[n]
               live == {i \in Targets(x) : ~targetGoneIn(rec, i)}
    <2>1. Moot(x, run[r].gone, rec) /\ live \subseteq Targets(x) \ run[r].gone
      BY <1>1 DEF IInv, ListedIsMoot
    <2>2. \A i \in live : rec[i] # None
      BY DEF targetGoneIn
    <2>3. CASE live = {}
      BY <2>3 DEF NeedsReview
    <2>4. CASE /\ x.kind = "duplicate_candidate"
               /\ \A i, j \in Targets(x) \ run[r].gone : i = j
      <3>1. \A i, j \in live : i = j
        BY <2>1, <2>4
      <3> HIDE DEF live
      <3>2. NeedsReview(x) = \E i, j \in live : i # j
        BY <2>4 DEF NeedsReview, live
      <3> QED
        BY <3>1, <3>2
    <2>5. CASE /\ x.kind = "stale_entry"
               /\ \A i \in Targets(x) : rec[i] = None \/ rec[i].type = "episodic"
      <3>1. \A i \in live : rec[i].type = "episodic"
        BY <2>2, <2>5
      <3> HIDE DEF live
      <3>2. NeedsReview(x) = \E i \in live : rec[i].type # "episodic"
        BY <2>5 DEF NeedsReview, live
      <3> QED
        BY <3>1, <3>2
    <2> QED
      BY <2>1, <2>3, <2>4, <2>5 DEF Moot
  <1>2. IInv /\ [Next]_vars => \A r \in Runners : \A n \in run[r].listed : Right(r, n)
    BY <1>1
  <1> QED
    BY <1>2, InitSound, Invariance, PTL DEF Spec, ReconcileIsRight

\* What a run has in its hands to do by itself is among what the scanners let
\* it do, and about none of what was canonical.
LEMMA SafeSparesCanon ==
    ASSUME IInv, NEW r \in Runners, NEW a \in nextSafe(r)
    PROVE  /\ a \in run[r].plan /\ a \in Action /\ Targets(a) \cap run[r].canon = {}
           /\ a.kind \in {"mark_stale", "merge_duplicates", "delete_expired_working"}
  BY DEF nextSafe, IInv, AboutStored, Fits

\* Which steps leave the requests and the resolutions as they are and change
\* memories: those of the one run that applies its plan.
LEMMA OnlyRunChanges ==
    ASSUME IInv, [Next]_vars, UNCHANGED <<res, ops>>,
           NEW r \in Runners, Running(r, "apply")
    PROVE  UNCHANGED rec \/ \E a \in nextSafe(r) : applyAction(a)
  <1>0. ops \in Nat /\ ops + 1 # ops
    BY DEF IInv, TypeOK
  <1>1. ASSUME NEW i \in Ids, NEW s \in Seeds, Store(i, s) PROVE FALSE
    BY <1>0, <1>1 DEF Store
  <1>2. ASSUME NEW i \in Stored(rec), Requested(i) PROVE FALSE
    BY <1>0, <1>2 DEF Requested, Request, Edit, Write, VerifyEntry
  <1>3. ASSUME NEW o \in Runners, Run(o), ~UNCHANGED rec
        PROVE  \E a \in nextSafe(r) : applyAction(a)
    <2>1. PICK a : RunApplies(o, a)
      BY <1>3 DEF Run, RunBegins, RunLocks, RunSaves, RunEnds, reconcileInboxPage,
           RunScans, RunSkips, RunFileFails, RunFiles, memVars
    <2>2. Busy(o) /\ Busy(r)
      BY <2>1 DEF RunApplies, Running, Busy
    <2>3. o = r
      BY <2>2 DEF IInv, OneRun
    <2> QED
      BY <2>1, <2>3 DEF RunApplies
  <1>4. ASSUME NEW q \in Resolvers, Resolve(q) PROVE UNCHANGED rec
    <2>1. res \in [Resolvers -> {None} \cup Resolution]
      BY DEF IInv, TypeOK, Resolution
    <2>2. ASSUME ResolveExecutes(q) PROVE FALSE
      <3>1. res'[q] = [res[q] EXCEPT !.pc = "close"] /\ res[q] \in Resolution
        BY <2>1, <2>2 DEF ResolveExecutes
      <3>2. res'[q].pc = "close" /\ res[q].pc = "execute"
        BY <2>2, <3>1 DEF ResolveExecutes, Resolution
      <3> QED
        BY <3>2
    <2>3. ASSUME NEW i \in Ids, ResolveDeletes(q, i) PROVE FALSE
      <3>1. res[q] \in Resolution /\ i \in res[q].left
        BY <2>1, <2>3 DEF ResolveDeletes
      <3> DEFINE last == res[q].left = {i}
                 y == [res[q] EXCEPT !.left = res[q].left \ {i},
                                     !.pc = IF last THEN "close" ELSE res[q].pc]
      <3>2. res' = [res EXCEPT ![q] = y]
        BY <2>3 DEF ResolveDeletes
      <3>3. y.left = res[q].left \ {i}
        BY <3>1 DEF Resolution
      <3> HIDE DEF y
      <3>4. res'[q] = y
        BY <2>1, <3>2
      <3> QED
        BY <3>1, <3>3, <3>4
    <2> QED
      BY <1>4, <2>2, <2>3 DEF Resolve, ResolveReads, ResolveSuppresses, ResolveFails,
         ResolveCloses, memVars
  <1>5. ASSUME \/ \E i \in Stored(rec) : Age(i)
               \/ PatchPublishes \/ \E p \in Policies : PatchSaves(p)
               \/ \E n \in Items : DeferInboxItem(n)
               \/ UNCHANGED vars
        PROVE  UNCHANGED rec
    BY <1>5 DEF Age, PatchPublishes, PatchSaves, DeferInboxItem, vars, memVars
  <1> QED
    BY <1>1, <1>2, <1>3, <1>4, <1>5 DEF Next

\* A run left to itself retires or deletes no record that was canonical when
\* it read the cache: shouldAutoMergeGroup, scanStale and scanExpiredWorking
\* leave those to review, and only one run at a time acts on what it read.
THEOREM AutoSparesCanonicalHolds == Spec => AutoSparesCanonical
  <1> DEFINE Spared(r) ==
        Running(r, "apply") /\ UNCHANGED <<res, ops>> =>
          \A i \in Stored(rec) \cap run[r].canon :
            IsCanonicalMemory(rec[i])
              => rec'[i] # None /\ (rec'[i].meta.archived => rec[i].meta.archived)
  <1>1. ASSUME IInv, [Next]_vars, NEW r \in Runners, Running(r, "apply"),
               UNCHANGED <<res, ops>>, NEW i \in Stored(rec), i \in run[r].canon
        PROVE  rec'[i] = rec[i]
    <2>0. i \in Ids /\ rec \in Table /\ DOMAIN rec = Ids
      BY <1>1 DEF Stored, IInv, TypeOK, Table
    <2>1. ASSUME NEW a \in nextSafe(r), applyAction(a) PROVE rec'[i] = rec[i]
      <3>1. i # a.lead /\ i \notin a.rest
        BY <1>1, SafeSparesCanon DEF Targets
      <3>2. CASE Retire(a.lead, None)
        BY <2>0, <3>1, <3>2 DEF Retire, MarkOutdated
      <3>3. CASE MergeInto(a.lead, a.rest)
        BY <2>0, <3>1, <3>3 DEF MergeInto, MergeDuplicates, memVars
      <3>4. CASE Remove(a.lead)
        BY <2>0, <3>1, <3>4 DEF Remove
      <3> QED
        BY <2>1, <3>2, <3>3, <3>4 DEF applyAction
    <2> QED
      BY <1>1, <2>1, OnlyRunChanges
  <1>2. IInv /\ [Next]_vars => \A r \in Runners : Spared(r)
    BY <1>1 DEF Stored
  <1> QED
    BY <1>2, InitSound, Invariance, PTL DEF Spec, AutoSparesCanonical


-----------------------------------------------------------------------------
(* Merging.                                                                *)

\* Validate alone takes no row out of use.
LEMMA ValidatedStaysActive ==
    ASSUME NEW r \in Record, Consistent(r.meta), ~isArchivedMemory(r)
    PROVE  ~isArchivedMemory([r EXCEPT !.meta = Validate(r.meta)])
  <1> DEFINE m == r.meta
             v == Validate(m)
             q == [r EXCEPT !.meta = v]
             filled == normalizeLifecycleStatus(m.status)
  <1>1. m \in Meta /\ r.type \in Types
    BY DEF Record
  <1>2. filled # "canonical"
    BY <1>1, StatusIsNotCanonical DEF Meta
  <1>3. q.meta = v /\ q.type = r.type
    BY DEF Record
  <1>4. /\ ~m.archived /\ ~v.archived /\ v.status = m.status
        /\ v.canonical <=> m.canonical
        /\ v.lifecycle = IF m.canonical THEN "canonical"
                         ELSE IF m.lifecycle # "absent" THEN m.lifecycle ELSE filled
    <2>1. ~m.archived
      BY DEF isArchivedMemory
    <2>2. /\ v.archived <=> m.archived
          /\ v.canonical <=> m.canonical \/ m.lifecycle = "canonical"
      BY <1>1, ValidateFacts
    <2>3. m.lifecycle = "canonical" => m.canonical
      BY DEF Consistent
    <2>4. v.status = m.status
      BY <1>1 DEF Validate, Meta
    <2>5. v.lifecycle = IF m.canonical THEN "canonical"
                        ELSE IF m.lifecycle # "absent" THEN m.lifecycle ELSE filled
      BY <1>1 DEF Validate, Meta
    <2> QED
      BY <2>1, <2>2, <2>3, <2>4, <2>5
  <1> HIDE DEF v, filled
  <1>5. LifecycleStatusOf(r) # "superseded"
    BY DEF isArchivedMemory
  <1>6. LifecycleStatusOf(q) # "superseded"
    <2>1. CASE m.canonical
      BY <1>3, <1>4, <2>1 DEF LifecycleStatusOf
    <2>2. CASE ~m.canonical /\ m.lifecycle # "absent"
      BY <1>3, <1>4, <1>5, <2>2 DEF LifecycleStatusOf
    <2>3. CASE ~m.canonical /\ m.lifecycle = "absent"
      BY <1>3, <1>4, <1>5, <2>3 DEF LifecycleStatusOf, filled
    <2> QED
      BY <2>1, <2>2, <2>3
  <1> QED
    BY <1>3, <1>4, <1>6 DEF v, isArchivedMemory

\* A merge into a row in use keeps all that rows in use say.
LEMMA MergeKeepsKnown ==
    ASSUME IInv, NEW p \in Stored(rec), ~isArchivedMemory(rec[p]), NEW D,
           rec' = MergeDuplicates(rec, p, D), text' = mergeContent(p, D)
    PROVE  Known(rec, text) \subseteq Known(rec', text')
  <1>0. /\ rec \in Table /\ Sound(rec) /\ DOMAIN text = Ids /\ p \in Ids
        /\ rec[p] \in Record /\ Consistent(rec[p].meta)
    BY Rows DEF IInv, TypeOK
  <1> DEFINE kept == {text[d] : d \in D \cap Stored(rec)}
             used(t) == {j \in Stored(t) : ~isArchivedMemory(t[j])}
  <1>1. text' = [text EXCEPT ![p] = text[p] \cup UNION kept]
    BY DEF mergeContent
  <1>2. /\ text'[p] = text[p] \cup UNION kept
        /\ \A j \in Ids \ {p} : text'[j] = text[j]
    BY <1>0, <1>1
  <1>3. rec'[p] = [rec[p] EXCEPT !.meta = Validate(rec[p].meta)]
    BY <1>0 DEF MergeDuplicates
  <1>4. rec'[p] \in Record
    BY <1>0, <1>3, ValidateFacts DEF Record
  <1>5. p \in used(rec')
    BY <1>0, <1>3, <1>4, ValidatedStaysActive, RecordAssumption DEF Stored
  <1>6. ASSUME NEW j \in used(rec), NEW f \in text[j]
        PROVE  \E k \in used(rec') : f \in text'[k]
    <2>1. j \in Ids /\ rec[j] # None
      BY DEF Stored
    <2>2. CASE j = p \/ j \in D
      <3>1. f \in text'[p]
        BY <1>2, <1>6, <2>1, <2>2 DEF Stored
      <3> QED
        BY <1>5, <3>1
    <2>3. CASE j # p /\ j \notin D
      <3>1. rec'[j] = rec[j] /\ text'[j] = text[j]
        BY <1>2, <2>1, <2>3 DEF MergeDuplicates
      <3>2. j \in used(rec')
        BY <2>1, <3>1 DEF Stored
      <3> QED
        BY <3>1, <3>2
    <2> QED
      BY <2>2, <2>3
  <1> HIDE DEF used
  <1>7. /\ Known(rec, text) = UNION {text[j] : j \in used(rec)}
        /\ Known(rec', text') = UNION {text'[j] : j \in used(rec')}
    BY DEF Known, used
  <1> QED
    BY <1>6, <1>7


\* Only the step that deals with an action takes it out of the plan.
LEMMA OnlyDealing ==
    ASSUME IInv, [Next]_vars, NEW r \in Runners, Running(r, "apply"),
           NEW a \in run[r].plan, run'[r].plan = run[r].plan \ {a}
    PROVE  RunApplies(r, a) \/ UNCHANGED memVars
  <1>0. DOMAIN run = Runners /\ run[r] \in Stage /\ run'[r].plan # run[r].plan
    BY DEF IInv, TypeOK, Stage
  <1>1. ASSUME NEW o \in Runners, Run(o) PROVE RunApplies(r, a) \/ UNCHANGED memVars
    <2>1. ASSUME NEW b \in run[o].plan, RunApplies(o, b)
          PROVE  RunApplies(r, a) \/ UNCHANGED memVars
      <3>1. o = r
        BY <2>1 DEF RunApplies, Running, Busy, IInv, OneRun
      <3>2. run'[r].plan = run[r].plan \ {b}
        BY <1>0, <2>1, <3>1 DEF RunApplies, Stage
      <3>3. b = a
        BY <2>1, <3>1, <3>2
      <3> QED
        BY <2>1, <3>1, <3>3
    <2> QED
      BY <1>1, <2>1 DEF Run, RunBegins, RunLocks, RunSaves, RunEnds,
         reconcileInboxPage, RunScans, RunSkips, RunFileFails, RunFiles
  <1>2. ASSUME \/ \E i \in Ids, s \in Seeds : Store(i, s)
               \/ \E i \in Stored(rec) : Requested(i) \/ Age(i)
               \/ PatchPublishes \/ \E p \in Policies : PatchSaves(p)
               \/ \E q \in Resolvers : Resolve(q)
               \/ \E n \in Items : DeferInboxItem(n)
               \/ UNCHANGED vars
        PROVE  UNCHANGED run
    BY <1>2 DEF Store, Requested, Request, Edit, Write, VerifyEntry, Age,
         PatchPublishes, PatchSaves, Resolve, ResolveReads, ResolveExecutes,
         ResolveSuppresses, ResolveDeletes, ResolveFails, ResolveCloses,
         DeferInboxItem, vars
  <1> QED
    BY <1>0, <1>1, <1>2 DEF Next

\* A merge a run makes by itself loses nothing that rows in use say, also when
\* a text has changed since the scanners compared them: mergeContent takes the
\* texts as they are, and validation leaves the primary in use.
THEOREM MergeKeepsFactsHolds == Spec => MergeKeepsFacts
  <1> DEFINE Kept(r, a) ==
        /\ a.kind = "merge_duplicates" /\ run'[r].plan = run[r].plan \ {a}
        /\ Running(r, "apply") /\ rec[a.lead] # None
        /\ ~isArchivedMemory(rec[a.lead])
        => Known(rec, text) \subseteq Known(rec', text')
  <1>1. ASSUME IInv, [Next]_vars, NEW r \in Runners, NEW a \in run[r].plan,
               a.kind = "merge_duplicates", run'[r].plan = run[r].plan \ {a},
               Running(r, "apply"), rec[a.lead] # None, ~isArchivedMemory(rec[a.lead])
        PROVE  Known(rec, text) \subseteq Known(rec', text')
    <2>1. CASE UNCHANGED memVars
      BY <2>1 DEF memVars
    <2>2. CASE applyAction(a)
      <3>1. MergeInto(a.lead, a.rest) /\ a.lead \in Stored(rec)
        BY <1>1, <2>2, PlanFacts DEF applyAction, Stored
      <3> QED
        BY <1>1, <2>1, <3>1, MergeKeepsKnown DEF MergeInto
    <2> QED
      BY <1>1, <2>1, <2>2, OnlyDealing DEF RunApplies
  <1>2. IInv /\ [Next]_vars => \A r \in Runners : \A a \in run[r].plan : Kept(r, a)
    BY <1>1
  <1> QED
    BY <1>2, InitSound, Invariance, PTL DEF Spec, MergeKeepsFacts


-----------------------------------------------------------------------------
(* StewardInbox implements ReviewInbox.                                    *)

Outcome == [n \in Items |-> IF inbox[n] = None THEN "none" ELSE inbox[n].state]

\* closeItem is one closing of a pending item, with what the step may close it
\* with, or nothing.
LEMMA CloseRefines ==
    ASSUME IInv, NEW n \in Items,
           NEW s \in Verbs \cup {"suppress", "deferred", "obsolete"},
           closeItem(n, s), UNCHANGED done,
           s \in Verbs => <<n, s>> \in done
    PROVE  Inbox!Next \/ UNCHANGED Inbox!vars
  <1>0. inbox \in [Items -> {None} \cup Item]
    BY DEF IInv, TypeOK
  <1>1. CASE UNCHANGED inbox
    BY <1>1 DEF Inbox!vars
  <1>2. CASE Pending(n) /\ inbox' = [inbox EXCEPT ![n].state = s]
    <2> DEFINE x == [inbox[n] EXCEPT !.state = s]
    <2>1. inbox[n] \in Item /\ inbox[n] # None /\ inbox[n].state = "pending"
      BY <1>0, <1>2 DEF Pending
    <2>2. x \in Item /\ x.state = s
      BY <2>1 DEF Item
    <2>3. inbox' = [inbox EXCEPT ![n] = x] /\ x # None
      BY <1>2, <2>2, StewardAssumption
    <2> HIDE DEF x
    <2>4. \A m \in Items : inbox'[m] = IF m = n THEN x ELSE inbox[m]
      BY <1>0, <2>3
    <2>5. Outcome' = [Outcome EXCEPT ![n] = s]
      <3> DEFINE said(y) == IF y = None THEN "none" ELSE y.state
      <3>1. /\ Outcome = [m \in Items |-> said(inbox[m])]
            /\ Outcome' = [m \in Items |-> said(inbox'[m])]
        BY DEF Outcome
      <3>2. said(x) = s
        BY <2>2, <2>3
      <3> HIDE DEF said
      <3> QED
        BY <2>4, <3>1, <3>2
    <2>6. Outcome[n] = "pending"
      BY <2>1 DEF Outcome
    <2>7. s \in {"deferred", "obsolete", "suppress"} \/ (s \in Verbs /\ <<n, s>> \in done)
      OBVIOUS
    <2>8. Inbox!Close(n, s)
      BY <2>5, <2>6, <2>7 DEF Inbox!Close, Outcome
    <2> QED
      BY <2>8 DEF Inbox!Next
  <1> QED
    BY <1>1, <1>2 DEF closeItem

LEMMA FileRefines ==
    ASSUME IInv, NEW r \in Runners, NEW a \in run[r].plan, NEW n \in Items,
           RunFiles(r, a, n)
    PROVE  Inbox!Next
  <1> DEFINE x == [kind |-> actionToInboxKind(a.kind), lead |-> a.lead,
                   rest |-> a.rest, state |-> "pending"]
  <1>1. inbox' = [inbox EXCEPT ![n] = x] /\ inbox[n] = None /\ UNCHANGED done
    BY DEF RunFiles
  <1>2. inbox \in [Items -> {None} \cup Item] /\ x.state = "pending"
    BY DEF IInv, TypeOK
  <1> HIDE DEF x
  <1>3. \A m \in Items : inbox'[m] = IF m = n THEN x ELSE inbox[m]
    BY <1>1, <1>2
  <1>4. ItemsKept
    BY FileKeeps
  <1>5. inbox'[n] # None
    <2>1. x.state = "pending" /\ inbox'[n] = x
      BY <1>2, <1>3
    <2>2. a \in Action
      BY PlanFacts
    <2>3. actionToInboxKind(a.kind) \in {"duplicate_candidate",
            "contradiction_candidate", "stale_entry", "promotion_candidate"}
      BY <2>2 DEF Action, actionToInboxKind
    <2>4. x \in Item
      BY <2>2, <2>3 DEF x, Item, Action
    <2> QED
      BY <2>1, <2>4, StewardAssumption
  <1>6. Outcome' = [Outcome EXCEPT ![n] = "pending"] /\ Outcome[n] = "none"
    BY <1>1, <1>2, <1>3, <1>5 DEF Outcome
  <1>7. Inbox!File(n)
    BY <1>1, <1>6 DEF Inbox!File, Outcome
  <1> QED
    BY <1>7 DEF Inbox!Next

\* A verb carried out on an item that is there.
LEMMA CarryRefines ==
    ASSUME IInv, NEW q \in Resolvers, res[q] # None, UNCHANGED inbox,
           NEW v \in Verbs, done' = done \cup {<<res[q].item, v>>}
    PROVE  Inbox!Next
  <1>1. res[q].item \in Items /\ inbox[res[q].item] \in Item /\ inbox[res[q].item] # None
    BY ItemFacts DEF IInv, Resolving
  <1>2. Outcome[res[q].item] # "none" /\ Outcome' = Outcome
    BY <1>1 DEF Outcome, Item, Verbs
  <1>3. Inbox!CarryOut(res[q].item, v)
    BY <1>2 DEF Inbox!CarryOut, Outcome
  <1> QED
    BY <1>1, <1>3 DEF Inbox!Next

\* The inbox of the steward implements the promise of ReviewInbox: an item has
\* one outcome and keeps it, and one that is closed with a verb is one whose
\* verb has been carried out (ResolveInbox, reconcileInbox, DeferInboxItem).
THEOREM ImplementsInboxHolds == Spec => ImplementsInbox
  <1>1. Init => Inbox!Init
    BY DEF Init, Inbox!Init
  <1>2. IInv /\ [Next]_vars => [Inbox!Next]_(Inbox!vars)
    <2> SUFFICES ASSUME IInv, [Next]_vars PROVE Inbox!Next \/ UNCHANGED Inbox!vars
      OBVIOUS
    <2>1. CASE UNCHANGED <<inbox, done>>
      BY <2>1 DEF Inbox!vars
    <2>2. ASSUME NEW r \in Runners, Run(r)
          PROVE  Inbox!Next \/ UNCHANGED Inbox!vars
      <3>1. \/ UNCHANGED <<inbox, done>>
            \/ \E n \in run[r].listed : reconcileInboxPage(r, n)
            \/ \E a \in run[r].plan, n \in Items : RunFiles(r, a, n)
        BY <2>2 DEF Run, RunBegins, RunLocks, RunSaves, RunEnds, RunScans,
             RunSkips, RunFileFails, RunApplies
      <3>2. ASSUME NEW n \in run[r].listed, reconcileInboxPage(r, n)
            PROVE  Inbox!Next \/ UNCHANGED Inbox!vars
        <4>1. n \in Items /\ closeItem(n, "obsolete") /\ UNCHANGED done
          BY <3>2 DEF reconcileInboxPage, IInv, TypeOK
        <4>2. "obsolete" \notin Verbs
          BY DEF Verbs
        <4> QED
          BY <4>1, <4>2, CloseRefines
      <3> QED
        BY <2>1, <3>1, <3>2, FileRefines
    <2>3. ASSUME NEW q \in Resolvers, Resolve(q)
          PROVE  Inbox!Next \/ UNCHANGED Inbox!vars
      <3>1. ASSUME ResolveCloses(q) PROVE Inbox!Next \/ UNCHANGED Inbox!vars
        <4>1. Ready(res[q], done) /\ res[q].pc = "close"
          BY <3>1, ResolversReady DEF ResolveCloses
        <4>2. /\ closeItem(res[q].item, res[q].verb) /\ UNCHANGED done
              /\ res[q].item \in Items /\ res[q].verb \in Verbs \cup {"suppress"}
          BY <3>1, <4>1 DEF ResolveCloses, Ready, Resolution
        <4>3. res[q].verb \in Verbs => <<res[q].item, res[q].verb>> \in done
          BY <4>1 DEF Ready, Verbs
        <4> QED
          BY <4>2, <4>3, CloseRefines
      <3>2. ASSUME ResolveExecutes(q) PROVE Inbox!Next
        <4>1. res[q] # None /\ res[q].verb \in Verbs
          BY <3>2, ItemFacts DEF ResolveExecutes
        <4> QED
          BY <3>2, <4>1, CarryRefines DEF ResolveExecutes
      <3>3. ASSUME NEW i \in Ids, ResolveDeletes(q, i)
            PROVE  Inbox!Next \/ UNCHANGED Inbox!vars
        <4>1. /\ res[q] # None /\ UNCHANGED inbox /\ "delete" \in Verbs
              /\ done' = done \/ done' = done \cup {<<res[q].item, "delete">>}
          BY <3>3 DEF ResolveDeletes, Verbs
        <4> QED
          BY <2>1, <4>1, CarryRefines
      <3>4. \/ UNCHANGED <<inbox, done>> \/ ResolveCloses(q) \/ ResolveExecutes(q)
            \/ \E i \in Ids : ResolveDeletes(q, i)
        BY <2>3 DEF Resolve, ResolveReads, ResolveSuppresses, ResolveFails
      <3> QED
        BY <2>1, <3>1, <3>2, <3>3, <3>4
    <2>4. ASSUME NEW n \in Items, DeferInboxItem(n)
          PROVE  Inbox!Next \/ UNCHANGED Inbox!vars
      <3>1. closeItem(n, "deferred") /\ UNCHANGED done /\ "deferred" \notin Verbs
        BY <2>4 DEF DeferInboxItem, Verbs
      <3> QED
        BY <3>1, CloseRefines
    <2>5. ASSUME \/ \E i \in Ids, s \in Seeds : Store(i, s)
                 \/ \E i \in Stored(rec) : Requested(i) \/ Age(i)
                 \/ PatchPublishes \/ \E p \in Policies : PatchSaves(p)
                 \/ UNCHANGED vars
          PROVE  UNCHANGED <<inbox, done>>
      BY <2>5 DEF Store, Requested, Request, Edit, Write, VerifyEntry, Age,
           PatchPublishes, PatchSaves, vars
    <2> QED
      BY <2>1, <2>2, <2>3, <2>4, <2>5 DEF Next
  <1> QED
    BY <1>1, <1>2, InitSound, Invariance, PTL
    DEF Spec, ImplementsInbox, Inbox!Spec
=============================================================================
