----------------------- MODULE KnowledgeRecordProofs -----------------------
(***************************************************************************)
(* What the lifecycle operations do to one record, for every record and    *)
(* every set of ids: the metadata stays of one mind about being canonical, *)
(* nothing becomes canonical without a trusted provenance, and nothing     *)
(* leaves the archive but to become canonical.                             *)
(***************************************************************************)
EXTENDS KnowledgeRecord, TLAPS

\* What Validate leaves behind: lifecycle_status and the flag agree.
Consistent(m) == m.canonical <=> m.lifecycle = "canonical"

\* q is what an operation may make of r.
Lifecycle(r, q) ==
    /\ Consistent(q.meta)
    /\ q.meta.canonical => \/ q.meta.trusted
                           \/ r.meta.canonical /\ (r.meta.trusted => q.meta.trusted)
    /\ r.meta.archived => q.meta.archived \/ q.meta.canonical

\* Every row has been through Validate.
Sound(t) == \A i \in Stored(t) : Consistent(t[i].meta)

\* u is what an operation may make of the table t: no new rows.
TableStep(t, u) ==
    /\ u \in Table /\ Stored(u) \subseteq Stored(t)
    /\ \A i \in Stored(u) : Lifecycle(t[i], u[i])

-----------------------------------------------------------------------------
(* Metadata.                                                               *)

\* No status a caller can give stands for canonical.
LEMMA StatusIsNotCanonical ==
    ASSUME NEW s \in Statuses \cup {"absent"}
    PROVE  /\ normalizeLifecycleStatus(s) \in Lifecycles \cup {"absent"}
           /\ normalizeLifecycleStatus(s) # "canonical"
  BY DEF normalizeLifecycleStatus, Statuses, Lifecycles

\* Validate agrees with itself, and adds or takes no trust of its own.
LEMMA ValidateFacts ==
    ASSUME NEW x \in Meta
    PROVE  /\ Validate(x) \in Meta /\ Consistent(Validate(x))
           /\ (Validate(x).canonical <=> x.canonical \/ x.lifecycle = "canonical")
           /\ (Validate(x).trusted <=> x.trusted)
           /\ (Validate(x).archived <=> x.archived)
           /\ Validate(x).refs = x.refs /\ Validate(x).next = x.next
  <1> DEFINE lc == IF x.canonical THEN "canonical"
                   ELSE IF x.lifecycle # "absent" THEN x.lifecycle
                   ELSE normalizeLifecycleStatus(x.status)
  <1>1. x.status \in Statuses \cup {"absent"} /\ x.lifecycle \in Lifecycles \cup {"absent"}
    BY DEF Meta
  <1>2. lc \in Lifecycles \cup {"absent"}
    BY <1>1, StatusIsNotCanonical DEF Lifecycles
  <1>3. lc = "canonical" <=> x.canonical \/ x.lifecycle = "canonical"
    BY <1>1, StatusIsNotCanonical DEF Meta
  <1>4. Validate(x) = [x EXCEPT !.lifecycle = lc,
                                !.canonical = (lc = "canonical")]
    BY DEF Validate
  <1> HIDE DEF lc
  <1> QED
    BY <1>2, <1>3, <1>4 DEF Meta, Consistent

\* A record counts as canonical exactly when its flag is set.
LEMMA CanonicalIsFlag ==
    ASSUME NEW r \in Record, Consistent(r.meta)
    PROVE  IsCanonicalMemory(r) <=> r.meta.canonical
  <1>1. r.meta.status \in Statuses \cup {"absent"}
    BY DEF Record, Meta
  <1> QED
    BY <1>1, StatusIsNotCanonical
    DEF Consistent, IsCanonicalMemory, LifecycleStatusOf

-----------------------------------------------------------------------------
(* Records.                                                                *)

\* A record a caller stores is not canonical, whatever status it claims.
LEMMA NewRecordFacts ==
    ASSUME NEW type \in Types, NEW b \in BOOLEAN,
           NEW s \in Statuses \cup {"absent"}, NEW a \in Ids \cup {None}
    PROVE  LET q == NewRecord(type, b, s, a) IN
           q \in Record /\ Consistent(q.meta) /\ ~q.meta.canonical
  <1> DEFINE x == [canonical |-> FALSE, archived |-> FALSE,
                   lifecycle |-> "absent", status |-> s, trusted |-> FALSE,
                   refs |-> 0, avoided |-> a, next |-> None]
  <1>1. x \in Meta
    BY DEF Meta
  <1>2. ~x.canonical /\ x.lifecycle = "absent"
    OBVIOUS
  <1>3. NewRecord(type, b, s, a) =
          [type |-> type, important |-> b, meta |-> Validate(x),
           layer |-> 0, supersededBy |-> None, replaces |-> None]
    BY DEF NewRecord
  <1> HIDE DEF x
  <1> QED
    <2>1. /\ Validate(x) \in Meta /\ Consistent(Validate(x))
          /\ ~Validate(x).canonical
      BY <1>1, <1>2, ValidateFacts
    <2>2. 0 \in Layers
      BY DEF Layers
    <2> QED
      BY <1>3, <2>1, <2>2 DEF Record

\* One step below covers every operation that validates an edited copy.
LEMMA Revalidated ==
    ASSUME NEW r \in Record, Consistent(r.meta), NEW x \in Meta, NEW q \in Record,
           q.meta = Validate(x),
           x.canonical => r.meta.canonical,
           x.lifecycle \in {r.meta.lifecycle, "absent"},
           r.meta.trusted => x.trusted,
           r.meta.archived => x.archived
    PROVE  Lifecycle(r, q)
  BY ValidateFacts DEF Lifecycle, Consistent

\* A status edit neither gives trust nor takes a record out of the archive.
LEMMA WithStatusFacts ==
    ASSUME NEW r \in Record, Consistent(r.meta), NEW s \in Statuses \cup {"absent"}
    PROVE  WithStatus(r, s) \in Record /\ Lifecycle(r, WithStatus(r, s))
  <1>0. r.meta \in Meta
    BY DEF Record
  <1> DEFINE x == [r.meta EXCEPT !.status = s]
  <1>1. /\ x \in Meta /\ (x.canonical <=> r.meta.canonical)
        /\ x.lifecycle = r.meta.lifecycle /\ (x.trusted <=> r.meta.trusted)
        /\ (x.archived <=> r.meta.archived)
    BY <1>0 DEF Meta
  <1>2. WithStatus(r, s) = [r EXCEPT !.meta = Validate(x)]
    BY DEF WithStatus
  <1> HIDE DEF x
  <1>3. WithStatus(r, s) \in Record /\ WithStatus(r, s).meta = Validate(x)
    BY <1>1, <1>2, ValidateFacts DEF Record
  <1> QED
    BY <1>1, <1>3, Revalidated

\* Removing keys: nothing becomes canonical by it, and the archive flag goes
\* only with its key.
LEMMA ClearedFacts ==
    ASSUME NEW r \in Record, Consistent(r.meta), NEW K \in SUBSET Keys
    PROVE  /\ Cleared(r, K) \in Record /\ Consistent(Cleared(r, K).meta)
           /\ Cleared(r, K).meta.canonical => r.meta.canonical
           /\ r.meta.archived /\ "archived" \notin K => Cleared(r, K).meta.archived
  <1> DEFINE canon == r.meta.canonical /\ "canonical" \notin K
             arch == r.meta.archived /\ "archived" \notin K
             life == IF "lifecycle_status" \in K THEN "absent"
                     ELSE r.meta.lifecycle
             stat == IF "status" \in K THEN "absent" ELSE r.meta.status
             trust == r.meta.trusted /\ "provenance" \notin K
             x == [r.meta EXCEPT !.canonical = canon, !.archived = arch,
                                 !.lifecycle = life, !.status = stat,
                                 !.trusted = trust]
  <1>0. r.meta \in Meta
    BY DEF Record
  <1>1. /\ canon \in BOOLEAN /\ arch \in BOOLEAN /\ trust \in BOOLEAN
        /\ life \in Lifecycles \cup {"absent"}
        /\ stat \in Statuses \cup {"absent"}
        /\ life \in {r.meta.lifecycle, "absent"}
        /\ (canon => r.meta.canonical)
        /\ (r.meta.archived /\ "archived" \notin K => arch)
    BY <1>0 DEF Meta
  <1>2. Cleared(r, K) = [r EXCEPT !.meta = Validate(x)]
    BY DEF Cleared
  <1> HIDE DEF canon, arch, life, stat, trust
  <1>3. x \in Meta /\ x.canonical = canon /\ x.lifecycle = life
        /\ x.archived = arch
    BY <1>0, <1>1 DEF Meta
  <1> HIDE DEF x
  <1>4. /\ Cleared(r, K) \in Record /\ Cleared(r, K).meta = Validate(x)
    BY <1>2, <1>3, ValidateFacts DEF Record
  <1>5. Validate(x).canonical => canon \/ life = "canonical"
    BY <1>3, ValidateFacts
  <1>6. Consistent(Validate(x)) /\ (Validate(x).archived <=> arch)
    BY <1>3, ValidateFacts
  <1> QED
    BY <1>1, <1>4, <1>5, <1>6 DEF Consistent

\* MarkOutdated leaves a canonical record canonical and archives any other.
LEMMA RetiredFacts ==
    ASSUME NEW r \in Record, Consistent(r.meta), NEW s \in Ids \cup {None}
    PROVE  Retired(r, s) \in Record /\ Lifecycle(r, Retired(r, s))
  <1>0. r.meta \in Meta
    BY DEF Record
  <1> DEFINE x == [r.meta EXCEPT
                     !.status = IF s = None THEN "outdated" ELSE "superseded",
                     !.next = IF s = None THEN r.meta.next ELSE s,
                     !.archived = TRUE]
  <1>1. /\ x \in Meta /\ (x.canonical <=> r.meta.canonical)
        /\ x.lifecycle = r.meta.lifecycle /\ (x.trusted <=> r.meta.trusted)
        /\ x.archived
    BY <1>0 DEF Meta, Statuses
  <1>2. Retired(r, s) = [r EXCEPT !.important = FALSE, !.meta = Validate(x),
                           !.supersededBy = IF s = None THEN @ ELSE s]
    BY DEF Retired
  <1> HIDE DEF x
  <1>3. Retired(r, s) \in Record /\ Retired(r, s).meta = Validate(x)
    BY <1>1, <1>2, ValidateFacts DEF Record
  <1> QED
    BY <1>1, <1>3, Revalidated

\* Becoming the successor of a record changes nothing but a count and a link.
LEMMA SuccessorFacts ==
    ASSUME NEW r \in Record, Consistent(r.meta), NEW i \in Ids
    PROVE  Successor(r, i) \in Record /\ Lifecycle(r, Successor(r, i))
  <1>0. r.meta \in Meta
    BY DEF Record
  <1> DEFINE x == [r.meta EXCEPT !.refs = r.meta.refs + 1]
  <1>1. /\ x \in Meta /\ (x.canonical <=> r.meta.canonical)
        /\ x.lifecycle = r.meta.lifecycle /\ (x.trusted <=> r.meta.trusted)
        /\ (x.archived <=> r.meta.archived)
    BY <1>0 DEF Meta
  <1>2. Successor(r, i) = [r EXCEPT !.meta = Validate(x), !.replaces = i]
    BY DEF Successor
  <1> HIDE DEF x
  <1>3. Successor(r, i) \in Record /\ Successor(r, i).meta = Validate(x)
    BY <1>1, <1>2, ValidateFacts DEF Record
  <1> QED
    BY <1>1, <1>3, Revalidated

\* A merged duplicate is archived and keeps what trust it had.
LEMMA MergedFacts ==
    ASSUME NEW r \in Record, Consistent(r.meta), NEW p \in Ids
    PROVE  Merged(r, p) \in Record /\ Lifecycle(r, Merged(r, p))
  <1>0. r.meta \in Meta
    BY DEF Record
  <1> DEFINE x == [r.meta EXCEPT !.status = "merged", !.next = p,
                                 !.archived = TRUE]
  <1>1. /\ x \in Meta /\ (x.canonical <=> r.meta.canonical)
        /\ x.lifecycle = r.meta.lifecycle /\ (x.trusted <=> r.meta.trusted)
        /\ x.archived
    BY <1>0 DEF Meta, Statuses
  <1>2. Merged(r, p) = [r EXCEPT !.important = FALSE, !.meta = Validate(x)]
    BY DEF Merged
  <1> HIDE DEF x
  <1>3. Merged(r, p) \in Record /\ Merged(r, p).meta = Validate(x)
    BY <1>1, <1>2, ValidateFacts DEF Record
  <1> QED
    BY <1>1, <1>3, Revalidated

\* The gate: an allowed promotion leaves a trusted provenance behind.
LEMMA PromotedFacts ==
    ASSUME NEW r \in Record, NEW v \in BOOLEAN, PromotionAllowed(r, v)
    PROVE  Promoted(r, v) \in Record /\ Lifecycle(r, Promoted(r, v))
  <1>0. r.meta \in Meta
    BY DEF Record
  <1> DEFINE x == [r.meta EXCEPT
                     !.trusted = v \/ r.meta.trusted,
                     !.status = IF r.meta.status \in {"absent", "draft"}
                                THEN "confirmed" ELSE r.meta.status,
                     !.canonical = TRUE, !.archived = FALSE]
  <1>1. x \in Meta /\ x.canonical /\ x.trusted
    BY <1>0 DEF Meta, Statuses, PromotionAllowed
  <1>2. Promoted(r, v) = [r EXCEPT !.important = TRUE, !.meta = Validate(x),
                                   !.layer = character]
    BY DEF Promoted
  <1> HIDE DEF x
  <1>3. Promoted(r, v) \in Record /\ Promoted(r, v).meta = Validate(x)
    <2>1. Validate(x) \in Meta /\ character \in Layers
      BY <1>1, ValidateFacts DEF Layers, character
    <2> QED
      BY <1>2, <2>1 DEF Record
  <1> QED
    BY <1>1, <1>3, ValidateFacts DEF Lifecycle

-----------------------------------------------------------------------------
(* Tables.                                                                 *)

\* A stored row of a sound table is a record with agreeing metadata.
LEMMA Rows ==
    ASSUME NEW t \in Table, Sound(t), NEW i \in Stored(t)
    PROVE  i \in Ids /\ t[i] \in Record /\ Consistent(t[i].meta)
  BY DEF Table, Stored, Sound

\* A row nobody touched, and one without its metadata changed.
LEMMA SameMeta ==
    ASSUME NEW r \in Record, Consistent(r.meta), NEW q \in Record,
           q.meta = r.meta
    PROVE  Lifecycle(r, q)
  BY DEF Lifecycle

\* The general case: some rows stay as they are, the others make a step of
\* their own or go.
LEMMA RowByRow ==
    ASSUME NEW t \in Table, Sound(t), NEW u, DOMAIN u = Ids,
           u = [j \in Ids |-> u[j]],
           \A j \in Ids :
              \/ u[j] = t[j] \/ u[j] = None
              \/ j \in Stored(t) /\ u[j] \in Record /\ Lifecycle(t[j], u[j])
    PROVE  TableStep(t, u)
  <1>1. ASSUME NEW j \in Ids
        PROVE  u[j] \in Record \cup {None}
    BY DEF Table
  <1>2. u \in Table
    BY <1>1 DEF Table
  <1>3. Stored(u) \subseteq Stored(t)
    BY RecordAssumption DEF Stored
  <1>4. ASSUME NEW j \in Stored(u)
        PROVE  Lifecycle(t[j], u[j])
    <2>1. j \in Ids /\ u[j] # None /\ j \in Stored(t)
      BY <1>3 DEF Stored
    <2>2. CASE u[j] = t[j]
      BY <2>1, <2>2, Rows, SameMeta
    <2> QED
      BY <2>1, <2>2
  <1> QED
    BY <1>2, <1>3, <1>4 DEF TableStep

\* One row changes.
LEMMA OneRow ==
    ASSUME NEW t \in Table, Sound(t), NEW i \in Stored(t), NEW q,
           q = None \/ (q \in Record /\ Lifecycle(t[i], q))
    PROVE  TableStep(t, [t EXCEPT ![i] = q])
  <1> DEFINE u == [t EXCEPT ![i] = q]
  <1>1. /\ DOMAIN u = Ids /\ u = [j \in Ids |-> u[j]]
        /\ \A j \in Ids : u[j] = IF j = i THEN q ELSE t[j]
    BY DEF Table
  <1> HIDE DEF u
  <1>2. TableStep(t, u)
    BY <1>1, RowByRow
  <1> QED
    BY <1>2 DEF u

\* MarkOutdated, with or without a successor, the record itself included.
LEMMA MarkOutdatedStep ==
    ASSUME NEW t \in Table, Sound(t), NEW i \in Stored(t),
           NEW s \in Ids \cup {None}
    PROVE  TableStep(t, MarkOutdated(t, i, s))
  <1>1. /\ i \in Ids /\ t[i] \in Record /\ Consistent(t[i].meta)
        /\ Retired(t[i], s) \in Record /\ Lifecycle(t[i], Retired(t[i], s))
    BY Rows, RetiredFacts
  <1>2. CASE s # None /\ t[s] # None
    <2>1. s \in Ids /\ s \in Stored(t)
      BY <1>2 DEF Stored
    <2>2. Successor(t[s], i) \in Record /\ Lifecycle(t[s], Successor(t[s], i))
      BY <1>1, <2>1, Rows, SuccessorFacts
    <2> DEFINE u == [t EXCEPT ![i] = Retired(@, s), ![s] = Successor(t[s], i)]
    <2>3. /\ DOMAIN u = Ids /\ u = [j \in Ids |-> u[j]]
          /\ \A j \in Ids : u[j] = IF j = s THEN Successor(t[s], i)
                                  ELSE IF j = i THEN Retired(t[i], s) ELSE t[j]
      BY <2>1 DEF Table
    <2>4. MarkOutdated(t, i, s) = u
      BY <1>2 DEF MarkOutdated
    <2> HIDE DEF u
    <2>5. TableStep(t, u)
      BY <1>1, <2>1, <2>2, <2>3, RowByRow
    <2> QED
      BY <2>4, <2>5
  <1>3. CASE ~(s # None /\ t[s] # None)
    <2>1. MarkOutdated(t, i, s) = [t EXCEPT ![i] = Retired(t[i], s)]
      BY <1>3 DEF MarkOutdated
    <2> QED
      BY <1>1, <2>1, OneRow
  <1> QED
    BY <1>2, <1>3

\* PromoteToCanonical rewrites at most the row it is asked for.
LEMMA PromoteStep ==
    ASSUME NEW t \in Table, Sound(t), NEW i \in Stored(t), NEW v \in BOOLEAN
    PROVE  TableStep(t, PromoteToCanonical(t, i, v))
  <1>1. CASE PromotionAllowed(t[i], v)
    <2>1. Promoted(t[i], v) \in Record /\ Lifecycle(t[i], Promoted(t[i], v))
      BY <1>1, Rows, PromotedFacts
    <2>2. PromoteToCanonical(t, i, v) = [t EXCEPT ![i] = Promoted(t[i], v)]
      BY <1>1 DEF PromoteToCanonical
    <2> QED
      BY <2>1, <2>2, OneRow
  <1>2. CASE ~PromotionAllowed(t[i], v)
    <2>1. PromoteToCanonical(t, i, v) = [t EXCEPT ![i] = t[i]]
      BY <1>2 DEF PromoteToCanonical, Table
    <2> QED
      BY <2>1, Rows, SameMeta, OneRow
  <1> QED
    BY <1>1, <1>2

\* MergeDuplicates rewrites the primary and the duplicates that are there.
LEMMA MergeStep ==
    ASSUME NEW t \in Table, Sound(t), NEW p \in Stored(t), NEW D
    PROVE  TableStep(t, MergeDuplicates(t, p, D))
  <1> DEFINE u == MergeDuplicates(t, p, D)
             q == [t[p] EXCEPT !.meta = Validate(t[p].meta)]
  <1>1. p \in Ids /\ t[p] \in Record /\ Consistent(t[p].meta)
    BY Rows
  <1>2. t[p].meta \in Meta
    BY <1>1 DEF Record
  <1>3. q \in Record /\ q.meta = Validate(t[p].meta)
    BY <1>1, <1>2, ValidateFacts DEF Record
  <1> HIDE DEF q
  <1>4. Lifecycle(t[p], q)
    BY <1>1, <1>2, <1>3, Revalidated
  <1>5. /\ DOMAIN u = Ids /\ u = [j \in Ids |-> u[j]]
        /\ \A j \in Ids : u[j] = IF j = p THEN q
                                ELSE IF j \in D \cap Stored(t) THEN Merged(t[j], p)
                                ELSE t[j]
    BY DEF MergeDuplicates, q
  <1> HIDE DEF u
  <1>6. ASSUME NEW j \in Stored(t)
        PROVE  Merged(t[j], p) \in Record /\ Lifecycle(t[j], Merged(t[j], p))
    BY <1>1, Rows, MergedFacts
  <1>7. TableStep(t, u)
    BY <1>1, <1>3, <1>4, <1>5, <1>6, RowByRow
  <1> QED
    BY <1>7 DEF u

\* Every operation on the layer alone.
LEMMA LayerStep ==
    ASSUME NEW t \in Table, Sound(t), NEW i \in Stored(t), NEW l \in Layers
    PROVE  TableStep(t, [t EXCEPT ![i].layer = l])
  <1>1. t[i] \in Record /\ Consistent(t[i].meta)
    BY Rows
  <1>2. /\ [t[i] EXCEPT !.layer = l] \in Record
        /\ [t[i] EXCEPT !.layer = l].meta = t[i].meta
    BY <1>1 DEF Record
  <1>3. [t EXCEPT ![i].layer = l] = [t EXCEPT ![i] = [t[i] EXCEPT !.layer = l]]
    OBVIOUS
  <1> QED
    BY <1>1, <1>2, <1>3, SameMeta, OneRow

\* DemoteSediment stays within the layers and leaves the metadata alone.
LEMMA DemoteStep ==
    ASSUME NEW t \in Table, Sound(t), NEW i \in Stored(t)
    PROVE  TableStep(t, DemoteSediment(t, i))
  <1> DEFINE l == IF t[i].layer = 0 THEN 0 ELSE t[i].layer - 1
  <1>1. t[i].layer \in Layers
    BY Rows DEF Record
  <1>2. l \in Layers
    BY <1>1 DEF Layers
  <1>3. DemoteSediment(t, i) = [t EXCEPT ![i].layer = l]
    BY DEF DemoteSediment
  <1> HIDE DEF l
  <1> QED
    BY <1>2, <1>3, LayerStep

\* IncrementReferencedByCount changes a counter of a row, if there is one.
LEMMA IncrementStep ==
    ASSUME NEW t \in Table, Sound(t), NEW i \in Ids
    PROVE  TableStep(t, IncrementReferencedByCount(t, i))
  <1>1. CASE t[i] = None
    <2>1. IncrementReferencedByCount(t, i) = t
      BY <1>1 DEF IncrementReferencedByCount
    <2>2. DOMAIN t = Ids /\ t = [j \in Ids |-> t[j]]
      BY DEF Table
    <2> QED
      BY <2>1, <2>2, RowByRow
  <1>2. CASE t[i] # None
    <2> DEFINE q == [t[i] EXCEPT !.meta = [t[i].meta EXCEPT !.refs = t[i].meta.refs + 1]]
    <2>1. i \in Stored(t) /\ t[i] \in Record /\ Consistent(t[i].meta)
      BY <1>2, Rows DEF Stored
    <2>2. t[i].meta \in Meta
      BY <2>1 DEF Record
    <2> DEFINE x == [t[i].meta EXCEPT !.refs = t[i].meta.refs + 1]
    <2>3. /\ x \in Meta /\ x.canonical = t[i].meta.canonical
          /\ x.lifecycle = t[i].meta.lifecycle
          /\ x.trusted = t[i].meta.trusted /\ x.archived = t[i].meta.archived
      BY <2>2 DEF Meta
    <2>4. IncrementReferencedByCount(t, i) = [t EXCEPT ![i] = q]
      BY <1>2 DEF IncrementReferencedByCount
    <2> HIDE DEF x
    <2>5. q \in Record /\ q.meta = x
      BY <2>1, <2>3 DEF Record, x
    <2> HIDE DEF q
    <2>6. Lifecycle(t[i], q)
      BY <2>1, <2>3, <2>5 DEF Lifecycle, Consistent
    <2> QED
      BY <2>1, <2>4, <2>5, <2>6, OneRow
  <1> QED
    BY <1>1, <1>2


-----------------------------------------------------------------------------
(* Links: the two columns of a supersession and the counter beside them.   *)

\* q has the type and the links of r, and no reference of it is uncounted.
SameLinks(r, q) ==
    /\ q.type = r.type
    /\ q.supersededBy = r.supersededBy /\ q.replaces = r.replaces
    /\ q.meta.refs >= r.meta.refs

\* The rows of u are rows of t, with their types and links.
KeepsLinks(t, u) ==
    \A i \in Ids : u[i] # None => t[i] # None /\ SameLinks(t[i], u[i])

\* Metadata that went through Validate keeps the count.
LEMMA ValidatedLinks ==
    ASSUME NEW r \in Record, NEW x \in Meta, x.refs = r.meta.refs
    PROVE  /\ SameLinks(r, [r EXCEPT !.meta = Validate(x)])
           /\ SameLinks(r, [r EXCEPT !.important = FALSE, !.meta = Validate(x)])
           /\ SameLinks(r, [r EXCEPT !.important = TRUE, !.meta = Validate(x),
                                     !.layer = character])
  <1>1. Validate(x).refs = r.meta.refs /\ r.meta.refs \in Nat
    BY ValidateFacts DEF Record, Meta
  <1> QED
    BY <1>1 DEF SameLinks, Record

\* Edits, removed keys, promotion and merge leave the columns alone.
LEMMA RowLinks ==
    ASSUME NEW r \in Record
    PROVE  /\ \A s \in Statuses \cup {"absent"} : SameLinks(r, WithStatus(r, s))
           /\ \A K \in SUBSET Keys : SameLinks(r, Cleared(r, K))
           /\ \A v \in BOOLEAN : SameLinks(r, Promoted(r, v))
           /\ \A p \in Ids : SameLinks(r, Merged(r, p))
           /\ SameLinks(r, [r EXCEPT !.meta = Validate(r.meta)])
           /\ \A l \in Layers : SameLinks(r, [r EXCEPT !.layer = l])
           /\ SameLinks(r, [r EXCEPT !.meta.refs = @ + 1])
  <1>1. r.meta \in Meta /\ r.meta.refs \in Nat
    BY DEF Record, Meta
  <1>2. ASSUME NEW s \in Statuses \cup {"absent"}
        PROVE  SameLinks(r, WithStatus(r, s))
    <2> DEFINE x == [r.meta EXCEPT !.status = s]
    <2>1. x \in Meta /\ x.refs = r.meta.refs
      BY <1>1 DEF Meta
    <2>2. WithStatus(r, s) = [r EXCEPT !.meta = Validate(x)]
      BY DEF WithStatus
    <2> HIDE DEF x
    <2> QED
      BY <2>1, <2>2, ValidatedLinks
  <1>3. ASSUME NEW K \in SUBSET Keys
        PROVE  SameLinks(r, Cleared(r, K))
    <2> DEFINE canon == r.meta.canonical /\ "canonical" \notin K
               arch == r.meta.archived /\ "archived" \notin K
               life == IF "lifecycle_status" \in K THEN "absent"
                       ELSE r.meta.lifecycle
               stat == IF "status" \in K THEN "absent" ELSE r.meta.status
               trust == r.meta.trusted /\ "provenance" \notin K
               x == [r.meta EXCEPT !.canonical = canon, !.archived = arch,
                                   !.lifecycle = life, !.status = stat,
                                   !.trusted = trust]
    <2>1. /\ canon \in BOOLEAN /\ arch \in BOOLEAN /\ trust \in BOOLEAN
          /\ life \in Lifecycles \cup {"absent"}
          /\ stat \in Statuses \cup {"absent"}
      BY <1>1 DEF Meta
    <2>2. Cleared(r, K) = [r EXCEPT !.meta = Validate(x)]
      BY DEF Cleared
    <2> HIDE DEF canon, arch, life, stat, trust
    <2>3. x \in Meta /\ x.refs = r.meta.refs
      BY <1>1, <2>1 DEF Meta
    <2> HIDE DEF x
    <2> QED
      BY <2>2, <2>3, ValidatedLinks
  <1>4. ASSUME NEW v \in BOOLEAN
        PROVE  SameLinks(r, Promoted(r, v))
    <2> DEFINE x == [r.meta EXCEPT
                       !.trusted = v \/ r.meta.trusted,
                       !.status = IF r.meta.status \in {"absent", "draft"}
                                  THEN "confirmed" ELSE r.meta.status,
                       !.canonical = TRUE, !.archived = FALSE]
    <2>1. x \in Meta /\ x.refs = r.meta.refs
      BY <1>1 DEF Meta, Statuses
    <2>2. Promoted(r, v) = [r EXCEPT !.important = TRUE, !.meta = Validate(x),
                                     !.layer = character]
      BY DEF Promoted
    <2> HIDE DEF x
    <2> QED
      BY <2>1, <2>2, ValidatedLinks
  <1>5. ASSUME NEW p \in Ids
        PROVE  SameLinks(r, Merged(r, p))
    <2> DEFINE x == [r.meta EXCEPT !.status = "merged", !.next = p,
                                   !.archived = TRUE]
    <2>1. x \in Meta /\ x.refs = r.meta.refs
      BY <1>1 DEF Meta, Statuses
    <2>2. Merged(r, p) = [r EXCEPT !.important = FALSE, !.meta = Validate(x)]
      BY DEF Merged
    <2> HIDE DEF x
    <2> QED
      BY <2>1, <2>2, ValidatedLinks
  <1>6. \A l \in Layers : SameLinks(r, [r EXCEPT !.layer = l])
    BY <1>1 DEF SameLinks, Record
  <1>7. SameLinks(r, [r EXCEPT !.meta.refs = @ + 1])
    <2> DEFINE x == [r.meta EXCEPT !.refs = r.meta.refs + 1]
    <2>1. x.refs = r.meta.refs + 1
      BY <1>1 DEF Meta
    <2>2. [r EXCEPT !.meta.refs = @ + 1] = [r EXCEPT !.meta = x]
      OBVIOUS
    <2> HIDE DEF x
    <2> QED
      BY <1>1, <2>1, <2>2 DEF SameLinks, Record
  <1> QED
    BY <1>1, <1>2, <1>3, <1>4, <1>5, <1>6, <1>7, ValidatedLinks

\* One row that keeps its links, or goes.
LEMMA OneRowLinks ==
    ASSUME NEW t \in Table, NEW i \in Stored(t), NEW q,
           q = None \/ SameLinks(t[i], q)
    PROVE  KeepsLinks(t, [t EXCEPT ![i] = q])
  BY DEF Table, Stored, KeepsLinks, SameLinks, Record, Meta

\* A merge keeps the links of the primary and of the duplicates.
LEMMA MergeLinks ==
    ASSUME NEW t \in Table, NEW p \in Stored(t), NEW D
    PROVE  KeepsLinks(t, MergeDuplicates(t, p, D))
  <1> SUFFICES ASSUME NEW i \in Ids, MergeDuplicates(t, p, D)[i] # None
               PROVE  t[i] # None /\ SameLinks(t[i], MergeDuplicates(t, p, D)[i])
    BY DEF KeepsLinks
  <1>1. p \in Ids /\ p \in Stored(t)
    BY DEF Stored
  <1>2. \A j \in Stored(t) : j \in Ids /\ t[j] \in Record /\ t[j] # None
    BY DEF Stored, Table
  <1>3. CASE i = p
    BY <1>1, <1>2, <1>3, RowLinks DEF MergeDuplicates
  <1>4. CASE i # p /\ i \in D \cap Stored(t)
    BY <1>1, <1>2, <1>4, RowLinks DEF MergeDuplicates
  <1>5. CASE i # p /\ i \notin D \cap Stored(t)
    <2>1. MergeDuplicates(t, p, D)[i] = t[i] /\ i \in Stored(t)
      BY <1>5 DEF MergeDuplicates, Stored
    <2> QED
      BY <1>2, <2>1 DEF SameLinks, Record, Meta
  <1> QED
    BY <1>3, <1>4, <1>5

\* What MarkOutdated does to the links of both rows.
LEMMA OutdatedLinks ==
    ASSUME NEW t \in Table, NEW i \in Stored(t), NEW s \in Ids \cup {None}
    PROVE  LET u == MarkOutdated(t, i, s) IN
           /\ \A j \in Ids : u[j] = None <=> t[j] = None
           /\ \A j \in Stored(t) :
                /\ u[j].type = t[j].type
                /\ u[j].supersededBy = IF j = i /\ s # None /\ s # i THEN s
                                       ELSE t[j].supersededBy
                /\ u[j].replaces = IF j = s THEN i ELSE t[j].replaces
                /\ u[j].meta.refs = IF j = s THEN t[j].meta.refs + 1
                                    ELSE t[j].meta.refs
  <1> DEFINE u == MarkOutdated(t, i, s)
  <1>1. \A j \in Stored(t) : j \in Ids /\ t[j] \in Record /\ t[j] # None
    BY DEF Stored, Table
  <1>2. ASSUME NEW r \in Record
        PROVE  /\ Retired(r, s) # None /\ Retired(r, s).type = r.type
               /\ Retired(r, s).supersededBy = IF s = None THEN r.supersededBy ELSE s
               /\ Retired(r, s).replaces = r.replaces
               /\ Retired(r, s).meta.refs = r.meta.refs
    <2> DEFINE x == [r.meta EXCEPT
                       !.status = IF s = None THEN "outdated" ELSE "superseded",
                       !.next = IF s = None THEN r.meta.next ELSE s,
                       !.archived = TRUE]
    <2>1. x \in Meta /\ x.refs = r.meta.refs
      BY DEF Record, Meta, Statuses
    <2>2. Retired(r, s) = [r EXCEPT !.important = FALSE, !.meta = Validate(x),
                             !.supersededBy = IF s = None THEN @ ELSE s]
      BY DEF Retired
    <2> HIDE DEF x
    <2>3. Validate(x) \in Meta /\ Validate(x).refs = r.meta.refs
      BY <2>1, ValidateFacts
    <2>4. Retired(r, s) \in Record
      BY <2>2, <2>3 DEF Record
    <2> QED
      BY <2>2, <2>3, <2>4, RecordAssumption DEF Record
  <1>3. ASSUME NEW r \in Record
        PROVE  /\ Successor(r, i) # None /\ Successor(r, i).type = r.type
               /\ Successor(r, i).supersededBy = r.supersededBy
               /\ Successor(r, i).replaces = i
               /\ Successor(r, i).meta.refs = r.meta.refs + 1
    <2> DEFINE x == [r.meta EXCEPT !.refs = r.meta.refs + 1]
    <2>1. x \in Meta /\ x.refs = r.meta.refs + 1
      BY DEF Record, Meta
    <2>2. Successor(r, i) = [r EXCEPT !.meta = Validate(x), !.replaces = i]
      BY DEF Successor
    <2> HIDE DEF x
    <2>3. Validate(x) \in Meta /\ Validate(x).refs = r.meta.refs + 1
      BY <2>1, ValidateFacts
    <2>4. Successor(r, i) \in Record
      BY <1>1, <2>2, <2>3 DEF Record
    <2> QED
      BY <2>2, <2>3, <2>4, RecordAssumption DEF Record
  <1>4. \A j \in Ids : u[j] = IF s \in Stored(t) /\ j = s THEN Successor(t[s], i)
                              ELSE IF j = i THEN Retired(t[i], s) ELSE t[j]
    BY <1>1, NoneAssumption DEF MarkOutdated, Table, Stored
  <1> HIDE DEF u
  <1>5. \A j \in Ids : u[j] = None <=> t[j] = None
    BY <1>1, <1>2, <1>3, <1>4 DEF Stored
  <1>6. ASSUME NEW j \in Stored(t)
        PROVE  /\ u[j].type = t[j].type
               /\ u[j].supersededBy = IF j = i /\ s # None /\ s # i THEN s
                                      ELSE t[j].supersededBy
               /\ u[j].replaces = IF j = s THEN i ELSE t[j].replaces
               /\ u[j].meta.refs = IF j = s THEN t[j].meta.refs + 1
                                   ELSE t[j].meta.refs
    BY <1>1, <1>2, <1>3, <1>4, NoneAssumption
  <1> QED
    BY <1>5, <1>6 DEF u
=============================================================================
