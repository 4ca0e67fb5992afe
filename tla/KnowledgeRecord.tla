-------------------------- MODULE KnowledgeRecord --------------------------
(***************************************************************************)
(* One memory record as the lifecycle operations of memory.Store see it,   *)
(* and those operations as functions of the whole table: each runs under   *)
(* writeMu from its Get to its commit, so a step of the modules that use   *)
(* them is one operation (MemoryStore shows that no other writer of the    *)
(* daemon comes in between).                                               *)
(*                                                                         *)
(* meta is the metadata JSON of the row; the other fields are columns.     *)
(* canonical=true and knowledge_layer=canonical are one flag: the code     *)
(* sets them together and a caller may set neither (CheckCallerMetadata).  *)
(* A missing key is "absent".  next is metadata superseded_by, which       *)
(* MergeDuplicates writes without the column of that name.  important is   *)
(* importance >= the threshold of the archive sweep.                       *)
(***************************************************************************)
EXTENDS Integers, FiniteSets

CONSTANTS Ids, None

ASSUME NoneAssumption == None \notin Ids

ASSUME IdsAssumption == IsFiniteSet(Ids)

Types == {"working", "episodic", "procedural", "semantic"}

Statuses == {"draft", "confirmed", "outdated", "superseded", "merged"}

Lifecycles == {"draft", "active", "outdated", "superseded", "canonical"}

\* surface, episodic, semantic, character
Layers == 0..3

character == 3

Meta == [canonical : BOOLEAN, archived : BOOLEAN,
         lifecycle : Lifecycles \cup {"absent"}, status : Statuses \cup {"absent"},
         trusted : BOOLEAN, refs : Nat, avoided : Ids \cup {None},
         next : Ids \cup {None}]

Record == [type : Types, important : BOOLEAN, meta : Meta, layer : Layers,
           supersededBy : Ids \cup {None}, replaces : Ids \cup {None}]

Table == [Ids -> Record \cup {None}]

ASSUME RecordAssumption == None \notin Record

Stored(t) == {i \in Ids : t[i] # None}

-----------------------------------------------------------------------------
(* Lifecycle resolution.                                                   *)

normalizeLifecycleStatus(s) ==
    CASE s = "draft" -> "draft"
      [] s = "confirmed" -> "active"
      [] s = "outdated" -> "outdated"
      [] s \in {"superseded", "merged"} -> "superseded"
      [] OTHER -> "absent"

\* normalizeEngineeringMetadata, run by every Validate: the canonical flag
\* wins, an explicit lifecycle_status is kept, and an empty one is filled
\* from status, once.
Validate(m) ==
    LET lc == IF m.canonical THEN "canonical"
              ELSE IF m.lifecycle # "absent" THEN m.lifecycle
              ELSE normalizeLifecycleStatus(m.status)
    IN [m EXCEPT !.lifecycle = lc, !.canonical = (lc = "canonical")]

\* The same function on review_required: a "false" is not stored.
normalizeReviewRequired(v) == IF v = "true" THEN "true" ELSE "absent"

\* The first source that says something wins.
LifecycleStatusOf(r) ==
    IF r.meta.canonical THEN "canonical"
    ELSE IF r.meta.lifecycle # "absent" THEN r.meta.lifecycle
    ELSE IF r.meta.archived THEN "superseded"
    ELSE IF normalizeLifecycleStatus(r.meta.status) # "absent"
    THEN normalizeLifecycleStatus(r.meta.status)
    ELSE IF r.type = "working" THEN "draft" ELSE "active"

IsCanonicalMemory(r) == LifecycleStatusOf(r) = "canonical"

-----------------------------------------------------------------------------
(* The operations.                                                         *)

\* What a caller can store: no trust of its own, any status.
NewRecord(type, important, status, avoided) ==
    [type |-> type, important |-> important,
     meta |-> Validate([canonical |-> FALSE, archived |-> FALSE,
                        lifecycle |-> "absent", status |-> status,
                        trusted |-> FALSE, refs |-> 0,
                        avoided |-> avoided, next |-> None]),
     layer |-> 0, supersededBy |-> None, replaces |-> None]

\* Update with a status in its metadata.
WithStatus(r, s) == [r EXCEPT !.meta = Validate([@ EXCEPT !.status = s])]

Keys == {"canonical", "archived", "lifecycle_status", "status", "provenance"}

\* Update with empty values in its metadata, which remove the keys; nothing
\* keeps a caller from removing those only the server sets.
Cleared(r, K) ==
    LET m == r.meta IN
    [r EXCEPT !.meta = Validate([m EXCEPT
        !.canonical = m.canonical /\ "canonical" \notin K,
        !.archived = m.archived /\ "archived" \notin K,
        !.lifecycle = IF "lifecycle_status" \in K THEN "absent" ELSE m.lifecycle,
        !.status = IF "status" \in K THEN "absent" ELSE m.status,
        !.trusted = m.trusted /\ "provenance" \notin K])]

Retired(r, s) ==
    LET m == r.meta IN
    [r EXCEPT !.important = FALSE,
              !.meta = Validate([m EXCEPT
                  !.status = IF s = None THEN "outdated" ELSE "superseded",
                  !.next = IF s = None THEN m.next ELSE s,
                  !.archived = TRUE]),
              !.supersededBy = IF s = None THEN @ ELSE s]

Successor(r, i) ==
    [r EXCEPT !.meta = Validate([@ EXCEPT !.refs = r.meta.refs + 1]),
              !.replaces = i]

\* Mutant: the pair is not one transaction, and its second half is lost.
MarkOutdated_firstOnly(t, i, s) == [t EXCEPT ![i] = Retired(@, s)]

\* Mutant: the same with the other half.
MarkOutdated_secondOnly(t, i, s) ==
    IF s # None /\ t[s] # None THEN [t EXCEPT ![s] = Successor(@, i)]
    ELSE [t EXCEPT ![i] = Retired(@, s)]

\* Both rows in one transaction; the successor is written last, over the
\* retired row when the two ids are the same.
MarkOutdated(t, i, s) ==
    IF s # None /\ t[s] # None
    THEN [t EXCEPT ![i] = Retired(@, s), ![s] = Successor(t[s], i)]
    ELSE [t EXCEPT ![i] = Retired(@, s)]

\* Mutant: a confirmed status is taken for a verification.
PromotionAllowed_confirmed(r, verified) ==
    verified \/ r.meta.trusted \/ r.meta.status = "confirmed"

PromotionAllowed(r, verified) == verified \/ r.meta.trusted

Promoted(r, verified) ==
    LET m == r.meta IN
    [r EXCEPT !.important = TRUE,
              !.meta = Validate([m EXCEPT
                  !.trusted = verified \/ m.trusted,
                  !.status = IF m.status \in {"absent", "draft"} THEN "confirmed"
                             ELSE m.status,
                  !.canonical = TRUE,
                  !.archived = FALSE]),
              !.layer = character]

\* Refused without verification unless the row read under writeMu is trusted.
PromoteToCanonical(t, i, verified) ==
    IF PromotionAllowed(t[i], verified)
    THEN [t EXCEPT ![i] = Promoted(@, verified)] ELSE t

Merged(r, p) ==
    [r EXCEPT !.important = FALSE,
              !.meta = Validate([@ EXCEPT !.status = "merged", !.next = p,
                                          !.archived = TRUE])]

\* Mutant: a merge takes the primary out of the archive.
MergeDuplicates_revives(t, p, D) ==
    [i \in Ids |-> IF i = p
                   THEN [t[p] EXCEPT !.meta = Validate([@ EXCEPT !.archived = FALSE])]
                   ELSE IF i \in D \cap Stored(t) THEN Merged(t[i], p)
                   ELSE t[i]]

\* Ids that are gone are skipped; the columns of the duplicates stay.
MergeDuplicates(t, p, D) ==
    [i \in Ids |-> IF i = p THEN [t[p] EXCEPT !.meta = Validate(@)]
                   ELSE IF i \in D \cap Stored(t) THEN Merged(t[i], p)
                   ELSE t[i]]

\* No Validate and no expected layer: the target is written over any layer.
PromoteSediment(t, i, layer) == [t EXCEPT ![i].layer = layer]

\* Mutant: demotion without a floor.
DemoteSediment_noFloor(t, i) == [t EXCEPT ![i].layer = @ - 1]

DemoteSediment(t, i) == [t EXCEPT ![i].layer = IF @ = 0 THEN 0 ELSE @ - 1]

\* A reader of metadata that is no row's: the target may be gone.
IncrementReferencedByCount(t, i) ==
    IF t[i] = None THEN t ELSE [t EXCEPT ![i].meta.refs = @ + 1]

\* Rows that refer to i, by either edge.
Tally(t, i) == Cardinality({j \in Stored(t) : t[j].meta.avoided = i})
             + Cardinality({j \in Stored(t) : t[j].supersededBy = i})
=============================================================================
