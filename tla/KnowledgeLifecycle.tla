------------------------ MODULE KnowledgeLifecycle ------------------------
(***************************************************************************)
(* The lifecycle of memory records under concurrent requests: status       *)
(* edits, MarkOutdated with and without a successor, PromoteToCanonical,   *)
(* MergeDuplicates, the sediment tools, Delete, decisions that count a     *)
(* reference in a second call, sediment cycles that work from a snapshot   *)
(* (the scheduler's and the tool's may overlap), and RecountReferences,    *)
(* which reads without writeMu and writes whole metadata under it.         *)
(*                                                                         *)
(* Ages and access counters are free: any record may be past the           *)
(* thresholds of the sediment policy.                                      *)
(***************************************************************************)
EXTENDS KnowledgeRecord

CONSTANTS
    Cycles,        \* runs of RunSedimentCycle that may overlap
    Recounts,      \* runs of RecountReferences that may overlap
    Requests,      \* store_decision calls between Store and Increment
    NewTypes,      \* types and
    NewStatuses,   \* statuses callers give a new record
    Kinds,         \* operations admitted: subset of AllKinds
    RefsThreshold, \* SemanticToCharacterRefs
    MaxOps         \* bound on operations begun

AllKinds == {"edit", "clear", "delete", "mark", "promote", "merge", "layer",
             "decision", "cycle", "recount"}

ASSUME LifecycleAssumption ==
    /\ NewTypes \subseteq Types /\ NewStatuses \subseteq Statuses \cup {"absent"}
    /\ Kinds \subseteq AllKinds
    /\ RefsThreshold \in Nat \ {0} /\ MaxOps \in Nat

VARIABLES
    rec,      \* the memories table
    used,     \* ids ever drawn
    reviews,  \* sediment review items of each target, by review_required
    cycle,    \* "idle", "listed" or "run", per cycle
    plan,     \* layer a cycle's snapshot proposes for each record, or None
    pending,  \* targets a cycle takes to have a review item already
    recount,  \* metadata a recount is going to write, None elsewhere; or None
    count,    \* dead end a decision has stored and not yet counted
    ops       \* counter for MaxOps

vars == <<rec, used, reviews, cycle, plan, pending, recount, count, ops>>

cycleVars == <<reviews, cycle, plan, pending>>

Flags == {"true", "false", "absent"}

NoPlan == [i \in Ids |-> None]

Init ==
    /\ rec = [i \in Ids |-> None] /\ used = {}
    /\ reviews = [i \in Ids |-> [f \in Flags |-> 0]]
    /\ cycle = [c \in Cycles |-> "idle"]
    /\ plan = [c \in Cycles |-> NoPlan]
    /\ pending = [c \in Cycles |-> {}]
    /\ recount = [k \in Recounts |-> None]
    /\ count = [r \in Requests |-> None]
    /\ ops = 0

Op(kind) == kind \in Kinds /\ ops < MaxOps /\ ops' = ops + 1

-----------------------------------------------------------------------------
(* Requests.                                                               *)

Store(i, type, status) ==
    /\ ops < MaxOps /\ ops' = ops + 1
    /\ i \notin used
    /\ used' = used \cup {i}
    /\ rec' = [rec EXCEPT ![i] = NewRecord(type, FALSE, status, None)]
    /\ UNCHANGED <<cycleVars, recount, count>>

\* store_decision with avoided_dead_end_id: the row first, its reference in
\* a call of its own.
StoreDecision(r, i, avoided) ==
    /\ Op("decision") /\ count[r] = None
    /\ i \notin used
    /\ used' = used \cup {i}
    /\ rec' = [rec EXCEPT ![i] =
                 NewRecord("semantic", TRUE, "confirmed", avoided)]
    /\ count' = [count EXCEPT ![r] = avoided]
    /\ UNCHANGED <<cycleVars, recount>>

CountReference(r) ==
    /\ count[r] # None
    /\ rec' = IncrementReferencedByCount(rec, count[r])
    /\ count' = [count EXCEPT ![r] = None]
    /\ UNCHANGED <<used, cycleVars, recount, ops>>

\* One request on the rows there are; every one of them is a single
\* critical section of writeMu.
Request(kind, table) ==
    /\ Op(kind)
    /\ rec' = table
    /\ UNCHANGED <<used, cycleVars, recount, count>>

Edit(i, s) == Request("edit", [rec EXCEPT ![i] = WithStatus(@, s)])

Clear(i, K) == Request("clear", [rec EXCEPT ![i] = Cleared(@, K)])

Delete(i) == Request("delete", [rec EXCEPT ![i] = None])

Outdate(i, s) == Request("mark", MarkOutdated(rec, i, s))

Promote(i, verified) == Request("promote", PromoteToCanonical(rec, i, verified))

Merge(p, D) ==
    /\ D \cap Stored(rec) # {}
    /\ Request("merge", MergeDuplicates(rec, p, D))

SetLayer(i, layer) == Request("layer", PromoteSediment(rec, i, layer))

Demote(i) == Request("layer", DemoteSediment(rec, i))

-----------------------------------------------------------------------------
(* The sediment cycle.                                                     *)

\* The layer proposed for r, None for no transition.  ripe: past the age and
\* access thresholds, which the semantic layer does not have.
Decide(r, ripe) ==
    CASE r.layer = 0 /\ ripe -> 1
      [] r.layer = 1 /\ ripe -> 2
      [] r.layer = 2 /\ (IsCanonicalMemory(r) \/ r.meta.refs >= RefsThreshold)
           -> 3
      [] r.layer = 3 /\ ripe -> 2
      [] OTHER -> None

\* ListLightweight: a snapshot, decided on record by record; seen are the
\* records that SinceDays and Limit leave.
CycleList(c) ==
    /\ cycle[c] = "idle" /\ Op("cycle")
    /\ \E seen \in SUBSET Stored(rec) : \E ripe \in SUBSET seen :
         plan' = [plan EXCEPT ![c] =
                    [i \in Ids |-> IF i \in seen THEN Decide(rec[i], i \in ripe)
                                   ELSE None]]
    /\ cycle' = [cycle EXCEPT ![c] = "listed"]
    /\ UNCHANGED <<rec, used, reviews, pending, recount, count>>

\* Mutant: the cycle starts with an empty set.
loadPendingSedimentReviews_empty(c) ==
    /\ cycle[c] = "listed"
    /\ pending' = [pending EXCEPT ![c] = {}]
    /\ cycle' = [cycle EXCEPT ![c] = "run"]
    /\ UNCHANGED <<rec, used, reviews, plan, recount, count, ops>>

\* The targets of the items not resolved: review_required is not "false".
loadPendingSedimentReviews(c) ==
    /\ cycle[c] = "listed"
    /\ pending' = [pending EXCEPT ![c] =
         {i \in Ids : \E f \in Flags \ {"false"} : reviews[i][f] > 0}]
    /\ cycle' = [cycle EXCEPT ![c] = "run"]
    /\ UNCHANGED <<rec, used, reviews, plan, recount, count, ops>>

\* surface to episodic is applied at once, to whatever the record has become.
CyclePromotes(c, i) ==
    /\ cycle[c] = "run" /\ plan[c][i] = 1
    /\ rec' = IF rec[i] = None THEN rec ELSE PromoteSediment(rec, i, 1)
    /\ plan' = [plan EXCEPT ![c][i] = None]
    /\ UNCHANGED <<used, reviews, cycle, pending, recount, count, ops>>

\* Any other transition becomes a review item, unless the set has one.
createSedimentReviewItem(c, i) ==
    /\ cycle[c] = "run" /\ plan[c][i] \in {2, 3}
    /\ reviews' = IF i \in pending[c] THEN reviews
                  ELSE [reviews EXCEPT ![i][normalizeReviewRequired("true")] = @ + 1]
    /\ pending' = [pending EXCEPT ![c] = @ \cup {i}]
    /\ plan' = [plan EXCEPT ![c][i] = None]
    /\ UNCHANGED <<rec, used, cycle, recount, count, ops>>

CycleEnds(c) ==
    /\ cycle[c] = "run" /\ plan[c] = NoPlan
    /\ cycle' = [cycle EXCEPT ![c] = "idle"]
    /\ pending' = [pending EXCEPT ![c] = {}]
    /\ UNCHANGED <<rec, used, reviews, plan, recount, count, ops>>

\* resolveReviewItemInStore: Update with review_required = "false".
ResolveReview(i) ==
    /\ reviews[i]["true"] > 0
    /\ reviews' = [reviews EXCEPT ![i]["true"] = @ - 1,
                                  ![i][normalizeReviewRequired("false")] = @ + 1]
    /\ UNCHANGED <<rec, used, cycle, plan, pending, recount, count, ops>>

\* delete_memory on a review item.
DeleteReview(i, f) ==
    /\ reviews[i][f] > 0
    /\ reviews' = [reviews EXCEPT ![i][f] = @ - 1]
    /\ UNCHANGED <<rec, used, cycle, plan, pending, recount, count, ops>>

-----------------------------------------------------------------------------
(* RecountReferences.                                                      *)

\* Phases 1 and 2, without writeMu: the rows whose counter is not the tally,
\* with the metadata they had.
RecountScan(k) ==
    /\ recount[k] = None /\ Op("recount")
    /\ LET stale == {i \in Stored(rec) : rec[i].meta.refs # Tally(rec, i)} IN
         recount' = [recount EXCEPT ![k] =
           IF stale = {} THEN None
           ELSE [i \in Ids |-> IF i \in stale
                   THEN [rec[i].meta EXCEPT !.refs = Tally(rec, i)]
                   ELSE None]]
    /\ UNCHANGED <<rec, used, cycleVars, count>>

\* Phase 3, under writeMu: UPDATE ... SET metadata of each of them.
RecountWrite(k) ==
    /\ recount[k] # None
    /\ rec' = [i \in Ids |-> IF rec[i] = None \/ recount[k][i] = None
                 THEN rec[i] ELSE [rec[i] EXCEPT !.meta = recount[k][i]]]
    /\ recount' = [recount EXCEPT ![k] = None]
    /\ UNCHANGED <<used, cycleVars, count, ops>>

-----------------------------------------------------------------------------
Requested(i) ==
    \/ \E s \in NewStatuses : Edit(i, s)
    \/ \E K \in SUBSET Keys : Clear(i, K)
    \/ Delete(i)
    \/ \E s \in used \cup {None} : Outdate(i, s)
    \/ \E verified \in BOOLEAN : Promote(i, verified)
    \/ \E D \in SUBSET (used \ {i}) : Merge(i, D)
    \/ \E layer \in Layers : SetLayer(i, layer)
    \/ Demote(i)

Cycle(c) == \/ CycleList(c) \/ loadPendingSedimentReviews(c) \/ CycleEnds(c)
            \/ \E i \in Ids : CyclePromotes(c, i) \/ createSedimentReviewItem(c, i)

Next == \/ \E i \in Ids, type \in NewTypes, s \in NewStatuses : Store(i, type, s)
        \/ \E r \in Requests, i \in Ids, j \in used : StoreDecision(r, i, j)
        \/ \E r \in Requests : CountReference(r)
        \/ \E i \in Stored(rec) : Requested(i)
        \/ \E c \in Cycles : Cycle(c)
        \/ \E i \in Ids : ResolveReview(i) \/ \E f \in Flags : DeleteReview(i, f)
        \/ \E k \in Recounts : RecountScan(k) \/ RecountWrite(k)

Spec == Init /\ [][Next]_vars

-----------------------------------------------------------------------------
(* Properties.                                                             *)

TypeOK ==
    /\ rec \in Table
    /\ used \subseteq Ids /\ Stored(rec) \subseteq used
    /\ reviews \in [Ids -> [Flags -> Nat]]
    /\ cycle \in [Cycles -> {"idle", "listed", "run"}]
    /\ plan \in [Cycles -> [Ids -> {1, 2, 3, None}]]
    /\ pending \in [Cycles -> SUBSET Ids]
    /\ recount \in [Recounts -> [Ids -> Meta \cup {None}] \cup {None}]
    /\ count \in [Requests -> Ids \cup {None}]
    /\ ops \in Nat

\* A recount that was computed from older rows puts their metadata back.
WritesBack == \E k \in Recounts : RecountWrite(k)

\* The promotion gate: no request and no cycle makes a record canonical
\* without a provenance that is trusted, whatever callers set, remove, merge
\* or retire before; only a recount can restore what was canonical once.
PromotionIsVerified ==
    [][~WritesBack =>
         \A i \in Stored(rec) :
           ~IsCanonicalMemory(rec[i]) /\ rec'[i] # None
             /\ IsCanonicalMemory(rec'[i])
             => rec'[i].meta.trusted]_vars

\* As long as no caller removes a provenance, no canonical record is without
\* one: not through a stale cycle or a recount either.
CanonicalIsTrusted ==
    \A i \in Stored(rec) : IsCanonicalMemory(rec[i]) => rec[i].meta.trusted

\* A caller takes the archive flag out of a record's metadata.
Unarchives == \E i \in Stored(rec), K \in SUBSET Keys :
                  "archived" \in K /\ Clear(i, K)

\* A retired record is only taken out of the archive by a promotion, by a
\* caller who removes the flag, or by a recount that had read it before.
RetirementIsKept ==
    [][~WritesBack /\ ~Unarchives =>
         \A i \in Stored(rec) :
           rec[i].meta.archived /\ rec'[i] # None
             => rec'[i].meta.archived \/ rec'[i].meta.canonical]_vars

\* The reference counter counts at least every supersession there is: the
\* link and its count are committed together.
RefsCoverLinks ==
    \A i \in Stored(rec) :
        rec[i].meta.refs
          >= Cardinality({j \in Stored(rec) \ {i} : rec[j].supersededBy = i})

\* No half-written pair: what a record replaces is marked as superseded.
ReplacedIsSuperseded ==
    \A i \in Stored(rec) :
        LET j == rec[i].replaces IN
        j \in Stored(rec) \ {i} => rec[j].supersededBy # None

\* A cycle proposes a target once, and not while its proposal is open.
OneReviewPerTarget == \A i \in Ids : reviews[i]["true"] <= 1
=============================================================================
