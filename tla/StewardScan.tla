---------------------------- MODULE StewardScan ----------------------------
(***************************************************************************)
(* What a steward run decides: the scanners, as functions of one reading   *)
(* of the cache and of the policy, and the test that tells a pending inbox *)
(* item from an obsolete one.                                              *)
(*                                                                         *)
(* A reading (a corpus) has the rows, their contents as sets of facts      *)
(* (containment of texts is containment of sets), their faces (what their  *)
(* title, context, entity and service say) and the records that are old:   *)
(* not verified within StaleDays and, for a working memory, not updated    *)
(* within its TTL.  Two thresholds of importance (0.6 and 0.8) are one.    *)
(***************************************************************************)
EXTENDS KnowledgeRecord

CONSTANTS
    Subjects,     \* entity, service and context, as one value
    Engineering,  \* the subjects that have an engineering entity
    Titles,       \* first ten words of a title
    Roles,        \* what the prefix of a title says: subset of AllRoles
    Facts         \* what a text may say

AllRoles == {"plain", "terminal", "lesson", "periodic", "started"}

ASSUME ScanAssumption ==
    /\ IsFiniteSet(Facts)
    /\ None \notin Subjects /\ Engineering \subseteq Subjects
    /\ Roles \subseteq AllRoles

\* subject None: entity, service and context are all empty.
Face == [subject : Subjects \cup {None}, title : Titles, role : Roles]

\* mode (off, or any that lets runs happen) and what a run may do by itself.
Policy == [mode : {"off", "manual"}, autoMerge : BOOLEAN,
           autoStale : BOOLEAN, autoDelete : BOOLEAN]

\* auto is Handling = safe_auto_apply; lead is TargetIDs[0], rest the others.
Action == [kind : {"merge_duplicates", "flag_conflict", "flag_contradiction",
                   "mark_stale", "delete_expired_working", "promote_canonical"},
           auto : BOOLEAN, lead : Ids, rest : SUBSET Ids]

Act(kind, auto, lead, rest) ==
    [kind |-> kind, auto |-> auto, lead |-> lead, rest |-> rest]

Targets(a) == {a.lead} \cup a.rest

-----------------------------------------------------------------------------
(* Readings.                                                               *)

\* archived, or superseded by its lifecycle.
isArchivedMemory(r) == LifecycleStatusOf(r) = "superseded" \/ r.meta.archived

loadActiveMemories(c) == {i \in Stored(c.rec) : ~isArchivedMemory(c.rec[i])}

Canonical(c, i) == IsCanonicalMemory(c.rec[i])

\* A title alone is too weak a key.
groupKey(c, i) ==
    IF c.face[i].subject = None THEN None
    ELSE <<c.face[i].subject, c.face[i].title>>

\* Never empty: three empty parts are joined to "||".
subjectKey(c, i) == c.face[i].subject

\* Groups of at least two active members.
groups(c) ==
    LET active == loadActiveMemories(c)
        members(k) == {i \in active : groupKey(c, i) = k}
    IN {members(groupKey(c, i)) : i \in {j \in active :
          groupKey(c, j) # None /\ Cardinality(members(groupKey(c, j))) > 1}}

-----------------------------------------------------------------------------
(* Duplicates.                                                             *)

ContentContains(c, primary, dup) == c.text[dup] \subseteq c.text[primary]

\* A member that contains all the others goes first; without one the order of
\* the list does, which is any.
containerIndex(c, G) ==
    LET containers == {p \in G : \A i \in G : ContentContains(c, p, i)}
    IN IF containers # {} THEN containers ELSE G

\* Jaccard similarity of at least a half.
JaccardSimilar(c, i, j) ==
    2 * Cardinality(c.text[i] \cap c.text[j])
      >= Cardinality(c.text[i] \cup c.text[j])

\* Mutant: a canonical member does not keep a group from merging.
shouldAutoMergeGroup_canonical(c, G, p, policy) ==
    /\ policy.autoMerge
    /\ \A i \in G : ContentContains(c, p, i) \/ JaccardSimilar(c, p, i)

shouldAutoMergeGroup(c, G, p, policy) ==
    /\ policy.autoMerge
    /\ \A i \in G : ~Canonical(c, i)
    /\ \A i \in G : ContentContains(c, p, i) \/ JaccardSimilar(c, p, i)

\* One action per group, in each order its members may be listed in.
scanDuplicates(c, G, policy) ==
    {Act("merge_duplicates", shouldAutoMergeGroup(c, G, p, policy), p, G \ {p})
       : p \in containerIndex(c, G)}

-----------------------------------------------------------------------------
(* Conflicts and contradictions: always for review.                        *)

scanConflicts(c) ==
    {Act("flag_conflict", FALSE, CHOOSE i \in G : TRUE,
         G \ {CHOOSE i \in G : TRUE}) :
       G \in {H \in groups(c) :
         \/ Cardinality({i \in H : Canonical(c, i)}) > 1
         \/ Cardinality({c.rec[i].meta.status : i \in H} \ {"absent"}) > 1}}

lifecycleInvalidationConflict(a, b) ==
    LET invalidated == {"outdated", "superseded"} IN
    (a \in invalidated) # (b \in invalidated)

\* Pairs that are kin, a time series or one task are no contradiction; an
\* explicit invalidation or link is.
hasContradictionSignals(c, i, j) ==
    LET role == {c.face[i].role, c.face[j].role}
        sameContext == subjectKey(c, i) # None
    IN /\ role # {"terminal"} /\ role # {"periodic"}
       /\ ~(role = {"terminal", "lesson"} /\ sameContext)
       /\ ~(role = {"terminal", "started"} /\ sameContext)
       /\ \/ lifecycleInvalidationConflict(LifecycleStatusOf(c.rec[i]),
                                           LifecycleStatusOf(c.rec[j]))
          \/ c.rec[i].supersededBy = j \/ c.rec[j].supersededBy = i
          \/ c.rec[i].replaces = j \/ c.rec[j].replaces = i

\* Texts that overlap stand for embeddings that are close.
scanSemanticConflicts(c) ==
    LET active == loadActiveMemories(c)
        pairs == {P \in SUBSET active : Cardinality(P) = 2}
    IN {Act("flag_contradiction", FALSE, CHOOSE i \in P : TRUE,
            P \ {CHOOSE i \in P : TRUE}) :
          P \in {Q \in pairs : \E i, j \in Q : i # j
                   /\ subjectKey(c, i) = subjectKey(c, j)
                   /\ c.text[i] \cap c.text[j] # {}
                   /\ hasContradictionSignals(c, i, j)}}

-----------------------------------------------------------------------------
(* Age, expiry, promotion.                                                 *)

\* Canonical records are important too: promotion makes them so.
scanStale(c, policy) ==
    {Act("mark_stale",
         policy.autoStale /\ ~c.rec[i].important /\ ~Canonical(c, i), i, {}) :
       i \in {j \in loadActiveMemories(c) \cap c.old :
                c.rec[j].type # "episodic"}}

\* The switch off: not even an item.
scanExpiredWorking(c, policy) ==
    {Act("delete_expired_working",
         ~c.rec[i].important /\ ~Canonical(c, i), i, {}) :
       i \in {j \in loadActiveMemories(c) \cap c.old :
                policy.autoDelete /\ c.rec[j].type = "working"}}

scanCanonicalCandidates(c) ==
    LET active == loadActiveMemories(c)
        canonicalSubjects == {subjectKey(c, i) : i \in {j \in active : Canonical(c, j)}}
    IN {Act("promote_canonical", FALSE, i, {}) :
          i \in {j \in active :
                   /\ c.rec[j].important
                   /\ subjectKey(c, j) \in Engineering \ canonicalSubjects
                   /\ LifecycleStatusOf(c.rec[j]) \in {"active", "draft"}}}

Scopes == {"full", "duplicates", "conflicts", "semantic_conflicts", "stale",
           "working_ttl", "canonical"}

\* The plans a reading can lead to: they differ in which member of a group
\* of duplicates is listed first.
RunScanners(c, policy, scope) ==
    LET merges == IF scope \in {"full", "duplicates"}
                  THEN {scanDuplicates(c, G, policy) : G \in groups(c)} ELSE {}
        others == UNION {
          IF scope \in {"full", "conflicts"} THEN scanConflicts(c) ELSE {},
          IF scope \in {"full", "semantic_conflicts"}
            THEN scanSemanticConflicts(c) ELSE {},
          IF scope \in {"full", "stale"} THEN scanStale(c, policy) ELSE {},
          IF scope \in {"full", "working_ttl"}
            THEN scanExpiredWorking(c, policy) ELSE {},
          IF scope \in {"full", "canonical"} THEN scanCanonicalCandidates(c) ELSE {}}
    IN {others \cup S : S \in {T \in SUBSET UNION merges :
                                 \A M \in merges : Cardinality(M \cap T) = 1}}

-----------------------------------------------------------------------------
(* The inbox's view of a plan.                                             *)

actionToInboxKind(kind) ==
    CASE kind = "merge_duplicates" -> "duplicate_candidate"
      [] kind \in {"flag_conflict", "flag_contradiction"} -> "contradiction_candidate"
      [] kind \in {"mark_stale", "delete_expired_working"} -> "stale_entry"
      [] kind = "promote_canonical" -> "promotion_candidate"

targetGoneIn(t, i) ==
    t[i] = None \/ LifecycleStatusOf(t[i]) \in {"superseded", "outdated"}

\* Mutant: one target that is gone makes an item obsolete.
reconcileReason_any(item, t) ==
    \E i \in Targets(item) : targetGoneIn(t, i)

\* Why an item needs no review any more.
reconcileReason(item, t) ==
    LET live == {i \in Targets(item) : ~targetGoneIn(t, i)} IN
    \/ live = {}
    \/ item.kind = "duplicate_candidate" /\ Cardinality(live) < 2
    \/ /\ item.kind = "stale_entry"
       /\ \A i \in Targets(item) : t[i] # None /\ t[i].type = "episodic"
=============================================================================
