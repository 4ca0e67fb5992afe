------------------------- MODULE ArchiveSweepProofs -------------------------
(***************************************************************************)
(* Proofs about ArchiveSweep, for every set of memories and sweeps, every  *)
(* caller, request and fault, and every bound.                             *)
(***************************************************************************)
EXTENDS ArchiveSweep, KnowledgeRecordProofs, TLAPS

\* The types a sweep lists.
Listed == {"working", "procedural"}

\* Every row has been through Validate and is of a type the sweep lists.
RowsOK == Sound(rec) /\ \A i \in Stored(rec) : rec[i].type \in Listed

\* A sweep that has listed nothing has decided nothing, and what it takes for
\* queued is queued.
PlanOK == \A s \in Sweeps :
    /\ at[s] \in {"idle", "working"} => plan[s] = NoPlan
    /\ \A i \in known[s] : reviews[i] > 0

IInv == TypeOK /\ RowsOK /\ PlanOK /\ Stored(rec) \subseteq used

-----------------------------------------------------------------------------
(* Steps on the table.                                                     *)

\* A request changes the table as its operation does, and nothing else but
\* the ghosts.
LEMMA RequestStep ==
    ASSUME rec \in Table, Sound(rec), used \subseteq Ids, NEW i \in Stored(rec),
           Requested(i)
    PROVE  /\ rec' \in Table /\ Sound(rec') /\ Stored(rec') \subseteq Stored(rec)
           /\ \A j \in Stored(rec') : rec'[j].type = rec[j].type
           /\ \A j \in Stored(rec') : rec'[j].meta.canonical =>
                rec[j].meta.canonical \/ rec'[j].meta.trusted
           /\ UNCHANGED <<used, kept, reviews, sweepVars>> /\ Touched(None)
           /\ ops' = ops + 1
  <1>1. \A j \in Stored(rec) : j \in Ids /\ rec[j] \in Record /\ rec[j] # None
                               /\ Consistent(rec[j].meta)
    BY Rows DEF Stored
  <1>2. UNCHANGED <<used, kept, reviews, sweepVars>> /\ Touched(None)
        /\ ops' = ops + 1
    BY DEF Requested, Request, Bounded
  <1>3. ASSUME TableStep(rec, rec'), KeepsLinks(rec, rec')
        PROVE  /\ rec' \in Table /\ Sound(rec') /\ Stored(rec') \subseteq Stored(rec)
               /\ \A j \in Stored(rec') : rec'[j].type = rec[j].type
               /\ \A j \in Stored(rec') : rec'[j].meta.canonical =>
                    rec[j].meta.canonical \/ rec'[j].meta.trusted
    BY <1>3 DEF TableStep, Sound, Lifecycle, KeepsLinks, SameLinks, Stored
  <1>4. CASE \E s \in NewStatuses :
               Request("edit", [rec EXCEPT ![i] = WithStatus(@, s)])
    <2>1. PICK s \in Statuses \cup {"absent"} :
            rec' = [rec EXCEPT ![i] = WithStatus(rec[i], s)]
      BY <1>4, SweepAssumption DEF Request
    <2>2. TableStep(rec, rec')
      BY <1>1, <2>1, WithStatusFacts, OneRow
    <2>3. KeepsLinks(rec, rec')
      BY <1>1, <2>1, RowLinks, OneRowLinks
    <2> QED
      BY <1>2, <1>3, <2>2, <2>3
  <1>5. CASE \E K \in SUBSET Keys :
               Request("clear", [rec EXCEPT ![i] = Cleared(@, K)])
    <2>1. PICK K \in SUBSET Keys : rec' = [rec EXCEPT ![i] = Cleared(rec[i], K)]
      BY <1>5 DEF Request
    <2>2. Cleared(rec[i], K) \in Record /\ Consistent(Cleared(rec[i], K).meta)
      BY <1>1, ClearedFacts
    <2>3. rec' \in Table /\ Sound(rec')
      BY <1>1, <2>1, <2>2 DEF Table, Sound, Stored
    <2>4. KeepsLinks(rec, rec')
      BY <1>1, <2>1, RowLinks, OneRowLinks
    <2>5. \A j \in Stored(rec') : rec'[j].meta.canonical => rec[j].meta.canonical
      <3>1. Cleared(rec[i], K).meta.canonical => rec[i].meta.canonical
        BY <1>1, ClearedFacts
      <3> QED
        BY <1>1, <2>1, <3>1 DEF Table, Stored
    <2> QED
      BY <1>2, <2>3, <2>4, <2>5 DEF KeepsLinks, SameLinks, Stored
  <1>6. CASE Request("delete", [rec EXCEPT ![i] = None])
    <2>1. rec' = [rec EXCEPT ![i] = None]
      BY <1>6 DEF Request
    <2>2. TableStep(rec, rec') /\ KeepsLinks(rec, rec')
      BY <2>1, OneRow, OneRowLinks
    <2> QED
      BY <1>2, <1>3, <2>2
  <1>7. CASE \E s \in {None} \cup used : Request("mark", MarkOutdated(rec, i, s))
    <2>1. PICK s \in Ids \cup {None} : rec' = MarkOutdated(rec, i, s)
      BY <1>7 DEF Request
    <2>2. TableStep(rec, rec')
      BY <2>1, MarkOutdatedStep
    <2>3. /\ \A j \in Ids : rec'[j] = None <=> rec[j] = None
          /\ \A j \in Stored(rec) : rec'[j].type = rec[j].type
      BY <2>1, OutdatedLinks
    <2> QED
      BY <1>2, <2>2, <2>3 DEF TableStep, Sound, Lifecycle, Stored
  <1>8. CASE \E v \in BOOLEAN : Request("promote", PromoteToCanonical(rec, i, v))
    <2>1. PICK v \in BOOLEAN : rec' = PromoteToCanonical(rec, i, v)
      BY <1>8 DEF Request
    <2>2. TableStep(rec, rec')
      BY <2>1, PromoteStep
    <2>3. KeepsLinks(rec, rec')
      <3>1. CASE PromotionAllowed(rec[i], v)
        <4>1. rec' = [rec EXCEPT ![i] = Promoted(rec[i], v)]
          BY <2>1, <3>1 DEF PromoteToCanonical
        <4> QED
          BY <1>1, <4>1, RowLinks, OneRowLinks
      <3>2. CASE ~PromotionAllowed(rec[i], v)
        BY <1>1, <2>1, <3>2 DEF PromoteToCanonical, KeepsLinks, SameLinks,
                                Stored, Record, Meta
      <3> QED
        BY <3>1, <3>2
    <2> QED
      BY <1>2, <1>3, <2>2, <2>3
  <1>9. CASE \E d \in Stored(rec) \ {i} :
               Request("merge", MergeDuplicates(rec, i, {d}))
    <2>1. PICK d \in Stored(rec) : rec' = MergeDuplicates(rec, i, {d})
      BY <1>9 DEF Request
    <2>2. TableStep(rec, rec') /\ KeepsLinks(rec, rec')
      BY <2>1, MergeStep, MergeLinks
    <2> QED
      BY <1>2, <1>3, <2>2
  <1> QED
    BY <1>4, <1>5, <1>6, <1>7, <1>8, <1>9 DEF Requested

\* The two writes of a sweep, on a memory that is still there: retired is
\* archived, an allowed promotion canonical, and no other row is touched.
LEMMA SweepRow ==
    ASSUME rec \in Table, Sound(rec), NEW i \in Stored(rec)
    PROVE  /\ LET u == MarkOutdated(rec, i, None) IN
              /\ u \in Table /\ Sound(u) /\ Stored(u) = Stored(rec)
              /\ u[i].type = rec[i].type /\ u[i].meta.archived
              /\ \A j \in Ids \ {i} : u[j] = rec[j]
           /\ LET u == PromoteToCanonical(rec, i, FALSE) IN
              /\ u \in Table /\ Sound(u) /\ Stored(u) = Stored(rec)
              /\ u[i].type = rec[i].type
              /\ PromotionAllowed(rec[i], FALSE) => IsCanonicalMemory(u[i])
              /\ \A j \in Ids \ {i} : u[j] = rec[j]
  <1>1. i \in Ids /\ rec[i] \in Record /\ Consistent(rec[i].meta) /\ rec[i] # None
    BY Rows DEF Stored
  <1>2. rec[i].meta \in Meta
    BY <1>1 DEF Record
  <1>3. LET u == MarkOutdated(rec, i, None) IN
        /\ u \in Table /\ Sound(u) /\ Stored(u) = Stored(rec)
        /\ u[i].type = rec[i].type /\ u[i].meta.archived
        /\ \A j \in Ids \ {i} : u[j] = rec[j]
    <2> DEFINE x == [rec[i].meta EXCEPT !.status = "outdated", !.archived = TRUE]
               q == Retired(rec[i], None)
    <2>1. x \in Meta /\ x.archived
      BY <1>2 DEF Meta, Statuses
    <2>2. q = [rec[i] EXCEPT !.important = FALSE, !.meta = Validate(x)]
      <3>1. [rec[i].meta EXCEPT !.status = "outdated", !.next = rec[i].meta.next,
                                !.archived = TRUE] = x
        BY <1>2 DEF Meta
      <3> HIDE DEF x
      <3>2. q = [rec[i] EXCEPT !.important = FALSE, !.meta = Validate(x),
                               !.supersededBy = rec[i].supersededBy]
        BY <3>1 DEF Retired
      <3> QED
        BY <1>1, <3>2 DEF Record
    <2> HIDE DEF x
    <2>3. Validate(x) \in Meta /\ Validate(x).archived
      BY <2>1, ValidateFacts
    <2>4. q \in Record /\ q.type = rec[i].type /\ q.meta.archived
      BY <1>1, <2>2, <2>3 DEF Record
    <2>5. MarkOutdated(rec, i, None) = [rec EXCEPT ![i] = q]
      BY DEF MarkOutdated
    <2>6. TableStep(rec, MarkOutdated(rec, i, None))
      BY MarkOutdatedStep
    <2> HIDE DEF q
    <2>7. q # None
      BY <2>4, RecordAssumption
    <2> QED
      BY <1>1, <2>4, <2>5, <2>6, <2>7
      DEF TableStep, Lifecycle, Sound, Stored, Table
  <1>4. CASE PromotionAllowed(rec[i], FALSE)
    <2> DEFINE q == Promoted(rec[i], FALSE)
    <2>1. q \in Record /\ Lifecycle(rec[i], q) /\ SameLinks(rec[i], q)
      BY <1>1, <1>4, PromotedFacts, RowLinks
    <2>2. PromoteToCanonical(rec, i, FALSE) = [rec EXCEPT ![i] = q]
      BY <1>4 DEF PromoteToCanonical
    <2>3. q.meta.canonical
      <3> DEFINE x == [rec[i].meta EXCEPT
                         !.trusted = FALSE \/ rec[i].meta.trusted,
                         !.status = IF rec[i].meta.status \in {"absent", "draft"}
                                    THEN "confirmed" ELSE rec[i].meta.status,
                         !.canonical = TRUE, !.archived = FALSE]
      <3>1. x \in Meta /\ x.canonical
        BY <1>2 DEF Meta, Statuses
      <3>2. q = [rec[i] EXCEPT !.important = TRUE, !.meta = Validate(x),
                               !.layer = character]
        BY DEF Promoted
      <3> HIDE DEF x
      <3>3. q.meta = Validate(x)
        BY <1>1, <3>2 DEF Record
      <3> QED
        BY <3>1, <3>3, ValidateFacts
    <2> HIDE DEF q
    <2>4. q # None /\ Consistent(q.meta) /\ IsCanonicalMemory(q)
      BY <2>1, <2>3, RecordAssumption
      DEF Lifecycle, IsCanonicalMemory, LifecycleStatusOf
    <2> QED
      BY <1>1, <1>3, <2>1, <2>2, <2>4 DEF Sound, Stored, Table, SameLinks
  <1>5. CASE ~PromotionAllowed(rec[i], FALSE)
    BY <1>3, <1>5 DEF PromoteToCanonical
  <1> QED
    BY <1>3, <1>4, <1>5


-----------------------------------------------------------------------------
(* The inductive invariant.                                                *)

LEMMA Initially == Init => IInv
  <1> SUFFICES ASSUME Init PROVE IInv
    OBVIOUS
  <1>1. TypeOK
    BY SweepAssumption DEF Init, TypeOK, Table, NoPlan, ArchiveSweepConfig
  <1> QED
    BY <1>1 DEF Init, IInv, RowsOK, PlanOK, Sound, Stored, NoPlan

\* A decision is one of the four, and a promotion only of what the gate lets
\* through; what an ordinary sweep passes over is kept or retired already.
LEMMA Decided ==
    ASSUME NEW r, NEW i, NEW c \in ArchiveSweepConfig
    PROVE  /\ decide(r, i, c) \in {"outdated", "promote", "candidate", None}
           /\ decide(r, i, c) = "promote" => PromotionAllowed(r, FALSE)
           /\ decide(r, i, c) = None /\ c # "skip" =>
                i \in kept \/ LifecycleStatusOf(r) = "outdated"
  BY SweepAssumption DEF decide, ArchiveSweepConfig

\* What the two listings leave in the plan.
LEMMA Listing ==
    ASSUME TypeOK, NEW s \in Sweeps, NEW type
    PROVE  Decisions(s, type) \in
             [Ids -> {"outdated", "promote", "candidate", None}]
  <1>1. config[s] \in ArchiveSweepConfig /\ plan[s] \in
             [Ids -> {"outdated", "promote", "candidate", None}]
    BY DEF TypeOK
  <1> QED
    BY <1>1, Decided DEF Decisions

\* How a sweep's writes leave the table: the type invariant's part of them.
LEMMA SweepWrite ==
    ASSUME TypeOK, RowsOK, NEW s \in Sweeps, NEW i \in Ids, NEW d, Applies(s, i, d),
           \/ SweepWrites(s, i, MarkOutdated(rec, i, None))
           \/ SweepWrites(s, i, PromoteToCanonical(rec, i, FALSE))
    PROVE  /\ rec' \in Table /\ Sound(rec') /\ Stored(rec') = Stored(rec)
           /\ \A j \in Stored(rec) : rec'[j].type = rec[j].type
           /\ \A j \in Ids \ {i} : rec'[j] = rec[j]
  <1>1. CASE rec[i] = None
    BY <1>1 DEF SweepWrites, TypeOK, RowsOK
  <1>2. CASE rec[i] # None
    <2>1. i \in Stored(rec)
      BY <1>2 DEF Stored
    <2>2. rec \in Table /\ Sound(rec) /\ Stored(rec) \subseteq Ids
      BY DEF TypeOK, RowsOK, Stored
    <2>3. CASE rec' = MarkOutdated(rec, i, None)
      BY <2>1, <2>2, <2>3, SweepRow
    <2>4. CASE rec' = PromoteToCanonical(rec, i, FALSE)
      BY <2>1, <2>2, <2>4, SweepRow
    <2> QED
      BY <1>2, <2>3, <2>4 DEF SweepWrites
  <1> QED
    BY <1>1, <1>2

\* The steps of a sweep, whoever called it.
LEMMA SweepCases ==
    ASSUME NEW s \in Sweeps, Sweep(s)
    PROVE  \/ \E who : \E C \in SUBSET ArchiveSweepConfig : SweepBegins(s, who, C)
           \/ ListWorking(s) \/ ListProcedural(s)
           \/ \E i \in Ids : \/ SweepOutdates(s, i) \/ SweepPromotes(s, i)
                             \/ createPromotionCandidate(s, i) \/ ApplyFails(s, i)
           \/ SweepEnds(s) \/ SweepCancelled(s)
  <1>1. /\ {"auto"} \in SUBSET ArchiveSweepConfig
        /\ buildSweepConfigFromArgs \in SUBSET ArchiveSweepConfig
        /\ buildSweepConfig \in SUBSET ArchiveSweepConfig
    BY DEF buildSweepConfigFromArgs, buildSweepConfig, ArchiveSweepConfig
  <1>2. ASSUME runArchiveSweepOnce(s) \/ SweepByTool(s) \/ SweepByCommand(s)
        PROVE  \E who : \E C \in SUBSET ArchiveSweepConfig : SweepBegins(s, who, C)
    BY <1>1, <1>2 DEF runArchiveSweepOnce, SweepByTool, SweepByCommand
  <1> QED
    BY <1>2 DEF Sweep

LEMMA NextKeeps == IInv /\ [Next]_vars => IInv'
  <1> SUFFICES ASSUME IInv, [Next]_vars PROVE IInv'
    OBVIOUS
  <1> USE DEF IInv
  <1>0. /\ rec \in Table /\ Sound(rec) /\ used \subseteq Ids
        /\ plan \in [Sweeps -> [Ids -> {"outdated", "promote", "candidate", None}]]
        /\ reviews \in [Ids -> Nat] /\ known \in [Sweeps -> SUBSET Ids]
        /\ ops \in Nat /\ calm \in [Sweeps -> BOOLEAN]
    BY DEF TypeOK, RowsOK
  <1>1. CASE UNCHANGED vars
    BY <1>1 DEF vars, sweepVars, callVars, TypeOK, RowsOK, PlanOK, Sound, Stored
  <1>2. ASSUME NEW i \in Ids, NEW type \in {"working", "procedural"},
               NEW important \in BOOLEAN, NEW status \in NewStatuses,
               NEW keep \in BOOLEAN, Store(i, type, important, status, keep)
        PROVE  IInv'
    <2> DEFINE q == NewRecord(type, important, status, None)
    <2>1. q \in Record /\ Consistent(q.meta)
      BY SweepAssumption, NewRecordFacts DEF Types
    <2>2. q.type = type
      BY DEF NewRecord
    <2>3. rec' = [rec EXCEPT ![i] = q]
      BY <1>2 DEF Store
    <2> HIDE DEF q
    <2>4. rec' \in Table /\ Sound(rec') /\ Stored(rec') \subseteq Stored(rec) \cup {i}
      BY <1>0, <2>1, <2>3 DEF Table, Sound, Stored
    <2>5. \A j \in Stored(rec') : rec'[j].type \in Listed
      BY <1>0, <2>2, <2>3 DEF RowsOK, Listed, Stored, Table
    <2>6. /\ used' = used \cup {i} /\ kept' \subseteq kept \cup {i}
          /\ ops' = ops + 1 /\ Touched(None)
          /\ UNCHANGED <<reviews, at, config, dies, plan, known>>
      BY <1>2 DEF Store, Bounded, sweepVars, callVars
    <2>7. TypeOK'
      BY <1>0, <2>4, <2>6 DEF TypeOK, Touched
    <2> QED
      BY <2>4, <2>5, <2>6, <2>7 DEF RowsOK, PlanOK
  <1>3. ASSUME NEW i \in Stored(rec), Requested(i)
        PROVE  IInv'
    <2>1. /\ rec' \in Table /\ Sound(rec') /\ Stored(rec') \subseteq Stored(rec)
          /\ \A j \in Stored(rec') : rec'[j].type = rec[j].type
          /\ UNCHANGED <<used, kept, reviews, sweepVars>> /\ Touched(None)
          /\ ops' = ops + 1
      BY <1>0, <1>3, RequestStep
    <2>2. TypeOK'
      BY <1>0, <2>1 DEF TypeOK, Touched, sweepVars, callVars
    <2> QED
      BY <2>1, <2>2 DEF RowsOK, PlanOK, sweepVars, callVars
  <1>4. ASSUME NEW s \in Sweeps, NEW who, NEW C \in SUBSET ArchiveSweepConfig,
               SweepBegins(s, who, C)
        PROVE  IInv'
    <2>1. /\ at[s] = "idle" /\ at' = [at EXCEPT ![s] = "working"]
          /\ UNCHANGED <<rec, used, kept, reviews, plan, known, settled>>
          /\ ops' = ops + 1
      BY <1>4 DEF SweepBegins, Bounded
    <2>2. TypeOK'
      BY <1>4, <2>1 DEF SweepBegins, TypeOK
    <2> QED
      BY <2>1, <2>2 DEF RowsOK, PlanOK, TypeOK, Sound, Stored
  <1>5. ASSUME NEW s \in Sweeps, ListWorking(s)
        PROVE  IInv'
    <2>1. TypeOK'
      BY <1>5, Listing DEF ListWorking, TypeOK, callVars
    <2>2. PlanOK'
      BY <1>0, <1>5 DEF ListWorking, PlanOK, TypeOK
    <2> QED
      BY <1>5, <2>1, <2>2 DEF ListWorking, RowsOK, Sound, Stored
  <1>6. ASSUME NEW s \in Sweeps, ListProcedural(s)
        PROVE  IInv'
    <2>1. TypeOK'
      BY <1>6, Listing DEF ListProcedural, TypeOK, callVars
    <2>2. PlanOK'
      BY <1>0, <1>6 DEF ListProcedural, PlanOK, TypeOK
    <2> QED
      BY <1>6, <2>1, <2>2 DEF ListProcedural, RowsOK, Sound, Stored
  <1>7. ASSUME NEW s \in Sweeps, NEW i \in Ids,
               SweepOutdates(s, i) \/ SweepPromotes(s, i)
        PROVE  IInv'
    <2>1. PICK d : Applies(s, i, d)
                   /\ \/ SweepWrites(s, i, MarkOutdated(rec, i, None))
                      \/ SweepWrites(s, i, PromoteToCanonical(rec, i, FALSE))
      BY <1>7 DEF SweepOutdates, SweepPromotes
    <2>2. /\ rec' \in Table /\ Sound(rec') /\ Stored(rec') = Stored(rec)
          /\ \A j \in Stored(rec) : rec'[j].type = rec[j].type
      BY <2>1, SweepWrite
    <2>3. /\ UNCHANGED <<used, kept, reviews, at, config, dies, known, ops>>
          /\ Touched(s) /\ at[s] = "run" /\ plan' = [plan EXCEPT ![s][i] = None]
      BY <2>1 DEF SweepWrites, Applies, callVars
    <2>4. TypeOK'
      BY <1>0, <2>2, <2>3 DEF TypeOK, Touched
    <2> QED
      BY <1>0, <2>2, <2>3, <2>4 DEF RowsOK, PlanOK
  <1>8. ASSUME NEW s \in Sweeps, NEW i \in Ids, createPromotionCandidate(s, i)
        PROVE  IInv'
    <2>1. /\ UNCHANGED <<rec, used, kept, at, config, dies, ops>>
          /\ at[s] = "run" /\ plan' = [plan EXCEPT ![s][i] = None]
          /\ known' = [known EXCEPT ![s] = known[s] \cup {i}]
      BY <1>8 DEF createPromotionCandidate, Applies, callVars
    <2>2. /\ reviews' \in [Ids -> Nat]
          /\ \A j \in Ids : reviews[j] > 0 => reviews'[j] > 0
          /\ reviews'[i] > 0
      <3>1. CASE i \in known[s]
        BY <1>0, <1>8, <3>1 DEF createPromotionCandidate, PlanOK
      <3>2. CASE i \notin known[s]
        <4>1. reviews' = [reviews EXCEPT ![i] = reviews[i] + 1]
          BY <1>8, <3>2 DEF createPromotionCandidate
        <4> QED
          BY <1>0, <4>1
      <3> QED
        BY <3>1, <3>2
    <2>3. calm' \in [Sweeps -> BOOLEAN] /\ settled' \in {settled, None}
      BY <1>0, <1>8 DEF createPromotionCandidate, Touched
    <2>4. TypeOK'
      BY <1>0, <2>1, <2>2, <2>3 DEF TypeOK
    <2>5. PlanOK'
      BY <1>0, <2>1, <2>2 DEF PlanOK
    <2> QED
      BY <2>1, <2>4, <2>5 DEF RowsOK, Sound, Stored
  <1>9. ASSUME NEW s \in Sweeps, NEW i \in Ids, ApplyFails(s, i)
        PROVE  IInv'
    <2>1. /\ UNCHANGED <<rec, used, kept, reviews, at, config, dies, known,
                         settled, ops>>
          /\ at[s] = "run" /\ plan' = [plan EXCEPT ![s][i] = None]
          /\ calm' = [calm EXCEPT ![s] = FALSE]
      BY <1>9 DEF ApplyFails, Applies, callVars
    <2>2. TypeOK'
      BY <1>0, <2>1 DEF TypeOK
    <2> QED
      BY <1>0, <2>1, <2>2 DEF RowsOK, PlanOK, Sound, Stored
  <1>10. ASSUME NEW s \in Sweeps, SweepEnds(s) \/ SweepCancelled(s)
         PROVE  IInv'
    <2>1. /\ UNCHANGED <<rec, used, kept, reviews, ops>>
          /\ at' = [at EXCEPT ![s] = "idle"] /\ plan' = [plan EXCEPT ![s] = NoPlan]
          /\ known' = [known EXCEPT ![s] = {}]
          /\ calm' = [calm EXCEPT ![s] = FALSE]
          /\ config' = [config EXCEPT ![s] = "auto"]
          /\ dies' = [dies EXCEPT ![s] = FALSE]
          /\ settled' \in {settled, config[s]}
      BY <1>10 DEF SweepEnds, SweepCancelled, Leaves
    <2>2. TypeOK'
      BY <2>1 DEF TypeOK, NoPlan, ArchiveSweepConfig
    <2> QED
      BY <1>0, <2>1, <2>2 DEF RowsOK, PlanOK, Sound, Stored
  <1> QED
    <2>1. ASSUME NEW s \in Sweeps, Sweep(s)
          PROVE  IInv'
      BY <2>1, <1>4, <1>5, <1>6, <1>7, <1>8, <1>9, <1>10, SweepCases
    <2> QED
      BY <1>1, <1>2, <1>3, <2>1 DEF Next

THEOREM Invariance == Spec => []IInv
  BY Initially, NextKeeps, PTL DEF Spec


-----------------------------------------------------------------------------
(* One review item per memory.                                             *)

\* A sweep that has begun to list knows of every queued memory.
Queued == \A i \in Ids :
    /\ reviews[i] <= 1
    /\ \A s \in Sweeps :
          at[s] \in {"procedural", "run"} /\ reviews[i] > 0 => i \in known[s]

\* Sweeps that do not overlap queue a memory once, whatever requests, failed
\* calls and cancelled sweeps come between them: the list of review items
\* is read whole when a sweep begins, and an item is never taken out of it.
\* createPromotionCandidate looks at that list and not at the store, so two
\* sweeps at once may queue a memory twice.
THEOREM OneReviewPerTargetHolds ==
    ASSUME \A s, t \in Sweeps : s = t
    PROVE  Spec => []OneReviewPerTarget
  <1>1. Init => Queued
    BY DEF Init, Queued
  <1>2. IInv /\ Queued /\ [Next]_vars => Queued'
    <2> SUFFICES ASSUME IInv, Queued, [Next]_vars PROVE Queued'
      OBVIOUS
    <2>0. /\ reviews \in [Ids -> Nat] /\ known \in [Sweeps -> SUBSET Ids]
          /\ at \in [Sweeps -> {"idle", "working", "procedural", "run"}]
          /\ plan \in [Sweeps -> [Ids -> {"outdated", "promote", "candidate", None}]]
      BY DEF IInv, TypeOK
    <2>1. CASE UNCHANGED <<reviews, at, known>>
      BY <2>1 DEF Queued
    <2>2. ASSUME NEW s \in Sweeps, NEW who, NEW C, SweepBegins(s, who, C)
          PROVE  Queued'
      BY <2>0, <2>2 DEF SweepBegins, Queued
    <2>3. ASSUME NEW s \in Sweeps, ListWorking(s)
          PROVE  Queued'
      BY <2>0, <2>3 DEF ListWorking, Queued
    <2>4. ASSUME NEW s \in Sweeps, ListProcedural(s)
          PROVE  Queued'
      BY <2>0, <2>4 DEF ListProcedural, Queued
    <2>5. ASSUME NEW s \in Sweeps, NEW i \in Ids, createPromotionCandidate(s, i)
          PROVE  Queued'
      <3>1. /\ at[s] = "run" /\ at' = at
            /\ known' = [known EXCEPT ![s] = known[s] \cup {i}]
        BY <2>5 DEF createPromotionCandidate, Applies
      <3>2. CASE i \in known[s]
        BY <2>0, <2>5, <3>1, <3>2 DEF createPromotionCandidate, Queued
      <3>3. CASE i \notin known[s]
        <4>1. reviews' = [reviews EXCEPT ![i] = reviews[i] + 1]
          BY <2>5, <3>3 DEF createPromotionCandidate
        <4>2. reviews[i] = 0
          BY <2>0, <3>1, <3>3 DEF Queued
        <4> QED
          BY <2>0, <3>1, <4>1, <4>2 DEF Queued
      <3> QED
        BY <3>2, <3>3
    <2>6. ASSUME NEW s \in Sweeps, SweepEnds(s) \/ SweepCancelled(s)
          PROVE  Queued'
      BY <2>0, <2>6 DEF SweepEnds, SweepCancelled, Leaves, Queued
    <2>7. ASSUME NEW s \in Sweeps, Sweep(s)
          PROVE  Queued'
      <3>1. ASSUME NEW i \in Ids,
                   SweepOutdates(s, i) \/ SweepPromotes(s, i) \/ ApplyFails(s, i)
            PROVE  UNCHANGED <<reviews, at, known>>
        BY <3>1 DEF SweepOutdates, SweepPromotes, SweepWrites, ApplyFails
      <3> QED
        BY <2>1, <2>2, <2>3, <2>4, <2>5, <2>6, <2>7, <3>1, SweepCases
    <2>8. ASSUME NEW i \in Stored(rec), Requested(i)
          PROVE  UNCHANGED <<reviews, at, known>>
      BY <2>8 DEF Requested, Request, sweepVars
    <2> QED
      BY <2>1, <2>7, <2>8 DEF Next, Store, vars, sweepVars
  <1>3. Queued => OneReviewPerTarget
    BY DEF Queued, OneReviewPerTarget
  <1> QED
    BY <1>1, <1>2, <1>3, Invariance, PTL DEF Spec


-----------------------------------------------------------------------------
(* A sweep that ran whole and alone.                                       *)

\* What a sweep leaves a memory as.
Handled(i) == \/ rec[i].meta.archived \/ LifecycleStatusOf(rec[i]) = "outdated"
              \/ IsCanonicalMemory(rec[i]) \/ reviews[i] > 0

\* The types a sweep has listed so far.
Seen(s) == IF at[s] = "procedural" THEN {"working"}
           ELSE IF at[s] = "run" THEN Listed ELSE {}

\* While nobody else writes, what a sweep has listed is handled or has its
\* turn to come, and a promotion it decided on is one the gate lets through.
OnTheWay(s) == calm[s] =>
    /\ config[s] # "skip" =>
         \A i \in Stored(rec) \ kept : rec[i].type \in Seen(s) =>
             Handled(i) \/ plan[s][i] # None
    /\ \A i \in Ids : plan[s][i] = "promote" =>
          i \in Stored(rec) /\ PromotionAllowed(rec[i], FALSE)

Consolidating == (\A s \in Sweeps : OnTheWay(s)) /\ CohortIsConsolidated

\* A memory whose row and review items are as they were is handled as before.
LEMMA StillHandled ==
    ASSUME NEW i \in Ids, rec'[i] = rec[i], reviews'[i] = reviews[i]
    PROVE  Handled(i)' <=> Handled(i)
  BY DEF Handled

\* The two listings.
LEMMA Lists ==
    ASSUME IInv, NEW s \in Sweeps, OnTheWay(s),
           ListWorking(s) \/ ListProcedural(s)
    PROVE  OnTheWay(s)'
  <1>1. PICK type \in Listed : /\ plan' = [plan EXCEPT ![s] = Decisions(s, type)]
                               /\ Seen(s)' \subseteq Seen(s) \cup {type}
    BY DEF ListWorking, ListProcedural, Listed, Seen, IInv, TypeOK
  <1>2. UNCHANGED <<rec, kept, reviews, config, calm>>
    BY DEF ListWorking, ListProcedural, callVars
  <1>3. /\ config[s] \in ArchiveSweepConfig /\ plan \in [Sweeps -> [Ids ->
               {"outdated", "promote", "candidate", None}]]
        /\ Stored(rec) \subseteq Ids
    BY DEF IInv, TypeOK, Stored
  <1>4. \A i \in Ids :
          plan'[s][i] = IF i \in Stored(rec) /\ rec[i].type = type
                        THEN decide(rec[i], i, config[s]) ELSE plan[s][i]
    BY <1>1, <1>3 DEF Decisions
  <1>5. ASSUME calm[s], config[s] # "skip", NEW i \in Stored(rec) \ kept,
               rec[i].type \in Seen(s)'
        PROVE  Handled(i) \/ plan'[s][i] # None
    <2>1. CASE rec[i].type = type
      <3>1. plan'[s][i] = decide(rec[i], i, config[s]) /\ i \notin kept
        BY <1>3, <1>4, <2>1
      <3>2. decide(rec[i], i, config[s]) = None =>
              LifecycleStatusOf(rec[i]) = "outdated"
        BY <1>3, <1>5, <3>1, Decided
      <3> QED
        BY <3>1, <3>2 DEF Handled
    <2>2. CASE rec[i].type # type
      BY <1>1, <1>3, <1>4, <1>5, <2>2 DEF OnTheWay
    <2> QED
      BY <2>1, <2>2
  <1>6. ASSUME calm[s], NEW i \in Ids, plan'[s][i] = "promote"
        PROVE  i \in Stored(rec) /\ PromotionAllowed(rec[i], FALSE)
    <2>1. CASE i \in Stored(rec) /\ rec[i].type = type
      BY <1>3, <1>4, <1>6, <2>1, Decided
    <2>2. CASE ~(i \in Stored(rec) /\ rec[i].type = type)
      BY <1>4, <1>6, <2>2 DEF OnTheWay
    <2> QED
      BY <2>1, <2>2
  <1>7. \A i \in Stored(rec) : Handled(i)' <=> Handled(i)
    BY <1>2, <1>3, StillHandled
  <1> QED
    BY <1>2, <1>5, <1>6, <1>7 DEF OnTheWay, Stored

\* An application: the memory it is about is handled by it, and nothing else
\* changes.
LEMMA Applied ==
    ASSUME IInv, NEW s \in Sweeps, NEW i \in Ids, OnTheWay(s),
           \/ SweepOutdates(s, i) \/ SweepPromotes(s, i)
           \/ createPromotionCandidate(s, i)
    PROVE  OnTheWay(s)'
  <1>0. /\ plan \in [Sweeps -> [Ids -> {"outdated", "promote", "candidate", None}]]
        /\ Stored(rec) \subseteq Ids /\ reviews \in [Ids -> Nat]
        /\ calm \in [Sweeps -> BOOLEAN] /\ rec \in Table /\ Sound(rec)
        /\ \A j \in known[s] : reviews[j] > 0
    BY DEF IInv, TypeOK, RowsOK, PlanOK, Stored
  <1>1. /\ UNCHANGED <<kept, config, at>> /\ plan' = [plan EXCEPT ![s][i] = None]
        /\ calm'[s] = calm[s] /\ Seen(s)' = Seen(s)
    BY <1>0 DEF SweepOutdates, SweepPromotes, createPromotionCandidate,
       SweepWrites, Applies, Touched, callVars, Seen
  <1>2. /\ Stored(rec') = Stored(rec)
        /\ \A j \in Stored(rec) : rec'[j].type = rec[j].type
        /\ \A j \in Ids \ {i} : rec'[j] = rec[j] /\ reviews'[j] = reviews[j]
    <2>1. CASE createPromotionCandidate(s, i)
      BY <1>0, <2>1 DEF createPromotionCandidate
    <2>2. CASE SweepOutdates(s, i) \/ SweepPromotes(s, i)
      <3>1. reviews' = reviews
        BY <2>2 DEF SweepOutdates, SweepPromotes, SweepWrites
      <3> QED
        BY <2>2, <3>1, SweepWrite DEF SweepOutdates, SweepPromotes, IInv
    <2> QED
      BY <2>1, <2>2
  <1>3. ASSUME calm[s], i \in Stored(rec)
        PROVE  Handled(i)'
    <2>1. CASE SweepOutdates(s, i)
      <3>1. rec' = MarkOutdated(rec, i, None)
        BY <1>3, <2>1 DEF SweepOutdates, SweepWrites, Stored
      <3> QED
        BY <1>0, <1>3, <3>1, SweepRow DEF Handled
    <2>2. CASE SweepPromotes(s, i)
      <3>1. rec' = PromoteToCanonical(rec, i, FALSE) /\ plan[s][i] = "promote"
        BY <1>3, <2>2 DEF SweepPromotes, SweepWrites, Stored, Applies
      <3>2. PromotionAllowed(rec[i], FALSE)
        BY <1>3, <3>1 DEF OnTheWay
      <3> QED
        BY <1>0, <1>3, <3>1, <3>2, SweepRow DEF Handled
    <2>3. CASE createPromotionCandidate(s, i)
      BY <1>0, <2>3 DEF createPromotionCandidate, Handled
    <2> QED
      BY <2>1, <2>2, <2>3
  <1>4. \A j \in Ids : plan'[s][j] = IF j = i THEN None ELSE plan[s][j]
    BY <1>0, <1>1
  <1>5. ASSUME calm[s], config[s] # "skip", NEW j \in Stored(rec) \ kept,
               rec[j].type \in Seen(s)
        PROVE  Handled(j)' \/ plan'[s][j] # None
    <2>1. CASE j = i
      BY <1>3, <1>5, <2>1
    <2>2. CASE j # i
      <3>1. Handled(j) \/ plan[s][j] # None
        BY <1>5 DEF OnTheWay
      <3> QED
        BY <1>0, <1>2, <1>4, <2>2, <3>1, StillHandled
    <2> QED
      BY <2>1, <2>2
  <1>6. ASSUME calm[s], NEW j \in Ids, plan'[s][j] = "promote"
        PROVE  j \in Stored(rec') /\ PromotionAllowed(rec'[j], FALSE)
    BY <1>2, <1>4, <1>6, SweepAssumption DEF OnTheWay
  <1>7. Stored(rec)' = Stored(rec')
    BY DEF Stored
  <1> QED
    BY <1>1, <1>2, <1>5, <1>6, <1>7 DEF OnTheWay

\* The last sweep to end, if it ran whole and alone and nobody has written
\* since, left no memory of the task as it was: each is kept on purpose,
\* retired, canonical or waiting for a person.  It holds for sweeps that
\* overlap as well, the ghost then being lowered by either's writes.
THEOREM CohortIsConsolidatedHolds == Spec => []CohortIsConsolidated
  <1>1. Init => Consolidating
    BY SweepAssumption
    DEF Init, Consolidating, OnTheWay, CohortIsConsolidated, ArchiveSweepConfig
  <1>2. IInv /\ Consolidating /\ [Next]_vars => Consolidating'
    <2> SUFFICES ASSUME IInv, Consolidating, [Next]_vars PROVE Consolidating'
      OBVIOUS
    <2>0. /\ plan \in [Sweeps -> [Ids -> {"outdated", "promote", "candidate", None}]]
          /\ calm \in [Sweeps -> BOOLEAN] /\ config \in [Sweeps -> ArchiveSweepConfig]
          /\ at \in [Sweeps -> {"idle", "working", "procedural", "run"}]
          /\ reviews \in [Ids -> Nat] /\ Stored(rec) \subseteq Ids
      BY DEF IInv, TypeOK, Stored
    <2>A. ASSUME NEW s \in Sweeps,
                 UNCHANGED <<rec, kept, reviews, at, config, plan>>,
                 calm'[s] => calm[s]
          PROVE  OnTheWay(s)'
      BY <2>A DEF Consolidating, OnTheWay, Seen, Handled, Stored
    <2>B. ASSUME NEW s \in Sweeps,
                 UNCHANGED <<rec, kept, reviews>>, calm'[s] = calm[s],
                 at'[s] = at[s], config'[s] = config[s], plan'[s] = plan[s]
          PROVE  OnTheWay(s)'
      BY <2>B DEF Consolidating, OnTheWay, Seen, Handled, Stored
    <2>C. ASSUME UNCHANGED <<rec, kept, reviews, settled>>
          PROVE  CohortIsConsolidated'
      BY <2>C DEF Consolidating, CohortIsConsolidated, Stored
    <2>1. CASE UNCHANGED vars
      BY <2>1, <2>A, <2>C DEF vars, sweepVars, callVars, Consolidating
    <2>D. ASSUME NEW w \in Sweeps \cup {None}, Touched(w), w # None => OnTheWay(w)'
          PROVE  Consolidating'
      <3>1. \A t \in Sweeps : t # w => ~calm'[t]
        BY <2>D DEF Touched
      <3>2. \A t \in Sweeps : OnTheWay(t)'
        BY <2>D, <3>1, SweepAssumption DEF OnTheWay
      <3>3. CohortIsConsolidated'
        BY <2>D, SweepAssumption DEF Touched, CohortIsConsolidated, ArchiveSweepConfig
      <3> QED
        BY <3>2, <3>3 DEF Consolidating
    <2>E. ASSUME NEW s \in Sweeps, UNCHANGED <<rec, kept, reviews>>, OnTheWay(s)',
                 CohortIsConsolidated',
                 \A t \in Sweeps \ {s} : /\ calm'[t] = calm[t] /\ at'[t] = at[t]
                                         /\ config'[t] = config[t]
                                         /\ plan'[t] = plan[t]
          PROVE  Consolidating'
      BY <2>B, <2>E DEF Consolidating
    <2>2. ASSUME NEW s \in Sweeps, NEW who, NEW C, SweepBegins(s, who, C)
          PROVE  Consolidating'
      <3>1. /\ UNCHANGED <<rec, kept, reviews, plan, settled>>
            /\ at' = [at EXCEPT ![s] = "working"] /\ plan[s] = NoPlan
            /\ calm' = [calm EXCEPT ![s] = TRUE]
            /\ \A t \in Sweeps \ {s} : config'[t] = config[t]
        BY <2>0, <2>2 DEF SweepBegins, IInv, PlanOK
      <3>2. Seen(s)' = {} /\ \A i \in Ids : plan'[s][i] # "promote"
        BY <2>0, <3>1, SweepAssumption DEF Seen, NoPlan
      <3>3. OnTheWay(s)'
        BY <3>2 DEF OnTheWay
      <3> QED
        BY <2>0, <2>C, <2>E, <3>1, <3>3
    <2>3. ASSUME NEW s \in Sweeps, ListWorking(s) \/ ListProcedural(s)
          PROVE  Consolidating'
      <3>1. OnTheWay(s)'
        BY <2>3, Lists DEF Consolidating
      <3> QED
        BY <2>0, <2>3, <2>C, <2>E, <3>1 DEF ListWorking, ListProcedural, callVars
    <2>4. ASSUME NEW s \in Sweeps, NEW i \in Ids,
                 \/ SweepOutdates(s, i) \/ SweepPromotes(s, i)
                 \/ createPromotionCandidate(s, i)
          PROVE  Consolidating'
      <3>1. OnTheWay(s)'
        BY <2>4, Applied DEF Consolidating
      <3>2. CASE Touched(s)
        BY <2>D, <3>1, <3>2
      <3>3. CASE ~Touched(s)
        <4>1. /\ createPromotionCandidate(s, i)
              /\ UNCHANGED <<rec, kept, reviews, calm, settled, at, config>>
          BY <2>4, <3>3 DEF SweepOutdates, SweepPromotes, SweepWrites,
             createPromotionCandidate, callVars
        <4>2. plan' = [plan EXCEPT ![s][i] = None]
          BY <4>1 DEF createPromotionCandidate, Applies
        <4> QED
          BY <2>0, <2>C, <2>E, <3>1, <4>1, <4>2
      <3> QED
        BY <3>2, <3>3
    <2>5. ASSUME NEW s \in Sweeps, NEW i \in Ids, ApplyFails(s, i)
          PROVE  Consolidating'
      <3>1. /\ UNCHANGED <<rec, kept, reviews, at, config, settled>>
            /\ plan' = [plan EXCEPT ![s][i] = None]
            /\ calm' = [calm EXCEPT ![s] = FALSE]
        BY <2>5 DEF ApplyFails, Applies, callVars
      <3>2. OnTheWay(s)'
        BY <2>0, <3>1 DEF OnTheWay
      <3> QED
        BY <2>0, <2>C, <2>E, <3>1, <3>2
    <2>6. ASSUME NEW s \in Sweeps, SweepEnds(s) \/ SweepCancelled(s)
          PROVE  Consolidating'
      <3>1. /\ UNCHANGED <<rec, kept, reviews>>
            /\ at' = [at EXCEPT ![s] = "idle"] /\ plan' = [plan EXCEPT ![s] = NoPlan]
            /\ calm' = [calm EXCEPT ![s] = FALSE]
            /\ config' = [config EXCEPT ![s] = "auto"]
        BY <2>6 DEF SweepEnds, SweepCancelled, Leaves
      <3>2. OnTheWay(s)'
        BY <2>0, <3>1 DEF OnTheWay
      <3>3. CohortIsConsolidated'
        <4>1. CASE settled' = settled
          BY <2>C, <3>1, <4>1
        <4>2. CASE settled' # settled
          <5>1. /\ at[s] = "run" /\ plan[s] = NoPlan /\ calm[s]
                /\ settled' = config[s]
            BY <2>6, <4>2 DEF SweepEnds, SweepCancelled
          <5>2. \A i \in Stored(rec) \ kept :
                   config[s] # "skip" => Handled(i)
            BY <2>0, <5>1 DEF Consolidating, OnTheWay, Seen, NoPlan, IInv, RowsOK
          <5> QED
            BY <3>1, <5>1, <5>2 DEF CohortIsConsolidated, Handled, Stored
        <4> QED
          BY <4>1, <4>2
      <3> QED
        BY <2>0, <2>E, <3>1, <3>2, <3>3
    <2>7. ASSUME NEW s \in Sweeps, Sweep(s)
          PROVE  Consolidating'
      BY <2>2, <2>3, <2>4, <2>5, <2>6, <2>7, SweepCases
    <2>8. ASSUME Touched(None)
          PROVE  Consolidating'
      BY <2>8, <2>D
    <2>9. ASSUME NEW i \in Stored(rec), Requested(i)
          PROVE  Touched(None)
      BY <2>9 DEF Requested, Request
    <2> QED
      BY <2>1, <2>7, <2>8, <2>9 DEF Next, Store
  <1>3. Consolidating => CohortIsConsolidated
    BY DEF Consolidating
  <1> QED
    BY <1>1, <1>2, <1>3, Invariance, PTL DEF Spec

-----------------------------------------------------------------------------
(* The gate.                                                               *)

\* Retiring a memory makes it neither canonical nor less so.
LEMMA RetiredKeepsFlag ==
    ASSUME NEW r \in Record, Consistent(r.meta)
    PROVE  Retired(r, None).meta.canonical <=> r.meta.canonical
  <1> DEFINE x == [r.meta EXCEPT !.status = "outdated", !.next = r.meta.next,
                                 !.archived = TRUE]
  <1>1. r.meta \in Meta
    BY DEF Record
  <1>2. x \in Meta /\ x.canonical = r.meta.canonical /\ x.lifecycle = r.meta.lifecycle
    BY <1>1 DEF Meta, Statuses
  <1>3. Retired(r, None) = [r EXCEPT !.important = FALSE, !.meta = Validate(x),
                                     !.supersededBy = r.supersededBy]
    BY DEF Retired
  <1> HIDE DEF x
  <1>4. Retired(r, None).meta = Validate(x)
    BY <1>3 DEF Record
  <1> QED
    BY <1>2, <1>4, ValidateFacts DEF Consistent

\* A sweep makes nothing canonical that has no trusted provenance now.
LEMMA SweepGate ==
    ASSUME IInv, NEW s \in Sweeps, Sweep(s), NEW j \in Stored(rec),
           rec'[j].meta.canonical, ~rec[j].meta.canonical
    PROVE  rec[j].meta.trusted /\ rec'[j].meta.trusted
  <1>0. rec \in Table /\ Sound(rec)
    BY DEF IInv, TypeOK, RowsOK
  <1>1. j \in Ids /\ rec[j] \in Record /\ Consistent(rec[j].meta) /\ rec[j] # None
    BY <1>0, Rows DEF Stored
  <1>2. PICK i \in Ids : SweepOutdates(s, i) \/ SweepPromotes(s, i)
    <2>1. CASE rec' = rec
      BY <2>1
    <2> QED
      BY <2>1, SweepCases DEF SweepBegins, ListWorking, ListProcedural,
         createPromotionCandidate, ApplyFails, SweepEnds, SweepCancelled, Leaves
  <1>3. i = j /\ rec[i] # None
    <2>1. CASE rec[i] = None
      BY <1>2, <2>1 DEF SweepOutdates, SweepPromotes, SweepWrites
    <2>2. CASE rec[i] # None
      <3>1. i \in Stored(rec)
        BY <2>2 DEF Stored
      <3>2. \/ rec' = MarkOutdated(rec, i, None)
            \/ rec' = PromoteToCanonical(rec, i, FALSE)
        BY <1>2, <2>2 DEF SweepOutdates, SweepPromotes, SweepWrites
      <3>3. \A k \in Ids \ {i} : rec'[k] = rec[k]
        <4>1. CASE rec' = MarkOutdated(rec, i, None)
          BY <1>0, <3>1, <4>1, SweepRow
        <4>2. CASE rec' = PromoteToCanonical(rec, i, FALSE)
          BY <1>0, <3>1, <4>2, SweepRow
        <4> QED
          BY <3>2, <4>1, <4>2
      <3> QED
        BY <1>1, <2>2, <3>3
    <2> QED
      BY <2>1, <2>2
  <1>4. CASE SweepOutdates(s, i)
    <2>1. rec' = [rec EXCEPT ![j] = Retired(rec[j], None)]
      BY <1>3, <1>4 DEF SweepOutdates, SweepWrites, MarkOutdated
    <2>2. rec'[j] = Retired(rec[j], None)
      BY <1>0, <1>1, <2>1 DEF Table
    <2> QED
      BY <1>1, <2>2, RetiredKeepsFlag
  <1>5. CASE SweepPromotes(s, i)
    <2>1. rec' = PromoteToCanonical(rec, j, FALSE)
      BY <1>3, <1>5 DEF SweepPromotes, SweepWrites
    <2>2. PromotionAllowed(rec[j], FALSE)
      <3>1. CASE ~PromotionAllowed(rec[j], FALSE)
        BY <2>1, <3>1 DEF PromoteToCanonical
      <3> QED
        BY <3>1
    <2>3. rec[j].meta.trusted
      BY <2>2 DEF PromotionAllowed
    <2>4. rec' = [rec EXCEPT ![j] = Promoted(rec[j], FALSE)]
      BY <2>1, <2>2 DEF PromoteToCanonical
    <2>5. rec'[j] = Promoted(rec[j], FALSE)
      BY <1>0, <1>1, <2>4 DEF Table
    <2>6. Lifecycle(rec[j], rec'[j])
      BY <1>1, <2>2, <2>5, PromotedFacts
    <2> QED
      BY <2>3, <2>6 DEF Lifecycle
  <1> QED
    BY <1>2, <1>4, <1>5

\* No memory of a task becomes canonical without a trusted provenance, and by a
\* sweep only one that had it already: the gate is asked of the row as it is
\* when the promotion is applied, and not of the copy the decision was made on,
\* whatever requests and other sweeps have done in between.
SweepsPromoteVerified ==
    [][\A i \in Stored(rec) :
         ~IsCanonicalMemory(rec[i]) /\ rec'[i] # None /\ IsCanonicalMemory(rec'[i]) =>
           /\ rec'[i].meta.trusted
           /\ (\E s \in Sweeps : Sweep(s)) => rec[i].meta.trusted]_vars

\* It holds of every behaviour, for any sweeps and requests that overlap.
THEOREM SweepsPromoteVerifiedHolds == Spec => SweepsPromoteVerified
  <1>1. ASSUME IInv, IInv', [Next]_vars, NEW i \in Stored(rec),
               ~IsCanonicalMemory(rec[i]), rec'[i] # None, IsCanonicalMemory(rec'[i])
        PROVE  /\ rec'[i].meta.trusted
               /\ (\E s \in Sweeps : Sweep(s)) => rec[i].meta.trusted
    <2>0. rec \in Table /\ Sound(rec) /\ rec' \in Table /\ Sound(rec') /\ used \subseteq Ids
          /\ Stored(rec) \subseteq used
      BY <1>1 DEF IInv, TypeOK, RowsOK
    <2>1. i \in Stored(rec')
      BY <1>1 DEF Stored
    <2>2. ~rec[i].meta.canonical /\ rec'[i].meta.canonical
      BY <1>1, <2>0, <2>1, Rows, CanonicalIsFlag
    <2>3. CASE \E s \in Sweeps : Sweep(s)
      BY <1>1, <2>2, <2>3, SweepGate
    <2>4. CASE \E k \in Stored(rec) : Requested(k)
      <3>1. rec'[i].meta.trusted
        BY <2>0, <2>1, <2>2, <2>4, RequestStep
      <3> QED
        BY <2>3, <3>1
    <2>5. ASSUME NEW k \in Ids, NEW type, NEW important, NEW status, NEW keep,
                 Store(k, type, important, status, keep)
          PROVE  FALSE
      BY <1>1, <2>0, <2>2, <2>5 DEF Store, Stored, Table
    <2>6. CASE UNCHANGED vars
      BY <2>2, <2>6 DEF vars
    <2> QED
      BY <1>1, <2>3, <2>4, <2>5, <2>6 DEF Next
  <1>2. IInv /\ IInv' /\ [Next]_vars =>
          [\A i \in Stored(rec) :
             ~IsCanonicalMemory(rec[i]) /\ rec'[i] # None /\ IsCanonicalMemory(rec'[i]) =>
               /\ rec'[i].meta.trusted
               /\ (\E s \in Sweeps : Sweep(s)) => rec[i].meta.trusted]_vars
    BY <1>1
  <1> QED
    BY <1>2, Invariance, PTL DEF Spec, SweepsPromoteVerified

=============================================================================
