---------------------------- MODULE ArchiveSweep ----------------------------
(***************************************************************************)
(* The archive sweep of one closed task (SweepArchive and EndTask, one     *)
(* slug): it lists the task's working and procedural memories, decides on  *)
(* each of them from that list, and applies the decisions one store call   *)
(* at a time while requests go on.                                         *)
(*                                                                         *)
(* The mutex of a slug belongs to a Sweeper, and each of its callers (the  *)
(* scheduler, both tools, the CLI) makes a Sweeper of its own: a sweep     *)
(* never waits for another, so no lock appears here.  A dry run writes     *)
(* nothing and is left out.                                                *)
(***************************************************************************)
EXTENDS KnowledgeRecord

CONSTANTS
    Sweeps,       \* calls of sweepSlug that may overlap
    Callers,      \* who starts them: a subset of AllCallers
    NewStatuses,  \* statuses callers give a new record
    Kinds,        \* requests and faults admitted: subset of AllKinds
    MaxOps        \* bound on stores, requests and sweeps

\* The background scheduler, the two MCP tools, and the two CLI commands.
AllCallers == {"scheduler", "tool", "cli"}

\* The flags of a sweep: AutoPromote, or review items, or SkipPromotion.
ArchiveSweepConfig == {"auto", "review", "skip"}

AllKinds == {"edit", "clear", "delete", "mark", "promote", "merge", "fails", "cancel"}

ASSUME SweepAssumption ==
    /\ Callers \subseteq AllCallers
    /\ NewStatuses \subseteq Statuses \cup {"absent"}
    /\ Kinds \subseteq AllKinds /\ MaxOps \in Nat
    /\ None \notin ArchiveSweepConfig \cup {"outdated", "promote", "candidate"}
    /\ None \notin Sweeps

VARIABLES
    rec,      \* the memories of the task
    used,     \* ids ever drawn
    kept,     \* memories with the keep tag
    reviews,  \* review items of each target, resolved ones included
    at,       \* "idle", "working", "procedural" or "run", per sweep
    config,   \* flags of each sweep
    dies,     \* its context is cancelled at shutdown: the scheduler's alone
    plan,     \* decisions a sweep has still to apply, None elsewhere
    known,    \* existingReviews
    calm,     \* ghost: nobody but the sweep has written since it began
    settled,  \* ghost: flags of the last sweep to end, if nothing was written
    ops       \* counter for MaxOps

vars == <<rec, used, kept, reviews, at, config, dies, plan, known,
          calm, settled, ops>>

callVars == <<config, dies>>

sweepVars == <<at, callVars, plan, known>>

NoPlan == [i \in Ids |-> None]

Init ==
    /\ rec = [i \in Ids |-> None] /\ used = {} /\ kept = {}
    /\ reviews = [i \in Ids |-> 0]
    /\ at = [s \in Sweeps |-> "idle"]
    /\ config = [s \in Sweeps |-> "auto"] /\ dies = [s \in Sweeps |-> FALSE]
    /\ plan = [s \in Sweeps |-> NoPlan]
    /\ known = [s \in Sweeps |-> {}]
    /\ calm = [s \in Sweeps |-> FALSE]
    /\ settled = None /\ ops = 0

Bounded == ops < MaxOps /\ ops' = ops + 1

\* A write by sweep w, or by a request when w is None.
Touched(w) ==
    /\ calm' = [s \in Sweeps |-> calm[s] /\ s = w]
    /\ settled' = None

-----------------------------------------------------------------------------
(* Requests: stored memories and what happens to them meanwhile.           *)

Store(i, type, important, status, keep) ==
    /\ Bounded /\ i \notin used
    /\ used' = used \cup {i}
    /\ kept' = IF keep THEN kept \cup {i} ELSE kept
    /\ rec' = [rec EXCEPT ![i] = NewRecord(type, important, status, None)]
    /\ Touched(None)
    /\ UNCHANGED <<reviews, sweepVars>>

Request(kind, table) ==
    /\ kind \in Kinds /\ Bounded
    /\ rec' = table
    /\ Touched(None)
    /\ UNCHANGED <<used, kept, reviews, sweepVars>>

Requested(i) ==
    \/ \E s \in NewStatuses : Request("edit", [rec EXCEPT ![i] = WithStatus(@, s)])
    \/ \E K \in SUBSET Keys : Request("clear", [rec EXCEPT ![i] = Cleared(@, K)])
    \/ Request("delete", [rec EXCEPT ![i] = None])
    \/ \E s \in {None} \cup used : Request("mark", MarkOutdated(rec, i, s))
    \/ \E v \in BOOLEAN : Request("promote", PromoteToCanonical(rec, i, v))
    \/ \E d \in Stored(rec) \ {i} : Request("merge", MergeDuplicates(rec, i, {d}))

-----------------------------------------------------------------------------
(* The sweep.                                                              *)

\* None for every kind of skip.  The importance of a canonical memory is
\* above the threshold.
decide(r, i, c) ==
    IF i \in kept \/ LifecycleStatusOf(r) = "outdated" THEN None
    ELSE IF ~(r.type = "procedural" \/ r.important) THEN "outdated"
    ELSE IF c = "skip" THEN None
    ELSE IF c = "auto" /\ PromotionAllowed(r, FALSE) THEN "promote"
    ELSE "candidate"

Decisions(s, type) ==
    [i \in Ids |-> IF i \in Stored(rec) /\ rec[i].type = type
                   THEN decide(rec[i], i, config[s]) ELSE plan[s][i]]

SweepBegins(s, who, C) ==
    /\ who \in Callers
    /\ at[s] = "idle" /\ Bounded
    /\ \E c \in C : config' = [config EXCEPT ![s] = c]
    /\ dies' = [dies EXCEPT ![s] = (who = "scheduler")]
    /\ at' = [at EXCEPT ![s] = "working"]
    /\ calm' = [calm EXCEPT ![s] = TRUE]
    /\ UNCHANGED <<rec, used, kept, reviews, plan, known, settled>>

\* The scheduler promotes on its own.
runArchiveSweepOnce(s) == SweepBegins(s, "scheduler", {"auto"})

\* The tools do so by default, and take both flags as arguments; the second
\* overrules the first.
buildSweepConfigFromArgs ==
    {IF skipPromotion THEN "skip" ELSE IF autoPromote THEN "auto" ELSE "review" :
        autoPromote \in BOOLEAN, skipPromotion \in BOOLEAN}

SweepByTool(s) == SweepBegins(s, "tool", buildSweepConfigFromArgs)

\* The commands never do.
buildSweepConfig ==
    {IF skipPromotion THEN "skip" ELSE "review" : skipPromotion \in BOOLEAN}

SweepByCommand(s) == SweepBegins(s, "cli", buildSweepConfig)

\* Mutant: a resolved or foreign item is not recognised.
ListWorking_unknown(s) ==
    /\ at[s] = "working"
    /\ plan' = [plan EXCEPT ![s] = Decisions(s, "working")]
    /\ known' = [known EXCEPT ![s] = {}]
    /\ at' = [at EXCEPT ![s] = "procedural"]
    /\ UNCHANGED <<rec, used, kept, reviews, callVars, calm, settled, ops>>

\* The first of two List calls, review items being working memories.
ListWorking(s) ==
    /\ at[s] = "working"
    /\ plan' = [plan EXCEPT ![s] = Decisions(s, "working")]
    /\ known' = [known EXCEPT ![s] = {i \in Ids : reviews[i] > 0}]
    /\ at' = [at EXCEPT ![s] = "procedural"]
    /\ UNCHANGED <<rec, used, kept, reviews, callVars, calm, settled, ops>>

\* Mutant: List asks for working memories only.
ListProcedural_none(s) ==
    /\ at[s] = "procedural"
    /\ at' = [at EXCEPT ![s] = "run"]
    /\ UNCHANGED <<rec, used, kept, reviews, callVars, plan, known, calm,
                   settled, ops>>

ListProcedural(s) ==
    /\ at[s] = "procedural"
    /\ plan' = [plan EXCEPT ![s] = Decisions(s, "procedural")]
    /\ at' = [at EXCEPT ![s] = "run"]
    /\ UNCHANGED <<rec, used, kept, reviews, callVars, known, calm,
                   settled, ops>>

Applies(s, i, d) ==
    /\ at[s] = "run" /\ plan[s][i] = d
    /\ plan' = [plan EXCEPT ![s][i] = None]

\* The store call reads the row as it is now; a row that is gone, or that
\* the gate refuses, is an entry of result.Errors.
SweepWrites(s, i, table) ==
    /\ rec' = IF rec[i] = None THEN rec ELSE table
    /\ Touched(s)
    /\ UNCHANGED <<used, kept, reviews, at, callVars, known, ops>>

SweepOutdates(s, i) ==
    /\ Applies(s, i, "outdated")
    /\ SweepWrites(s, i, MarkOutdated(rec, i, None))

SweepPromotes(s, i) ==
    /\ Applies(s, i, "promote")
    /\ SweepWrites(s, i, PromoteToCanonical(rec, i, FALSE))

createPromotionCandidate(s, i) ==
    /\ Applies(s, i, "candidate")
    /\ IF i \in known[s] THEN UNCHANGED <<reviews, calm, settled>>
       ELSE reviews' = [reviews EXCEPT ![i] = @ + 1] /\ Touched(s)
    /\ known' = [known EXCEPT ![s] = @ \cup {i}]
    /\ UNCHANGED <<rec, used, kept, at, callVars, ops>>

\* A failed call is collected in result.Errors and the loop goes on.
ApplyFails(s, i) ==
    /\ "fails" \in Kinds
    /\ Applies(s, i, plan[s][i]) /\ plan[s][i] # None
    /\ calm' = [calm EXCEPT ![s] = FALSE]
    /\ UNCHANGED <<rec, used, kept, reviews, at, callVars, known, settled,
                   ops>>

\* Ends the sweep, whether or not it was whole.
Leaves(s) ==
    /\ at' = [at EXCEPT ![s] = "idle"]
    /\ plan' = [plan EXCEPT ![s] = NoPlan]
    /\ known' = [known EXCEPT ![s] = {}]
    /\ calm' = [calm EXCEPT ![s] = FALSE]
    /\ config' = [config EXCEPT ![s] = "auto"]
    /\ dies' = [dies EXCEPT ![s] = FALSE]
    /\ UNCHANGED <<rec, used, kept, reviews, ops>>

SweepEnds(s) ==
    /\ at[s] = "run" /\ plan[s] = NoPlan
    /\ settled' = IF calm[s] THEN config[s] ELSE settled
    /\ Leaves(s)

\* The context of the scheduler is cancelled between two memories.
SweepCancelled(s) ==
    /\ "cancel" \in Kinds /\ dies[s]
    /\ at[s] = "run" /\ plan[s] # NoPlan
    /\ UNCHANGED settled
    /\ Leaves(s)

-----------------------------------------------------------------------------
Sweep(s) ==
    \/ runArchiveSweepOnce(s) \/ SweepByTool(s) \/ SweepByCommand(s)
    \/ ListWorking(s) \/ ListProcedural(s)
    \/ \E i \in Ids : \/ SweepOutdates(s, i) \/ SweepPromotes(s, i)
                      \/ createPromotionCandidate(s, i) \/ ApplyFails(s, i)
    \/ SweepEnds(s) \/ SweepCancelled(s)

Next ==
    \/ \E i \in Ids, type \in {"working", "procedural"}, important \in BOOLEAN,
          status \in NewStatuses, keep \in BOOLEAN :
         Store(i, type, important, status, keep)
    \/ \E i \in Stored(rec) : Requested(i)
    \/ \E s \in Sweeps : Sweep(s)

Spec == Init /\ [][Next]_vars

-----------------------------------------------------------------------------
(* Properties.                                                             *)

TypeOK ==
    /\ rec \in Table /\ used \subseteq Ids /\ kept \subseteq used
    /\ reviews \in [Ids -> Nat]
    /\ at \in [Sweeps -> {"idle", "working", "procedural", "run"}]
    /\ config \in [Sweeps -> ArchiveSweepConfig] /\ dies \in [Sweeps -> BOOLEAN]
    /\ plan \in [Sweeps ->
                  [Ids -> {"outdated", "promote", "candidate", None}]]
    /\ known \in [Sweeps -> SUBSET Ids]
    /\ calm \in [Sweeps -> BOOLEAN]
    /\ settled \in ArchiveSweepConfig \cup {None}
    /\ ops \in Nat

\* createPromotionCandidate queues a memory once, over all the sweeps there
\* are and whatever failed in one of them.
OneReviewPerTarget == \A i \in Ids : reviews[i] <= 1

\* A sweep that ran whole and alone leaves no memory of the task as it was:
\* each is kept on purpose, retired, canonical or waiting for a person.
CohortIsConsolidated ==
    settled \in {"auto", "review"} =>
        \A i \in Stored(rec) \ kept :
            \/ rec[i].meta.archived \/ LifecycleStatusOf(rec[i]) = "outdated"
            \/ IsCanonicalMemory(rec[i]) \/ reviews[i] > 0
=============================================================================
