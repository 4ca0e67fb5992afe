---------------------------- MODULE SessionClose ----------------------------
(***************************************************************************)
(* The session-close service: a session's text is matched against what the *)
(* bank knows, near-exact updates are applied, the rest is left to review, *)
(* and the text itself becomes the session's terminal record, or is folded *)
(* into the one that exists.  Closes and checkpoints run side by side: in  *)
(* requests and background goroutines of the server, and in hook processes *)
(* which know of the bank what they loaded when they started.              *)
(* A text is a sequence of lines.  One project context, which every text   *)
(* names, and one window of consolidation and de-duplication, hold         *)
(* everything here; a text without a context is always stored apart.       *)
(***************************************************************************)
EXTENDS Integers, Sequences, FiniteSets, SequencesExt

CONSTANTS
    Lines,       \* what a line of a session's text may be
    Candidates,  \* an engineering entity is inferred from it
    Chores,      \* an activity bullet, which carries no knowledge
    Unsure,      \* it asks for review
    Replacing,   \* it says that something is replaced or stale
    Stable,      \* an accepted decision, runbook or procedure
    Strict,      \* it makes the mode incident or migration
    Related,     \* pairs of lines that overlap strongly
    Sids, NoSid, \* agent session ids; text that names none
    MaxFailures  \* bound on failed writes

ASSUME SessionAssumption ==
    /\ UNION {Candidates, Chores, Unsure, Replacing, Stable, Strict} \subseteq Lines
    /\ Related \subseteq Lines \X Lines
    /\ NoSid \notin Sids /\ MaxFailures \in Nat

VARIABLES
    mem,     \* the records, in the order of their creation
    unseen,  \* those of other processes that the server has not loaded
    jobs,    \* the closes and checkpoints, in the order they began
    faults   \* writes that failed

session == <<mem, unseen, jobs, faults>>

Ids == DOMAIN mem
Job == DOMAIN jobs
Alive(i) == mem[i].alive

\* vector: the text was embedded, as all but queue items are.  Two ghosts:
\* from: the closes whose text or update is in the record; dropped: those of
\* which it has the tags and the metadata, and not the text.
Record(kind, body, sid, j, knew) ==
    [kind |-> kind, body |-> body, sid |-> sid, from |-> {j}, dropped |-> {}, knew |-> knew,
     alive |-> TRUE, state |-> "review_required",
     vector |-> kind # "review_queue_item"]

IsSessionSummaryMemory(i) == mem[i].kind = "session_summary"

\* A checkpoint is not terminal; a queue item or a knowledge item neither.
IsTerminalRecord(i) == IsSessionSummaryMemory(i)

SomeKnowledge(lines) ==
    [i \in 1..Len(lines) |->
        [Record("knowledge_item", <<lines[i]>>, NoSid, 0, {})
         EXCEPT !.from = {}]]

Over == {"done", "failed", "skipped", "dropped"}

\* auto: auto_apply_low_risk; raw: save_raw.
NewJob(who, sid, body, auto, raw, pc) ==
    [who |-> who, sid |-> sid, body |-> body, auto |-> auto, raw |-> raw,
     pc |-> pc, plan |-> <<>>, sent |-> {}, target |-> 0, read |-> <<>>,
     knew |-> {i \in Ids : Alive(i) /\ (who = "hook" \/ i \notin unseen)}]

\* What a job that is over worked with is of no use.
Ended(job, pc) ==
    [job EXCEPT !.pc = pc, !.body = <<>>, !.plan = <<>>, !.sent = {},
                !.target = 0, !.read = <<>>, !.knew = {}]

Finish(j, pc) == jobs' = [jobs EXCEPT ![j] = Ended(@, pc)]

Begin(job) == jobs' = Append(jobs, job)

\* List goes through the process's cache and reads the rows themselves.
Listed(j) ==
    {i \in Ids : /\ Alive(i)
                 /\ IF jobs[j].who = "hook" THEN i \in jobs[j].knew
                                            ELSE i \notin unseen}

Store(j, rec) ==
    /\ mem' = Append(mem, rec)
    /\ unseen' = IF jobs[j].who = "hook" THEN unseen \cup {Len(mem) + 1}
                                         ELSE unseen

Rewrite(i, rec) == mem' = [mem EXCEPT ![i] = rec] /\ UNCHANGED unseen

Goto(j, pc) == jobs' = [jobs EXCEPT ![j].pc = pc]

Fault == faults < MaxFailures /\ faults' = faults + 1

-----------------------------------------------------------------------------
(* Planning.                                                               *)

\* What the words of a line say of it.
inferEngineeringType(line) == line \in Candidates
inferReviewRequired(line) == line \in Unsure
isSupersedeCandidate(line) == line \in Replacing
shouldPromoteCanonical(line) == line \in Stable

\* The mode that goes with the text, where none is given.
normalizeSummary(body) ==
    IF ToSet(body) \cap Strict # {} THEN "incident" ELSE "coding"

policyForMode(mode) ==
    IF mode \in {"incident", "migration"} THEN "strict" ELSE "plain"

\* Candidates and items share the entity and the service here, so that the
\* sum of the scores for those, the context and the words falls in one class.
\* A queue item quotes its line among words of its own.
score(line, i) ==
    IF mem[i].kind = "knowledge_item" /\ mem[i].body = <<line>> THEN "exact"
    ELSE IF \E l \in ToSet(mem[i].body) : l = line \/ <<line, l>> \in Related
         THEN "strong" ELSE "weak"

Matching(j, line, class) ==
    {i \in Listed(j) : /\ ~IsSessionSummaryMemory(i)
                       /\ mem[i].kind # "session_checkpoint"
                       /\ score(line, i) = class}

\* What a line becomes, given the best match.  A weak match counts as a
\* match for lines that replace something.
actionKind(line, class, some) ==
    IF some /\ isSupersedeCandidate(line) THEN "supersede"
    ELSE IF class = "exact" THEN "update"
    ELSE IF class = "strong" THEN "merge"
    ELSE IF shouldPromoteCanonical(line) THEN "promote_canonical"
    ELSE "new"

\* Only an update is ever sure enough: a merge is planned below 0.95 and
\* applied on its own from 0.95.
classifyActionHandling(kind, line, mode) ==
    IF kind \in {"promote_canonical", "supersede"} THEN "hard_review"
    ELSE IF inferReviewRequired(line) THEN "hard_review"
    ELSE IF mode = "strict"
         THEN IF kind = "new" THEN "soft_review" ELSE "hard_review"
    ELSE IF kind = "update" THEN "safe_auto_apply"
    ELSE IF kind = "new" THEN "hard_review" ELSE "soft_review"

\* What is not applied without asking is marked for review at once.
Planned(line, kind, target, j) ==
    LET mode == normalizeSummary(jobs[j].body)
        handling == classifyActionHandling(kind, line, policyForMode(mode))
    IN  [line |-> line, kind |-> kind, target |-> target, handling |-> handling,
         state |-> IF jobs[j].auto /\ handling = "safe_auto_apply"
                   THEN "planned" ELSE "review_required"]

bestExistingMatch(j, line) ==
    LET class == IF Matching(j, line, "exact") # {} THEN "exact"
                 ELSE IF Matching(j, line, "strong") # {} THEN "strong"
                 ELSE "weak"
        found == Matching(j, line, class)
    IN  {Planned(line, actionKind(line, class, found # {}), i, j) :
            i \in IF found = {} THEN {0} ELSE found}

\* The candidates, by the places of their lines in the text.
buildSessionDelta(body) == {k \in DOMAIN body : inferEngineeringType(body[k])}

\* When nothing is left to apply, the terminal record is next.
After(plan) == IF \E k \in DOMAIN plan : plan[k].state = "planned"
               THEN "act" ELSE "lookup"

\* One snapshot of the bank serves the plan of all the lines.
planActions(j) ==
    LET body == jobs[j].body
        found == buildSessionDelta(body)
    IN  /\ jobs[j].pc = "plan"
        /\ \E plan \in [found -> UNION {bestExistingMatch(j, body[k]) : k \in found}] :
            /\ \A k \in found : plan[k] \in bestExistingMatch(j, body[k])
            /\ jobs' = [jobs EXCEPT ![j].plan = plan, ![j].pc = After(plan)]
        /\ UNCHANGED <<mem, unseen, faults>>

-----------------------------------------------------------------------------
(* Applying.                                                               *)

\* The next action that is still to be applied, in the order of the plan.
Current(j) ==
    CHOOSE k \in DOMAIN jobs[j].plan :
        /\ jobs[j].plan[k].state = "planned"
        /\ \A o \in DOMAIN jobs[j].plan : o < k => jobs[j].plan[o].state # "planned"

Settle(j, k, state) ==
    LET plan == [jobs[j].plan EXCEPT ![k].state = state]
    IN  jobs' = [jobs EXCEPT ![j].plan = plan, ![j].pc = After(plan)]

\* A plausible slip: the failure is reported and the state left as it was.
ApplyFails_reported(j, k) == Settle(j, k, "applied")

\* An update that fails goes to review.
ApplyFails(j, k) == Settle(j, k, "review_required")

\* The target is read first; its row may be gone.
executeActions(j) ==
    /\ jobs[j].pc = "act"
    /\ LET k == Current(j)
       IN  IF Alive(jobs[j].plan[k].target) THEN Goto(j, "update")
           ELSE ApplyFails(j, k)
    /\ UNCHANGED <<mem, unseen, faults>>

\* The candidate's tags and metadata are laid over what was read.
mergeMetadata(rec, j) == [rec EXCEPT !.from = @ \cup {j}]

applyUpdateAction(j) ==
    /\ jobs[j].pc = "update"
    /\ LET k == Current(j)
           i == jobs[j].plan[k].target
       IN  IF Alive(i)
           THEN /\ Rewrite(i, mergeMetadata(mem[i], j))
                /\ Settle(j, k, "applied")
           ELSE UNCHANGED <<mem, unseen>> /\ ApplyFails(j, k)
    /\ UNCHANGED faults

ApplyErrs(j) ==
    /\ jobs[j].pc = "update" /\ Fault
    /\ ApplyFails(j, Current(j))
    /\ UNCHANGED <<mem, unseen>>

-----------------------------------------------------------------------------
(* The terminal record.                                                    *)

NoiseReason(body) == body # <<>> /\ ToSet(body) \subseteq Chores

\* A plausible slip: grouping by the project alone, as before T130.
findConsolidationTarget_byContext(j) ==
    LET found == {i \in Listed(j) : IsTerminalRecord(i)}
    IN  IF found = {} THEN 0 ELSE CHOOSE i \in found : \A o \in found : o <= i

\* The most recent terminal record of the same agent session.
findConsolidationTarget(j) ==
    LET found == {i \in Listed(j) : IsTerminalRecord(i) /\ mem[i].sid = jobs[j].sid}
    IN  IF found = {} THEN 0 ELSE CHOOSE i \in found : \A o \in found : o <= i

\* The raw text is the last action: not asked for, refused as noise, or it
\* looks for the record there is and reads its text.
LookUp(j) ==
    LET i == findConsolidationTarget(j) IN
    /\ jobs[j].pc = "lookup"
    /\ IF ~jobs[j].raw \/ NoiseReason(jobs[j].body) THEN Goto(j, "persist")
       ELSE jobs' = [jobs EXCEPT ![j].target = i, ![j].pc = "save",
                                 ![j].read = IF i = 0 THEN <<>> ELSE mem[i].body]
    /\ UNCHANGED <<mem, unseen, faults>>

\* With so few lines, a text that contains all of the other stands for one
\* that overlaps it by 0.95 and is longer.
shouldReplaceContent(current, candidate) ==
    ToSet(current) \subseteq ToSet(candidate) /\ Len(candidate) > Len(current)

\* Text j is folded into rec: it replaces the record's text if it extends the
\* one that was read, and is dropped otherwise.  A replacement may overwrite
\* what another close has put there since.
Folded(rec, j) ==
    LET text == IF shouldReplaceContent(jobs[j].read, jobs[j].body)
                THEN jobs[j].body ELSE rec.body
        kept == {o \in rec.from : ToSet(rec.body) \subseteq ToSet(text)}
                  \cup {o \in {j} : ToSet(jobs[j].body) \subseteq ToSet(text)}
    IN  [rec EXCEPT !.body = text, !.from = kept,
                    !.dropped = (@ \cup rec.from \cup {j}) \ kept]

\* Terminal records that the job could know of when it began.
Earlier(j) == {i \in jobs[j].knew : IsTerminalRecord(i)}

SaveRawSummary(j) ==
    LET i == jobs[j].target
    IN  /\ jobs[j].pc = "save"
        /\ IF i = 0
           THEN Store(j, Record("session_summary", jobs[j].body, jobs[j].sid, j, Earlier(j)))
           ELSE Rewrite(i, Folded(mem[i], j))
        /\ Goto(j, "persist")
        /\ UNCHANGED faults

\* The close is over, and with it what it had planned.
SaveFails(j) ==
    /\ jobs[j].pc = "save" /\ Fault
    /\ Finish(j, "failed") /\ UNCHANGED <<mem, unseen>>

\* The steps of a close that writes, in the order of their program counter.
Analyze(j) ==
    \/ planActions(j) \/ executeActions(j) \/ applyUpdateAction(j)
    \/ LookUp(j) \/ SaveRawSummary(j)

-----------------------------------------------------------------------------
(* Checkpoints.                                                            *)

LastInContext(j) ==
    LET found == {i \in Listed(j) : mem[i].kind = "session_checkpoint"}
    IN  IF found = {} THEN 0 ELSE CHOOSE i \in found : \A o \in found : o <= i

\* The same lines have a similarity of one; a line more or less, below 0.85.
Similar(a, b) == ToSet(a) = ToSet(b)

\* The gate of hooks.Check: an empty text, noise, or the last checkpoint again.
Gated(j) ==
    \/ jobs[j].body = <<>> \/ NoiseReason(jobs[j].body)
    \/ /\ LastInContext(j) # 0
       /\ Similar(jobs[j].body, mem[LastInContext(j)].body)

Check(j) ==
    /\ jobs[j].pc = "check"
    /\ IF Gated(j) THEN Finish(j, "skipped") ELSE Goto(j, "store")
    /\ UNCHANGED <<mem, unseen, faults>>

\* A hook that captures a whole session passes the same gate first.
CheckCapture(j) ==
    /\ jobs[j].pc = "gate"
    /\ IF Gated(j) THEN Finish(j, "skipped") ELSE Goto(j, "plan")
    /\ UNCHANGED <<mem, unseen, faults>>

\* A dead context fails the embedding, not the write.
SaveCheckpoint(j, cancelled) ==
    /\ jobs[j].pc = "store"
    /\ Store(j, [Record("session_checkpoint", jobs[j].body, jobs[j].sid, j, {})
                 EXCEPT !.vector = ~cancelled])
    /\ Finish(j, "done") /\ UNCHANGED faults

SaveCheckpointFails(j) ==
    /\ jobs[j].pc = "store" /\ Fault
    /\ Finish(j, "failed") /\ UNCHANGED <<mem, unseen>>

-----------------------------------------------------------------------------
(* The review queue.                                                       *)

\* The queue items of a close: one record for each action left to review.
Queued(j, k) ==
    \E i \in Ids : /\ mem[i].kind = "review_queue_item" /\ mem[i].from = {j}
                   /\ mem[i].body = <<jobs[j].plan[k].line>>

Pending(j) == {k \in DOMAIN jobs[j].plan \ jobs[j].sent :
                  jobs[j].plan[k].state = "review_required"}

Unsent(j) == CHOOSE k \in Pending(j) : \A o \in Pending(j) : k <= o

\* resolve_review_item, or one of the items of resolve_review_queue: the item
\* is kept and marked, whatever the resolution.
ResolveReviewItem(i) ==
    /\ Alive(i) /\ mem[i].kind = "review_queue_item" /\ i \notin unseen
    /\ mem[i].state = "review_required"
    /\ Rewrite(i, [mem[i] EXCEPT !.state = "resolved"])
    /\ UNCHANGED <<jobs, faults>>

\* Another request deletes a knowledge item.
DeleteKnowledge(i) ==
    /\ Alive(i) /\ mem[i].kind = "knowledge_item"
    /\ Rewrite(i, [mem[i] EXCEPT !.alive = FALSE])
    /\ UNCHANGED <<jobs, faults>>

\* The server's watcher reloads its cache.
ReloadCache ==
    /\ unseen # {} /\ unseen' = {}
    /\ UNCHANGED <<mem, jobs, faults>>
=============================================================================
