--------------------------- MODULE SessionTracker ---------------------------
(***************************************************************************)
(* The server's session tracker: tool calls are collected into the current *)
(* session, which ends on an idle timer, on a notification, or when the    *)
(* server shuts down, and is then closed by the session-close service;     *)
(* checkpoints are saved meanwhile by at most two background workers.      *)
(* Requests close sessions of their own and reset the tracker, and hook    *)
(* processes close and checkpoint sessions that carry an id.               *)
(* A handler's part under the tracker's mutex is one step.                 *)
(***************************************************************************)
EXTENDS SessionClose

CONSTANTS
    NoSession,
    MinEvents,      \* lines that make a session worth closing
    Heavy,          \* lines that do on their own
    MaxActivities,  \* lines a session keeps
    Workers,        \* capacity of the checkpoint semaphore
    SuppressReviewQueue,
    KnownLines,     \* knowledge items the bank starts with
    TrackedLines,   \* lines that tool calls and notifications bring
    Requested,      \* arguments of the manual closes: a subset of Args
    OtherLines,     \* texts of manual closes and of hooks
    MaxInputs       \* bound on calls, notifications, requests and hooks

ASSUME TrackerAssumption ==
    /\ NoSession \notin Seq(Lines) /\ Heavy \subseteq Lines
    /\ MinEvents \in Nat \ {0} /\ MaxActivities \in Nat \ {0}
    /\ Workers \in Nat /\ SuppressReviewQueue \in BOOLEAN
    /\ TrackedLines \cup OtherLines \subseteq Lines /\ KnownLines \in Seq(Lines)
    /\ MaxInputs \in Nat

VARIABLES
    current,  \* lines of the current session, or NoSession
    timer,    \* none, armed, or fired and not cleared yet
    fired,    \* idle callbacks that wait for the mutex
    phase,    \* of Close: open, draining, flushing, closed, stopped
    inputs    \* counter for the bound

tracker == <<current, timer, fired, phase>>
trackerVars == <<session, tracker, inputs>>

Input == inputs < MaxInputs /\ inputs' = inputs + 1

Closed == phase # "open"

TrackerInit ==
    /\ mem = SomeKnowledge(KnownLines) /\ unseen = {} /\ jobs = <<>> /\ faults = 0
    /\ current = NoSession /\ timer = "none" /\ fired = 0 /\ phase = "open"
    /\ inputs = 0

hasEnoughTrackedMaterial(body) ==
    /\ body # <<>>
    /\ Len(body) >= MinEvents \/ ToSet(body) \cap Heavy # {}

\* The same line twice in a row is kept once; the oldest lines go.
appendActivity(body, line) ==
    IF body # <<>> /\ Last(body) = line THEN body
    ELSE LET longer == Append(body, line)
         IN  SubSeq(longer, IF Len(longer) > MaxActivities
                            THEN Len(longer) - MaxActivities + 1 ELSE 1, Len(longer))

Body == IF current = NoSession THEN <<>> ELSE current

\* A session that is flushed: closed when it has enough material, or dropped.
flushSession(who, body, pc) ==
    IF hasEnoughTrackedMaterial(body)
    THEN Begin(NewJob(who, NoSid, body, TRUE, TRUE, pc))
    ELSE UNCHANGED jobs

-----------------------------------------------------------------------------
(* Tool calls.                                                             *)

\* The locked part of HandleToolCall.  When a checkpoint is due, the request
\* holds a copy of the session and has yet to hand it to a worker.
HandleToolCall(line, due) ==
    /\ Input
    /\ ~Closed
    /\ current' = appendActivity(Body, line)
    /\ timer' = "armed"
    /\ IF due THEN Begin(NewJob("worker", NoSid, current', FALSE, TRUE, "post"))
              ELSE UNCHANGED jobs
    /\ UNCHANGED <<mem, unseen, faults, fired, phase>>

IsWorker(j) == jobs[j].who = "worker"

\* Held from the post until the worker is done.
Held == {j \in Job : IsWorker(j) /\ jobs[j].pc \in {"acquired", "check", "store"}}

\* What the wait group counts.
Registered == {j \in Job : IsWorker(j) /\ jobs[j].pc \in {"check", "store"}}

\* saveCheckpoint: a full pool drops the request.
AcquireWorker(j) ==
    /\ jobs[j].pc = "post"
    /\ IF Cardinality(Held) < Workers THEN Goto(j, "acquired") ELSE Finish(j, "dropped")
    /\ UNCHANGED <<mem, unseen, faults, tracker, inputs>>

\* With little material the worker has nothing to do.
StartWorker(j) ==
    IF hasEnoughTrackedMaterial(jobs[j].body) THEN Goto(j, "check")
    ELSE Finish(j, "skipped")

\* A plausible slip: registering without a look at closed.
RegisterWorker_late(j) ==
    /\ jobs[j].pc = "acquired" /\ StartWorker(j)
    /\ UNCHANGED <<mem, unseen, faults, tracker, inputs>>

RegisterWorker(j) ==
    /\ jobs[j].pc = "acquired"
    /\ IF Closed THEN Finish(j, "dropped") ELSE StartWorker(j)
    /\ UNCHANGED <<mem, unseen, faults, tracker, inputs>>

-----------------------------------------------------------------------------
(* Notifications and manual boundaries.                                    *)

\* A notification's line is added whatever it says.
applySessionNotification(line) == Append(Body, line)

\* Under the lock: the session is taken, with the line of the notification.
flushWithNotification(line) ==
    /\ Input
    /\ ~Closed
    /\ flushSession("notice", applySessionNotification(line), "plan")
    /\ current' = NoSession /\ timer' = "none"
    /\ UNCHANGED <<mem, unseen, faults, fired, phase>>

\* A plausible slip: the timer is stopped as a flush stops it.
forceCheckpoint_stops(line) ==
    /\ Input
    /\ ~Closed
    /\ LET body == applySessionNotification(line)
       IN  IF hasEnoughTrackedMaterial(body)
           THEN Begin(NewJob("forced", NoSid, body, FALSE, TRUE, "check"))
           ELSE UNCHANGED jobs
    /\ timer' = "none"
    /\ UNCHANGED <<mem, unseen, faults, current, fired, phase>>

\* The session goes on; the checkpoint is saved in the caller's goroutine,
\* which the wait group does not count.
forceCheckpoint(line) ==
    /\ Input
    /\ ~Closed
    /\ LET body == applySessionNotification(line)
       IN  IF hasEnoughTrackedMaterial(body)
           THEN Begin(NewJob("forced", NoSid, body, FALSE, TRUE, "check"))
           ELSE UNCHANGED jobs
    /\ UNCHANGED <<mem, unseen, faults, tracker>>

\* The flags of close_session and analyze_session, each of which may be absent.
Args == [dry_run : {"yes", "no", "absent"}, save_raw : {"yes", "no", "absent"},
         auto_apply_low_risk : {"yes", "no", "absent"}]

callAcceptSessionChanges ==
    [dry_run |-> "no", save_raw |-> "yes", auto_apply_low_risk |-> "yes"]

DryRun(a) == \/ a.dry_run = "yes"
             \/ a.dry_run = "absent" /\ a.save_raw # "yes"
                                     /\ a.auto_apply_low_risk # "yes"

Refused(a) == DryRun(a) /\ (a.save_raw = "yes" \/ a.auto_apply_low_risk = "yes")

\* What the tracker takes for a close that wrote.
sessionToolWrites(a) ==
    a.dry_run = "no" \/ a.save_raw = "yes" \/ a.auto_apply_low_risk = "yes"

\* The tracker and the tool agree on which closes write.
ASSUME ResetsAreCloses ==
    /\ Requested \subseteq Args
    /\ \A a \in Args : ~Refused(a) => (sessionToolWrites(a) <=> ~DryRun(a))

\* A close that writes; the text is the caller's.  Any other only reads.
runSessionAnalysis(line, a) ==
    /\ Input
    /\ phase # "stopped"
    /\ ~Refused(a) /\ ~DryRun(a)
    /\ Begin(NewJob("request", NoSid, <<line>>, a.auto_apply_low_risk = "yes",
                    a.save_raw = "yes", "plan"))
    /\ UNCHANGED <<mem, unseen, faults, tracker>>

\* The tool call that closed the session resets the tracker on its way out,
\* closed or not.
handleManualSessionBoundary(j) ==
    /\ jobs[j].who = "request" /\ jobs[j].pc = "persist"
    /\ Finish(j, "done")
    /\ current' = NoSession /\ timer' = "none"
    /\ UNCHANGED <<mem, unseen, faults, fired, phase, inputs>>

\* A notification says that a new session begins.
reset ==
    /\ Input
    /\ current # NoSession \/ timer # "none"
    /\ current' = NoSession /\ timer' = "none"
    /\ UNCHANGED <<session, fired, phase>>

\* Notifications: "reset", "checkpoint" and "pre_compact", "task_done" and
\* "final_summary".
HandleNotification(line) ==
    reset \/ forceCheckpoint(line) \/ flushWithNotification(line)

-----------------------------------------------------------------------------
(* The idle timer.                                                         *)

TimerFires ==
    /\ timer = "armed"
    /\ timer' = "fired" /\ fired' = fired + 1
    /\ UNCHANGED <<session, current, phase, inputs>>

\* The callback takes whatever session is current by now.
flushFromIdle ==
    /\ fired > 0 /\ fired' = fired - 1
    /\ IF Closed THEN UNCHANGED <<current, timer, jobs>>
       ELSE /\ flushSession("idle", Body, "plan")
            /\ current' = NoSession /\ timer' = "none"
    /\ UNCHANGED <<mem, unseen, faults, phase, inputs>>

-----------------------------------------------------------------------------
(* Shutdown.                                                               *)

\* Close: from here on nothing new begins.  It takes the session, and waits
\* for the registered workers.
Close ==
    /\ phase = "open" /\ phase' = "draining"
    /\ flushSession("shutdown", Body, "wait")
    /\ current' = NoSession /\ timer' = "none"
    /\ UNCHANGED <<mem, unseen, faults, fired, inputs>>

\* The session is flushed in place.
CloseFlushes ==
    /\ phase = "draining" /\ Registered = {}
    /\ phase' = "flushing"
    /\ jobs' = [j \in Job |-> IF jobs[j].pc = "wait"
                             THEN [jobs[j] EXCEPT !.pc = "plan"] ELSE jobs[j]]
    /\ UNCHANGED <<mem, unseen, faults, current, timer, fired, inputs>>

\* The background context is cancelled.
CloseCancels ==
    /\ phase = "flushing"
    /\ \A j \in Job : jobs[j].who = "shutdown" => jobs[j].pc \in Over
    /\ phase' = "closed"
    /\ UNCHANGED <<session, current, timer, fired, inputs>>

\* The server goes on to close the store, and what still runs fails.
CloseStore ==
    /\ phase = "closed" /\ phase' = "stopped"
    /\ jobs' = [j \in Job |->
                  IF jobs[j].who = "hook" \/ jobs[j].pc \in Over
                  THEN jobs[j] ELSE Ended(jobs[j], "failed")]
    /\ UNCHANGED <<mem, unseen, faults, current, timer, fired, inputs>>

-----------------------------------------------------------------------------
(* Hooks: auto-capture at the end of an agent's session, and checkpoint.   *)

\* One that is not given a hook event has no id, like a manual close.
AutoCapture(sid, line) ==
    /\ Input
    /\ Begin(NewJob("hook", sid, <<line>>, TRUE, TRUE, "gate"))
    /\ UNCHANGED <<mem, unseen, faults, tracker>>

\* Nothing reads the id of a checkpoint.
HookCheckpoint(line) ==
    /\ Input
    /\ Begin(NewJob("hook", NoSid, <<line>>, FALSE, TRUE, "check"))
    /\ UNCHANGED <<mem, unseen, faults, tracker>>

\* accept-session, a process of its own: the whole close, or the raw text only.
runSessionCommand(line, rawOnly) ==
    /\ Input
    /\ Begin(NewJob("hook", NoSid, <<line>>, TRUE, TRUE,
                    IF rawOnly THEN "lookup" ELSE "plan"))
    /\ UNCHANGED <<mem, unseen, faults, tracker>>

-----------------------------------------------------------------------------
(* Steps of the closes.                                                    *)

IsTracked(j) == jobs[j].who \in {"idle", "notice", "shutdown"}

\* One working memory for each action left to review.
persistReviewQueue(j) ==
    /\ jobs[j].pc = "persist" /\ IsTracked(j)
    /\ IF SuppressReviewQueue \/ Pending(j) = {}
       THEN Finish(j, "done") /\ UNCHANGED <<mem, unseen>>
       ELSE LET k == Unsent(j)
            IN  /\ Store(j, Record("review_queue_item", <<jobs[j].plan[k].line>>,
                                   NoSid, j, {}))
                /\ jobs' = [jobs EXCEPT ![j].sent = @ \cup {k}]
    /\ UNCHANGED faults

\* One that cannot be stored ends the loop: the rest is not tried.
PersistFails(j) ==
    /\ jobs[j].pc = "persist" /\ IsTracked(j) /\ Pending(j) # {}
    /\ ~SuppressReviewQueue /\ Fault
    /\ Finish(j, "failed") /\ UNCHANGED <<mem, unseen>>

HookEnds(j) ==
    /\ jobs[j].pc = "persist" /\ jobs[j].who = "hook"
    /\ Finish(j, "done") /\ UNCHANGED <<mem, unseen, faults>>

\* The tracker's checkpoints run under the context that Close cancels.
Cancelled(j) == jobs[j].who \in {"worker", "forced"} /\ phase = "closed"

Progress(j) ==
    /\ \/ Analyze(j) \/ persistReviewQueue(j) \/ HookEnds(j)
       \/ CheckCapture(j) \/ Check(j) \/ SaveCheckpoint(j, Cancelled(j))
    /\ UNCHANGED <<tracker, inputs>>

JobFails(j) ==
    /\ ApplyErrs(j) \/ SaveFails(j) \/ SaveCheckpointFails(j) \/ PersistFails(j)
    /\ UNCHANGED <<tracker, inputs>>

Advance(j) == \/ Progress(j) \/ AcquireWorker(j) \/ RegisterWorker(j)
              \/ handleManualSessionBoundary(j)

\* Other requests delete knowledge and resolve items of the queue.
OtherRequest ==
    /\ Input /\ phase # "stopped"
    /\ \E i \in Ids : DeleteKnowledge(i) \/ ResolveReviewItem(i)
    /\ UNCHANGED tracker

WatcherReloads == ReloadCache /\ phase # "stopped" /\ UNCHANGED <<tracker, inputs>>

\* What goes on without anyone asking: timers fire, goroutines that wait for
\* a mutex get it, and a close or checkpoint that began goes on.
Unprompted ==
    \/ TimerFires \/ flushFromIdle
    \/ CloseFlushes \/ CloseCancels
    \/ \E j \in Job : Advance(j)

TrackerNext ==
    \/ \E l \in TrackedLines, due \in BOOLEAN : HandleToolCall(l, due)
    \/ \E l \in TrackedLines : HandleNotification(l)
    \/ \E l \in OtherLines, a \in Requested : runSessionAnalysis(l, a)
    \/ \E l \in OtherLines, rawOnly \in BOOLEAN : runSessionCommand(l, rawOnly)
    \/ \E s \in Sids, l \in OtherLines : AutoCapture(s, l)
    \/ \E l \in OtherLines : HookCheckpoint(l)
    \/ OtherRequest \/ WatcherReloads
    \/ Unprompted
    \/ \E j \in Job : JobFails(j)
    \/ Close \/ CloseStore

\* The runtime does not leave all of that waiting for ever.
TrackerSpec == TrackerInit /\ [][TrackerNext]_trackerVars /\ WF_trackerVars(Unprompted)

-----------------------------------------------------------------------------
(* Properties.                                                             *)

\* A checkpoint that was handed to a worker is saved before the tracker's
\* context dies: Close has waited for it, or it declined.  (A forced one runs
\* in its request, and is not waited for.)
CheckpointsDrained ==
    \A i \in Ids : (mem[i].kind = "session_checkpoint"
                    /\ \E j \in mem[i].from : IsWorker(j)) => mem[i].vector

\* A tracked session that was closed without an error has had all its lines
\* dealt with: each one that carries knowledge went into the item it updates
\* or into the review queue, and the text is in a terminal record, unless it
\* is noise, or was folded into a record that holds another text of the same
\* agent session (of any session, for those without an id) and dropped.
Dealt(j, k) ==
    LET a == jobs[j].plan[k]
    IN  \/ a.state = "applied" /\ j \in mem[a.target].from
        \/ a.state = "review_required" /\ (SuppressReviewQueue \/ Queued(j, k))

TextHeld(j, i) ==
    IF j \in mem[i].dropped THEN mem[i].from \ {j} # {}
    ELSE j \in mem[i].from /\ ToSet(jobs[j].body) \subseteq ToSet(mem[i].body)

SettledWhenDone ==
    \A j \in Job : IsTracked(j) /\ jobs[j].pc # "done" /\ jobs'[j].pc = "done" =>
        /\ \A k \in DOMAIN jobs[j].plan : Dealt(j, k)
        /\ \/ NoiseReason(jobs[j].body)
           \/ \E i \in Ids : IsTerminalRecord(i) /\ TextHeld(j, i)

CandidatesSettled == [][SettledWhenDone]_trackerVars

\* An agent session has one terminal record, and to itself: what is folded
\* into a record comes from the session it names, and a second record for a
\* session is made only by a close that began before it could know the first.
OneSummaryPerSession ==
    \A i \in Ids : IsTerminalRecord(i) =>
        /\ \A j \in mem[i].from \cup mem[i].dropped : jobs[j].sid = mem[i].sid
        /\ \A o \in Ids \ {i} :
              IsTerminalRecord(o) /\ mem[o].sid = mem[i].sid => o \notin mem[i].knew

\* Activity that is tracked does not stay in the tracker: when the calls stop
\* the session ends, and a shutdown comes to its end.
SessionEnds ==
    /\ (current # NoSession) ~> (current = NoSession)
    /\ (phase = "draining") ~> (phase \in {"closed", "stopped"})
=============================================================================
