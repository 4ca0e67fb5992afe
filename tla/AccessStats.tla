---------------------------- MODULE AccessStats ----------------------------
(***************************************************************************)
(* Access accounting of memory.Store: Recall hands what it returned to a   *)
(* bounded channel without ever waiting, one worker drains the channel     *)
(* into two batches (targeted recalls and sweeps apart) and commits each   *)
(* batch in one transaction, and Close drains what is left.  The server's  *)
(* shutdown decides when Close runs, and how it ends decides who may still *)
(* be in Recall then: http.Server.Shutdown reads no more requests and      *)
(* waits, RunStdio abandons a loop that goes on reading them.              *)
(*                                                                         *)
(* One commit of this module is one flushCommit of MemoryStore, which      *)
(* models what the commit does to the rows and to the cache.               *)
(***************************************************************************)
EXTENDS Integers, Sequences, FiniteSets

CONSTANTS
    Rows,        \* records a recall can return
    Requests,    \* goroutines serving requests
    QueueCap,    \* capacity of accessCh (64 in the code)
    MaxBatch,    \* ids that force a flush (100 in the code)
    MaxRecalls,  \* bound on the requests of a behaviour
    Faults       \* subset of FaultKinds

\* "shutdown_timeout": a request outlives the wait of ShutdownDrained.
\* "listener_fails": Serve returns, and RunHTTP with it.
FaultKinds == {"flush_fails", "shutdown_timeout", "listener_fails"}

ASSUME AccessAssumption ==
    /\ QueueCap \in Nat \ {0} /\ MaxBatch \in Nat \ {0} /\ MaxRecalls \in Nat
    /\ Faults \subseteq FaultKinds /\ IsFiniteSet(Requests)

VARIABLES
    queue,     \* ms.accessCh
    closed,    \* close(ms.accessCh) has run
    batch,     \* the worker's two batches
    todo,      \* batches flush() has still to write, in order
    worker,    \* "run", "last" (channel closed and empty), "stopped"
    access,    \* access_count of each row
    targeted,  \* targeted_access_count of each row
    doing,     \* each request: "idle", "reading", "found" (a result set)
    req,       \* result set a request has found and not yet recorded
    transport, \* cfg.HTTP.Mode: "http" or "stdio"
    front,     \* reading requests: "open", "stopped" or "abandoned"
    stage,     \* the server: "serving", "draining", "closing", "closed"
    panicked,  \* requests that sent on the closed channel
    late,      \* requests the store was closed under
    strays,    \* requests an abandoned front has read since the shutdown began
    asked,     \* ghost: bounded recalls that returned each id
    accepted,  \* ghost: of those, the ones the channel took
    lost,      \* ghost: ids of targeted batches whose transaction failed
    recalls    \* counter for MaxRecalls

accessVars ==
    <<queue, closed, batch, todo, worker, access, targeted, doing, req,
      transport, front, stage, panicked, late, strays, asked, accepted, lost,
      recalls>>

rowVars == <<access, targeted, lost>>
workerVars == <<batch, todo, worker>>
requestVars == <<doing, req, strays>>
serverVars == <<transport, front, stage, late>>
ghostVars == <<asked, accepted>>

\* Which of the worker's two batches an event goes to: ev.targeted.
Batches == {"targeted", "sweep"}

Event == [ids : SUBSET Rows, into : Batches]

NoEvent == [ids |-> {}, into |-> "sweep"]

AccessInit ==
    /\ queue = <<>> /\ closed = FALSE
    /\ batch = [t \in Batches |-> {}] /\ todo = <<>> /\ worker = "run"
    /\ access = [i \in Rows |-> 0] /\ targeted = [i \in Rows |-> 0]
    /\ doing = [r \in Requests |-> "idle"] /\ req = [r \in Requests |-> NoEvent]
    /\ transport \in {"http", "stdio"} /\ front = "open" /\ stage = "serving"
    /\ panicked = {} /\ late = {} /\ strays = {} /\ lost = {}
    /\ asked = [i \in Rows |-> 0] /\ accepted = [i \in Rows |-> 0]
    /\ recalls = 0

\* f with one more for the ids of S.
plusOne(f, S) == [i \in Rows |-> IF i \in S THEN f[i] + 1 ELSE f[i]]

-----------------------------------------------------------------------------
(* Requests.                                                               *)

Busy == {r \in Requests : doing[r] # "idle"}

\* A request is read and handled; serveStdio handles one at a time.
RequestArrives(r) ==
    /\ front # "stopped" /\ doing[r] = "idle" /\ recalls < MaxRecalls
    /\ transport = "stdio" => Busy = {}
    /\ doing' = [doing EXCEPT ![r] = "reading"]
    /\ strays' = IF stage = "serving" THEN strays ELSE strays \cup {r}
    /\ recalls' = recalls + 1
    /\ UNCHANGED <<queue, closed, workerVars, rowVars, req, serverVars, panicked,
                   ghostVars>>

\* Its recall has scored the ids and read their rows, which a closed file
\* refuses; limit > 0 makes the recall a targeted one.
RecallFinds(r, S, t) ==
    /\ doing[r] = "reading"
    /\ S # {} => stage # "closed"
    /\ doing' = [doing EXCEPT ![r] = "found"]
    /\ req' = [req EXCEPT ![r] = [ids |-> S, into |-> t]]
    /\ asked' = IF t = "targeted" THEN plusOne(asked, S) ELSE asked
    /\ UNCHANGED <<queue, closed, workerVars, rowVars, strays, serverVars,
                   panicked, accepted, recalls>>

\* The request was no recall, or an error ended it.
RequestEnds(r) ==
    /\ doing[r] = "reading"
    /\ doing' = [doing EXCEPT ![r] = "idle"]
    /\ UNCHANGED <<queue, closed, workerVars, rowVars, req, strays, serverVars,
                   panicked, ghostVars, recalls>>

\* select { case ms.accessCh <- ev: default: }.  A closed channel is ready
\* for a send, and the send panics.
RecallRecords(r) ==
    /\ doing[r] = "found"
    /\ doing' = [doing EXCEPT ![r] = "idle"]
    /\ req' = [req EXCEPT ![r] = NoEvent]
    /\ IF closed
       THEN panicked' = panicked \cup {r} /\ UNCHANGED <<queue, accepted>>
       ELSE IF Len(queue) < QueueCap
       THEN /\ queue' = Append(queue, req[r])
            /\ accepted' = IF req[r].into = "targeted"
                           THEN plusOne(accepted, req[r].ids) ELSE accepted
            /\ UNCHANGED panicked
       ELSE UNCHANGED <<queue, accepted, panicked>>
    /\ UNCHANGED <<closed, workerVars, rowVars, strays, serverVars, asked,
                   recalls>>

-----------------------------------------------------------------------------
(* accessStatsWorker.                                                      *)

\* Mutant: one batch for targeted recalls and sweeps.
WorkerReceives_mixed ==
    /\ worker = "run" /\ todo = <<>> /\ queue # <<>>
    /\ batch' = [batch EXCEPT !["targeted"] = @ \cup Head(queue).ids]
    /\ queue' = Tail(queue)
    /\ UNCHANGED <<closed, todo, worker, rowVars, requestVars,
                   serverVars, panicked, ghostVars, recalls>>

\* Rows repeated within a batch count once.
WorkerReceives ==
    /\ worker = "run" /\ todo = <<>> /\ queue # <<>>
    /\ LET ev == Head(queue)
           b  == batch[ev.into] \cup ev.ids
       IN /\ batch' = [batch EXCEPT ![ev.into] = b]
          /\ todo' = IF Cardinality(b) >= MaxBatch THEN <<ev.into>> ELSE <<>>
    /\ queue' = Tail(queue)
    /\ UNCHANGED <<closed, worker, rowVars, requestVars, serverVars, panicked,
                   ghostVars, recalls>>

\* Mutant: the timer writes the targeted batch only.
WorkerTimer_targeted ==
    /\ worker = "run" /\ todo = <<>>
    /\ \E t \in Batches : batch[t] # {}
    /\ todo' = <<"targeted">>
    /\ UNCHANGED <<queue, closed, batch, worker, rowVars, requestVars,
                   serverVars, panicked, ghostVars, recalls>>

\* The five-second timer: flush() writes the targeted batch, then the sweeps.
WorkerTimer ==
    /\ worker = "run" /\ todo = <<>>
    /\ \E t \in Batches : batch[t] # {}
    /\ todo' = <<"targeted", "sweep">>
    /\ UNCHANGED <<queue, closed, batch, worker, rowVars, requestVars,
                   serverVars, panicked, ghostVars, recalls>>

\* Mutant: the worker leaves without its last flush().
WorkerClosed_drops ==
    /\ worker = "run" /\ todo = <<>> /\ closed /\ queue = <<>>
    /\ worker' = "last"
    /\ UNCHANGED <<queue, closed, batch, todo, rowVars, requestVars,
                   serverVars, panicked, ghostVars, recalls>>

\* Mutant: the receive does not look at ok, so a closed channel yields empty
\* events for ever.
WorkerClosed_polls ==
    /\ worker = "run" /\ todo = <<>> /\ closed /\ queue = <<>>
    /\ todo' = <<"targeted", "sweep">>
    /\ UNCHANGED <<queue, closed, batch, worker, rowVars, requestVars,
                   serverVars, panicked, ghostVars, recalls>>

\* The channel is closed and drained: one last flush().
WorkerClosed ==
    /\ worker = "run" /\ todo = <<>> /\ closed /\ queue = <<>>
    /\ worker' = "last"
    /\ todo' = <<"targeted", "sweep">>
    /\ UNCHANGED <<queue, closed, batch, rowVars, requestVars,
                   serverVars, panicked, ghostVars, recalls>>

\* flushOne empties the batch before flushAccessStats, whose transaction may
\* fail: then the batch is lost.
flushOne ==
    /\ todo # <<>>
    /\ LET t == Head(todo)
           S == batch[t]
       IN /\ batch' = [batch EXCEPT ![t] = {}]
          /\ \/ /\ access' = plusOne(access, S)
                /\ targeted' = IF t = "targeted" THEN plusOne(targeted, S) ELSE targeted
                /\ UNCHANGED lost
             \/ /\ "flush_fails" \in Faults
                /\ lost' = IF t = "targeted" THEN lost \cup S ELSE lost
                /\ UNCHANGED <<access, targeted>>
    /\ todo' = Tail(todo)
    /\ UNCHANGED <<queue, closed, worker, requestVars, serverVars, panicked,
                   ghostVars, recalls>>

WorkerStops ==
    /\ worker = "last" /\ todo = <<>>
    /\ worker' = "stopped"
    /\ UNCHANGED <<queue, closed, batch, todo, rowVars, requestVars,
                   serverVars, panicked, ghostVars, recalls>>

-----------------------------------------------------------------------------
(* Shutdown: RunHTTP or RunStdio returns, then MCPServer.Shutdown runs and *)
(* Store.Close with it.                                                    *)

\* http.Server.Shutdown closes the listener and the idle connections.
StopListening ==
    /\ stage = "serving" /\ transport = "http"
    /\ stage' = "draining" /\ front' = "stopped"
    /\ UNCHANGED <<queue, closed, workerVars, rowVars, requestVars, transport,
                   late, panicked, ghostVars, recalls>>

\* readMessage of serveStdio finds the end of stdin.
StdinCloses ==
    /\ transport = "stdio" /\ front # "stopped" /\ Busy = {}
    /\ front' = "stopped"
    /\ stage' = IF stage = "serving" THEN "draining" ELSE stage
    /\ UNCHANGED <<queue, closed, workerVars, rowVars, requestVars, transport,
                   late, panicked, ghostVars, recalls>>

\* A signal ends RunStdio and not its loop, which cannot be interrupted; an
\* error of the listener ends RunHTTP and not the open connections.
AbandonLoop ==
    /\ stage = "serving"
    /\ transport = "http" => "listener_fails" \in Faults
    /\ stage' = "draining" /\ front' = "abandoned"
    /\ UNCHANGED <<queue, closed, workerVars, rowVars, requestVars, transport,
                   late, panicked, ghostVars, recalls>>

\* Mutant: Close does not wait for the requests in flight.
ShutdownDrained_early ==
    /\ stage = "draining"
    /\ stage' = "closing"
    /\ closed' = TRUE
    /\ UNCHANGED <<queue, workerVars, rowVars, requestVars, transport, front,
                   late, panicked, ghostVars, recalls>>

\* http Shutdown waits for the requests in flight, for ten seconds at most;
\* nobody waits for those of an abandoned front.
ShutdownDrained ==
    /\ stage = "draining"
    /\ front = "stopped" /\ Busy # {} => "shutdown_timeout" \in Faults
    /\ late' = Busy
    /\ stage' = "closing"
    /\ closed' = TRUE
    /\ UNCHANGED <<queue, workerVars, rowVars, requestVars, transport, front,
                   panicked, ghostVars, recalls>>

\* accessWG.Wait, db.Close.
CloseReturns ==
    /\ stage = "closing" /\ worker = "stopped"
    /\ stage' = "closed"
    /\ UNCHANGED <<queue, closed, workerVars, rowVars, requestVars, transport,
                   front, late, panicked, ghostVars, recalls>>

-----------------------------------------------------------------------------
Recall(r) == \/ RequestArrives(r) \/ RequestEnds(r)
             \/ \E S \in SUBSET Rows, t \in Batches : RecallFinds(r, S, t)
             \/ RecallRecords(r)

Worker == WorkerReceives \/ WorkerTimer \/ WorkerClosed \/ flushOne
            \/ WorkerStops

StoreCloses == \/ StopListening \/ StdinCloses \/ AbandonLoop
               \/ ShutdownDrained \/ CloseReturns

AccessNext == (\E r \in Requests : Recall(r)) \/ Worker \/ StoreCloses

AccessSpec == AccessInit /\ [][AccessNext]_accessVars

\* The worker goroutine and the requests in flight keep running; select
\* picks at random among ready cases, so neither the timer nor the channel
\* is starved for ever.
AccessFairness ==
    /\ \A r \in Requests : WF_accessVars(RecallRecords(r))
    /\ SF_accessVars(WorkerReceives) /\ SF_accessVars(WorkerTimer)
    /\ WF_accessVars(WorkerClosed) /\ WF_accessVars(flushOne) /\ WF_accessVars(WorkerStops)
    /\ WF_accessVars(ShutdownDrained) /\ WF_accessVars(CloseReturns)

AccessFairSpec == AccessSpec /\ AccessFairness

-----------------------------------------------------------------------------
(* Properties.                                                             *)

TypeOK ==
    /\ queue \in Seq(Event) /\ Len(queue) <= QueueCap
    /\ closed \in BOOLEAN
    /\ panicked \subseteq Requests /\ late \subseteq Requests
    /\ strays \subseteq Requests /\ lost \subseteq Rows
    /\ batch \in [Batches -> SUBSET Rows] /\ todo \in Seq(Batches)
    /\ worker \in {"run", "last", "stopped"}
    /\ access \in [Rows -> Nat] /\ targeted \in [Rows -> Nat]
    /\ doing \in [Requests -> {"idle", "reading", "found"}]
    /\ req \in [Requests -> Event]
    /\ \A r \in Requests : doing[r] # "found" => req[r] = NoEvent
    /\ transport \in {"http", "stdio"}
    /\ front \in {"open", "stopped", "abandoned"}
    /\ stage \in {"serving", "draining", "closing", "closed"}
    /\ asked \in [Rows -> Nat] /\ accepted \in [Rows -> Nat]
    /\ recalls \in Nat

\* The sediment gate's counter never claims more use than there was: it is
\* at most the number of bounded recalls that returned the record, however
\* recalls and sweeps interleave.
TargetedNeverExceedsAsked == \A i \in Rows : targeted[i] <= asked[i]

\* Close loses nothing the channel took: a record some bounded recall handed
\* over has been counted when the worker is gone, or its transaction failed.
DrainedOnClose ==
    worker = "stopped" =>
        \A i \in Rows : accepted[i] > 0 => targeted[i] > 0 \/ i \in lost

\* A send on the channel Close has closed, whose panic costs a finished recall
\* its answer, only ever hits a request nobody waits for: one the shutdown gave
\* up on, or one that a loop abandoned by RunStdio, or a connection left open
\* by a RunHTTP whose listener failed, has read since.
NoSendOnClosed == panicked \subseteq late \cup strays

\* Whatever was batched is written out, sweeps as well as targeted recalls,
\* and Close comes back.
BatchIsFlushed ==
    \A t \in Batches, i \in Rows : i \in batch[t] ~> i \notin batch[t]

CloseTerminates == stage = "closing" ~> stage = "closed"
=============================================================================
