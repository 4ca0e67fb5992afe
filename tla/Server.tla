-------------------------------- MODULE Server --------------------------------
(***************************************************************************)
(* One server process from the load of its configuration to its exit:       *)
(* the watcher of the config file and SIGHUP, which reload it, the RAG       *)
(* engine a reload replaces, the sediment, archive and steward schedulers,   *)
(* and the order in which Shutdown takes all of them down.                   *)
(* (cmd/agent-memory-mcp/main.go, internal/server, internal/config/watcher,  *)
(* internal/steward/scheduler)                                              *)
(*                                                                         *)
(* A configuration in use is [file, by]: the version of the file it was      *)
(* read from and who read it.  Versions stand for the contents, so that a    *)
(* state is small; Loaded says what a version means.                         *)
(***************************************************************************)
EXTENDS Config, FiniteSets, TLC

CONSTANTS
  Versions,     \* names of contents of the config file
  ContentOf,    \* what each says: a sequence of lines, or Missing, or Unreadable
  LaterFiles,   \* the rest of the chain of files, which nobody edits
  Explicit,     \* 1 when --config names the file, 0 when the chain is searched
  SavedMode,    \* the steward policy mode the bank remembers
  SameTick,     \* may an edit leave the modification time where it was?
  MaxEdits, MaxSignals, MaxCloses, MaxFaults

ASSUME ServerBounds ==
  /\ Explicit \in {0, 1} /\ SameTick \in BOOLEAN
  /\ {MaxEdits, MaxSignals, MaxCloses, MaxFaults} \subseteq Nat

None == "none"
Jobs == {"sediment", "archive"}

Chain(v)     == <<ContentOf[v]>> \o LaterFiles
Tabulate(Of(_)) == FoldSet(LAMBDA v, table : (v :> Of(v)) @@ table, <<>>, Versions)
Loaded       == Tabulate(LAMBDA v : LoadFromFile(ContentOf[v]))
Boots        == Tabulate(LAMBDA v : Load(Chain(v), Explicit))
Effective(c) == IF c.by = "start" THEN Boots[c.file] ELSE Loaded[c.file]

VARIABLES
  file,      \* the version in the config file
  moved,     \* is its modification time later than the watcher's lastMtime?
  watch,     \* the watcher: [pc, current, next, failed, stop]
  signals,   \* SIGHUPs in the channel
  reload,    \* the reload under way, which holds reloadMu: [by, file, pc]
  config,    \* s.config
  engine,    \* s.ragEngine, by number; 0 is nil
  made,      \* who had each engine made, in order
  running,   \* the engines that are not stopped
  indexing,  \* the engines whose background run is under way
  job,       \* the interval schedulers: [pc, cancelled, gaveUp]
  steward,   \* its scheduler: [on, mode, triggers, pc, snap]
  written, scanned,  \* session closes stored, and how many a finished scan covered
  serving,   \* where the process is: boot, serving, the steps of Shutdown, down
  bounds     \* what is left of MaxEdits, MaxSignals and MaxFaults

watchVars   == <<file, moved, watch>>
reloadVars  == <<signals, reload, config>>
engineVars  == <<engine, made, running, indexing>>
stewardVars == <<steward, written, scanned>>
vars == <<watchVars, reloadVars, engineVars, job, stewardVars, serving, bounds>>

Spend(kind) == bounds[kind] > 0 /\ bounds' = [bounds EXCEPT ![kind] = @ - 1]

-------------------------------------------------------------------------------
(* Start                                                                   *)

\* serve has loaded its configuration, and New has not begun.
Init ==
  /\ file \in {v \in Versions : Boots[v] # LoadError
                                /\ loadDotEnvFiles(Chain(v), Explicit).resolved \in {0, 1}}
  /\ moved = FALSE
  /\ watch = [pc |-> "off", current |-> NoConfig, next |-> None, failed |-> FALSE, stop |-> FALSE]
  /\ signals = 0
  /\ reload = [by |-> None, file |-> None, pc |-> None]
  /\ config = [file |-> file, by |-> "start"]
  /\ engine = 0 /\ made = <<>> /\ running = {} /\ indexing = {}
  /\ job = [j \in Jobs |-> [pc |-> "off", cancelled |-> FALSE, gaveUp |-> FALSE]]
  /\ steward = [on |-> FALSE, mode |-> SavedMode, triggers |-> 0, pc |-> "idle", snap |-> 0]
  /\ written = 0 /\ scanned = 0
  /\ serving = "boot"
  /\ bounds \in [edits : 0..MaxEdits, signals : 0..MaxSignals, faults : 0..MaxFaults]

\* An engine that starts looks at once whether there is something to index.
NewEngine(by) ==
  LET n == Len(made) + 1 IN
  /\ made' = Append(made, by)
  /\ engine' = n
  /\ running' = running \union {n}
  /\ indexing' \in {indexing, indexing \union {n}}

newScheduler(j, enabled) ==
  [job[j] EXCEPT !.pc = IF ~enabled THEN "off" ELSE IF j = "archive" THEN "delay" ELSE "wait"]

\* The mode of the policy is overridden from the environment alone: one that
\* stands in the config file is not looked up.
StewardMode(c) == IF "MCP_STEWARD_MODE" \in DOMAIN Environment THEN c.stewardMode ELSE SavedMode

\* An engine that does not come up leaves the server without one.
initRAGEngine(c) == \/ c.ragEnabled /\ NewEngine("start")
                    \/ UNCHANGED engineVars

initStewardService(c) ==
  [steward EXCEPT !.mode = StewardMode(c),
                  !.on = /\ c.stewardEnabled /\ c.memoryEnabled
                         /\ StewardMode(c) \in {"scheduled", "event_driven"}]

\* New, then the watcher when there is a file to watch.
Boot ==
  LET c == Effective(config) IN
  /\ serving = "boot" /\ serving' = "serving"
  /\ initRAGEngine(c)
  /\ job' = [j \in Jobs |-> newScheduler(j, c.memoryEnabled /\
                              IF j = "archive" THEN c.archiveSweep ELSE c.sediment)]
  /\ steward' = initStewardService(c)
  /\ watch' = [watch EXCEPT !.pc = IF loadDotEnvFiles(Chain(config.file), Explicit).resolved = 0
                                   THEN "off" ELSE "stat"]
  /\ UNCHANGED <<file, moved, reloadVars, written, scanned, bounds>>

-------------------------------------------------------------------------------
(* The config file and its watcher                                         *)

\* Somebody saves another version.
EditFile ==
  /\ serving # "down" /\ Spend("edits")
  /\ file' \in Versions \ {file}
  /\ moved' \in IF SameTick THEN {moved, TRUE} ELSE {TRUE}
  /\ UNCHANGED <<watch, reloadVars, engineVars, job, stewardVars, serving>>

WatcherKeeps == UNCHANGED <<file, reloadVars, engineVars, job, stewardVars, serving>>

\* The first look: the time is taken, then the file is read.
WatcherStarts ==
  /\ watch.pc = "stat"
  /\ moved' = FALSE
  /\ watch' = [watch EXCEPT !.pc = "first"]
  /\ WatcherKeeps /\ UNCHANGED bounds

WatcherFirstLoad ==
  /\ watch.pc = "first"
  /\ watch' = [watch EXCEPT !.pc = "wait", !.current = IF Loaded[file] = LoadError
                                                        THEN NoConfig ELSE file]
  /\ WatcherKeeps /\ UNCHANGED <<moved, bounds>>

\* A tick sees a later modification time, and notes it before it reads.
WatcherSees ==
  /\ watch.pc = "wait" /\ moved /\ ContentOf[file] # Missing
  /\ moved' = FALSE
  /\ watch' = [watch EXCEPT !.pc = "load"]
  /\ WatcherKeeps /\ UNCHANGED bounds

\* A configuration that cannot be used is left until the next edit.
WatcherLoads ==
  /\ watch.pc = "load"
  /\ watch' = IF \/ Loaded[file] = LoadError
                 \/ ~ragConfigChanged(IF watch.current = NoConfig THEN NoConfig
                                      ELSE Loaded[watch.current], Loaded[file])
              THEN [watch EXCEPT !.pc = "wait", !.failed = FALSE]
              ELSE [watch EXCEPT !.pc = "apply", !.next = file, !.failed = FALSE]
  /\ WatcherKeeps /\ UNCHANGED <<moved, bounds>>

\* The read itself fails: the time stays noted.
WatcherFailsToRead ==
  /\ watch.pc = "load" /\ Spend("faults")
  /\ watch' = [watch EXCEPT !.pc = "wait", !.failed = TRUE]
  /\ WatcherKeeps /\ UNCHANGED moved

\* Mutant: the time is noted once what was read goes in.
WatcherApplies_noted ==
  /\ watch.pc = "apply" /\ reload.pc = None /\ moved' = FALSE
  /\ reload' = [by |-> "watch", file |-> watch.next, pc |-> "swap"]
  /\ watch' = [watch EXCEPT !.pc = "applying"]
  /\ UNCHANGED <<file, signals, config, engineVars, job, stewardVars, serving, bounds>>

\* ApplyReload: what was read goes in under reloadMu, whenever that is free.
WatcherApplies ==
  /\ watch.pc = "apply" /\ reload.pc = None
  /\ reload' = [by |-> "watch", file |-> watch.next, pc |-> "swap"]
  /\ watch' = [watch EXCEPT !.pc = "applying"]
  /\ UNCHANGED <<file, moved, signals, config, engineVars, job, stewardVars, serving, bounds>>

WatcherStops ==
  /\ watch.pc = "wait" /\ watch.stop
  /\ watch' = [watch EXCEPT !.pc = "stopped"]
  /\ WatcherKeeps /\ UNCHANGED <<moved, bounds>>

Watcher == \/ WatcherStarts \/ WatcherFirstLoad \/ WatcherSees \/ WatcherLoads
           \/ WatcherApplies \/ WatcherStops

-------------------------------------------------------------------------------
(* Reloading                                                               *)

\* The channel holds one signal; another one is dropped.
Hangup ==
  /\ serving \notin {"boot", "down"} /\ Spend("signals")
  /\ signals' = 1
  /\ UNCHANGED <<watchVars, reload, config, engineVars, job, stewardVars, serving>>

\* ReloadFromFile takes reloadMu and reads the file under it.
HangupHandled ==
  /\ serving # "down" /\ signals = 1 /\ reload.pc = None
  /\ signals' = 0
  /\ IF loadDotEnvFiles(Chain(config.file), Explicit).resolved = 0 THEN UNCHANGED reload
     ELSE reload' = [by |-> "hup", file |-> None, pc |-> "load"]
  /\ UNCHANGED <<watchVars, config, engineVars, job, stewardVars, serving, bounds>>

NoReload == [by |-> None, file |-> None, pc |-> None]

HangupLoads ==
  /\ serving # "down" /\ reload.pc = "load"
  /\ reload' = IF Loaded[file] = LoadError THEN NoReload
               ELSE [reload EXCEPT !.file = file, !.pc = "swap"]
  /\ UNCHANGED <<watchVars, signals, config, engineVars, job, stewardVars, serving, bounds>>

\* The watcher learns that its callback is over, and remembers what it applied.
Released(by) == IF by = "watch"
                THEN watch' = [watch EXCEPT !.pc = "wait", !.current = watch.next, !.next = None]
                ELSE UNCHANGED watch

\* ReloadConfig, under ragMu: the configuration first, whatever becomes of the engine.
ReloadSwaps ==
  /\ serving # "down" /\ reload.pc = "swap"
  /\ config' = [file |-> reload.file, by |-> reload.by]
  /\ reload' = [reload EXCEPT !.pc = IF engine = 0 THEN "build" ELSE "stop"]
  /\ UNCHANGED <<watchVars, signals, engineVars, job, stewardVars, serving, bounds>>

\* Stop waits for the background run of the engine to end by itself.
ReloadStops ==
  /\ serving # "down" /\ reload.pc = "stop" /\ engine \notin indexing
  /\ running' = running \ {engine}
  /\ engine' = 0
  /\ reload' = [reload EXCEPT !.pc = "build"]
  /\ UNCHANGED <<watchVars, signals, config, made, indexing, job, stewardVars, serving, bounds>>

ReloadBuilds ==
  /\ serving # "down" /\ reload.pc = "build"
  /\ IF Loaded[reload.file].ragEnabled THEN NewEngine(reload.by) ELSE UNCHANGED engineVars
  /\ reload' = NoReload
  /\ Released(reload.by)
  /\ UNCHANGED <<file, moved, signals, config, job, stewardVars, serving, bounds>>

\* The engine does not come up: the server goes on without one.
ReloadBuildFails ==
  /\ serving # "down" /\ reload.pc = "build" /\ Loaded[reload.file].ragEnabled /\ Spend("faults")
  /\ reload' = NoReload
  /\ Released(reload.by)
  /\ UNCHANGED <<file, moved, signals, config, engineVars, job, stewardVars, serving>>

Reload == ReloadSwaps \/ ReloadStops \/ ReloadBuilds

\* autoIndexIfNeeded and the runs of the file watcher of an engine.
IndexEnds ==
  /\ serving # "down" /\ \E e \in indexing : indexing' = indexing \ {e}
  /\ UNCHANGED <<watchVars, reloadVars, engine, made, running, job, stewardVars, serving, bounds>>

-------------------------------------------------------------------------------
(* The interval schedulers                                                 *)

JobKeeps == UNCHANGED <<watchVars, reloadVars, engineVars, stewardVars, serving, bounds>>

\* A tick, or the end of the initial delay.  The archive sweep first takes a
\* snapshot of the configuration, which a reload holds back.
JobBegins(j) ==
  /\ serving # "down" /\ job[j].pc \in {"delay", "wait"}
  /\ j = "archive" => reload.pc \notin {"stop", "build"}
  /\ job' = [job EXCEPT ![j].pc = "run"]
  /\ JobKeeps

JobEnds(j) ==
  /\ serving # "down" /\ job[j].pc = "run"
  /\ job' = [job EXCEPT ![j].pc = "wait"]
  /\ JobKeeps

\* The loop sees the cancelled context, when it is not chosen to run once more.
JobStops(j) ==
  /\ serving # "down" /\ job[j].pc \in {"delay", "wait"} /\ job[j].cancelled
  /\ job' = [job EXCEPT ![j].pc = "done"]
  /\ JobKeeps

-------------------------------------------------------------------------------
(* The steward's scheduler                                                 *)

StewardKeeps == UNCHANGED <<watchVars, reloadVars, engineVars, job, serving>>

\* A session is closed and stored; the event starts a goroutine when the
\* scheduler runs and the policy asks for it.
SessionCloses ==
  /\ serving = "serving" /\ written < MaxCloses
  /\ Effective(config).memoryEnabled
  /\ written' = written + 1
  /\ steward' = IF steward.on /\ steward.mode \in {"scheduled", "event_driven"}
                THEN [steward EXCEPT !.triggers = @ + 1] ELSE steward
  /\ StewardKeeps /\ UNCHANGED <<scanned, bounds>>

\* The flag runInFlight is taken by a trigger or by a tick of the loop.
StewardBegins(byTrigger) ==
  /\ serving # "down" /\ steward.pc = "idle"
  /\ IF byTrigger THEN steward.triggers > 0 ELSE steward.on
  /\ steward' = [steward EXCEPT !.pc = "begun", !.triggers = IF byTrigger THEN @ - 1 ELSE @]
  /\ StewardKeeps /\ UNCHANGED <<written, scanned, bounds>>

\* A trigger that finds a run in flight is dropped.
StewardCoalesces ==
  /\ serving # "down" /\ steward.pc # "idle" /\ steward.triggers > 0
  /\ steward' = [steward EXCEPT !.triggers = @ - 1]
  /\ StewardKeeps /\ UNCHANGED <<written, scanned, bounds>>

StewardScans ==
  /\ serving # "down" /\ steward.pc = "begun" /\ steward.mode # "off"
  /\ steward' = [steward EXCEPT !.pc = "scanning", !.snap = written]
  /\ StewardKeeps /\ UNCHANGED <<written, scanned, bounds>>

StewardFinishes ==
  /\ serving # "down" /\ steward.pc = "scanning"
  /\ scanned' = steward.snap
  /\ steward' = [steward EXCEPT !.pc = "idle", !.snap = 0]
  /\ StewardKeeps /\ UNCHANGED <<written, bounds>>

\* Mutant: the flag is given back on success only.
Idle_onSuccess(s) == [s EXCEPT !.pc = "kept", !.snap = 0]

\* A run that fails, or that the policy has turned off, gives the flag back.
Idle(s) == [s EXCEPT !.pc = "idle", !.snap = 0]

StewardFails ==
  /\ serving # "down" /\ steward.pc \in {"begun", "scanning"}
  /\ IF steward.pc = "begun" /\ steward.mode = "off" THEN UNCHANGED bounds ELSE Spend("faults")
  /\ steward' = Idle(steward)
  /\ StewardKeeps /\ UNCHANGED <<written, scanned>>

\* steward_policy changes the mode; the loop that was started, or was not, stays.
StewardPolicy ==
  /\ serving = "serving" /\ Effective(config).stewardEnabled /\ Spend("faults")
  /\ \E mode \in {"off", "manual", "scheduled"} \ {steward.mode} :
       steward' = [steward EXCEPT !.mode = mode]
  /\ StewardKeeps /\ UNCHANGED <<written, scanned>>

Steward == \/ \E byTrigger \in BOOLEAN : StewardBegins(byTrigger)
           \/ StewardCoalesces \/ StewardScans \/ StewardFinishes
           \/ steward.mode = "off" /\ StewardFails

-------------------------------------------------------------------------------
(* Shutdown.  The deferred calls of serve run in reverse: the watcher is     *)
(* stopped and waited for, then everything New has made, in this order.      *)

\* Mutant: the watcher is stopped after the server.
Phases_watcherLast == <<"serving", "steward", "sediment", "archive", "sessions", "engine",
                        "store", "watcher", "down">>

Phases == <<"serving", "watcher", "steward", "sediment", "archive", "sessions", "engine",
            "store", "down">>
Following(phase) == Phases[(CHOOSE i \in DOMAIN Phases : Phases[i] = phase) + 1]

Proceed == serving' = Following(serving)

\* stdin ends, or SIGTERM arrives.
Terminate ==
  /\ serving = "serving" /\ Proceed
  /\ watch' = [watch EXCEPT !.stop = TRUE]
  /\ UNCHANGED <<file, moved, reloadVars, engineVars, job, stewardVars, bounds>>

WatcherStopped ==
  /\ serving = "watcher" /\ watch.pc \in {"off", "stopped"} /\ Proceed
  /\ UNCHANGED <<watchVars, reloadVars, engineVars, job, stewardVars, bounds>>

\* Stop cancels and does not wait.
StewardStopped ==
  /\ serving = "steward" /\ Proceed
  /\ steward' = [steward EXCEPT !.on = FALSE]
  /\ UNCHANGED <<watchVars, reloadVars, engineVars, job, written, scanned, bounds>>

\* Close of an interval scheduler: cancel, then wait, but only for so long.
JobCancelled(j) ==
  /\ serving = j /\ job[j].pc # "off" /\ ~job[j].cancelled
  /\ job' = [job EXCEPT ![j].cancelled = TRUE]
  /\ UNCHANGED <<watchVars, reloadVars, engineVars, stewardVars, serving, bounds>>

JobClosed(j) ==
  /\ serving = j /\ Proceed
  /\ \/ job[j].pc = "off"
     \/ job[j].cancelled /\ job[j].pc = "done"
  /\ UNCHANGED <<watchVars, reloadVars, engineVars, job, stewardVars, bounds>>

JobGivenUp(j) ==
  /\ serving = j /\ Proceed /\ job[j].cancelled /\ job[j].pc # "done"
  /\ job' = [job EXCEPT ![j].gaveUp = TRUE]
  /\ UNCHANGED <<watchVars, reloadVars, engineVars, stewardVars, bounds>>

SessionsClosed ==
  /\ serving = "sessions" /\ Proceed
  /\ UNCHANGED <<watchVars, reloadVars, engineVars, job, stewardVars, bounds>>

\* The engine the server has now, read without ragMu, is stopped: its
\* background run is waited for, a reload under way is not.
EngineStopped ==
  /\ serving = "engine" /\ engine \notin indexing /\ Proceed
  /\ running' = running \ {engine}
  /\ UNCHANGED <<watchVars, reloadVars, engine, made, indexing, job, stewardVars, bounds>>

\* The store is closed, and the process ends with whatever still runs.
StoreClosed ==
  /\ serving = "store" /\ Proceed
  /\ UNCHANGED <<watchVars, reloadVars, engineVars, job, stewardVars, bounds>>

Shutdown == \/ WatcherStopped \/ StewardStopped \/ SessionsClosed \/ EngineStopped \/ StoreClosed
            \/ \E j \in Jobs : JobCancelled(j) \/ JobClosed(j)

Down == serving = "down" /\ UNCHANGED vars

Next ==
  \/ Boot \/ EditFile \/ Watcher \/ WatcherFailsToRead
  \/ Hangup \/ HangupHandled \/ HangupLoads \/ Reload \/ ReloadBuildFails \/ IndexEnds
  \/ \E j \in Jobs : JobBegins(j) \/ JobEnds(j) \/ JobStops(j) \/ JobGivenUp(j)
  \/ SessionCloses \/ Steward \/ StewardFails \/ StewardPolicy
  \/ Terminate \/ Shutdown \/ Down

\* Goroutines that are ready get to run, tickers tick, and runs end.  Every
\* edit and every signal gives the first group finitely much to do, so that
\* none of its members can keep another one waiting for ever.
Background == Boot \/ Watcher \/ HangupHandled \/ HangupLoads \/ Reload \/ IndexEnds

Fairness == WF_vars(Background) /\ WF_vars(Steward)

Spec == Init /\ [][Next]_vars /\ Fairness
-------------------------------------------------------------------------------
(* Properties                                                              *)

\* Nothing is left at work that the server can no longer stop.  An engine a
\* reload has replaced is stopped before its successor exists, so that two of
\* them never index into one directory; and when the process ends, with store
\* and index closed, no engine runs but one that a SIGHUP brought up during
\* Shutdown, and no job but one that outlasted the wait of its Close.
\* (ReloadConfig, server.go:473; Shutdown, server.go:527; main.go:145)
NothingLeftRunning ==
  /\ running \subseteq {engine}
  /\ serving = "down" => /\ \A n \in running : made[n] = "hup"
                         /\ \A j \in Jobs : job[j].pc = "run" => job[j].gaveUp

\* The edit of a setting the watcher looks at ends up in effect, whatever
\* reloads, failures and further edits come between.  What stands apart: a
\* file that is gone or says nothing usable, one the watcher could not read
\* when it noted its time, and one that says what the watcher applied last
\* while the configuration came from the start or from a SIGHUP, of which the
\* watcher knows nothing.
\* (Watcher.run, watcher.go:46)
Settled ==
  \/ ContentOf[file] = Missing \/ Loaded[file] = LoadError \/ watch.failed
  \/ watch.pc = "off"
  \/ ~ragConfigChanged(Effective(config), Loaded[file])
  \/ /\ config.by # "watch" /\ watch.current # NoConfig
     /\ ~ragConfigChanged(Loaded[watch.current], Loaded[file])

EditsAreApplied == []<>(Settled \/ serving # "serving")

\* A session closed while the steward's scheduler runs is covered by a scan
\* that finishes, although its trigger may have been dropped in favour of a
\* scan that had already read the bank, and scans fail.
\* (runOnceWithCtx, scheduler.go:154)
WritesAreScanned ==
  []<>(scanned = written \/ ~steward.on \/ steward.mode = "off" \/ serving # "serving")
===============================================================================
