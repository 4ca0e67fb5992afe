----------------------------- MODULE ServerProofs -----------------------------
(***************************************************************************)
(* Proofs about what the server's own goroutines leave when it stops, one  *)
(* component after the other, in the order in which Shutdown stops them:   *)
(* Server (the watcher, the engines and the jobs), SessionTracker (the     *)
(* sessions and checkpoints) and AccessStats (the store's worker).         *)
(*                                                                         *)
(* Server, for every set of versions of the config file and every number   *)
(* of edits, signals and faults: two engines never index into one          *)
(* directory, and what the process leaves at work when it ends is what     *)
(* Shutdown could not stop.                                                *)
(* SessionTracker, for every text, every number of workers, inputs and     *)
(* failed writes: a checkpoint that a worker had accepted is saved whole,  *)
(* an agent session has one summary, and a tracked session that is done    *)
(* has every candidate applied or queued for review.                       *)
(* AccessStats, for every set of ids and of requests, every capacity of    *)
(* the channel and every batch size: a record's targeted count never       *)
(* exceeds the bounded recalls that returned it, Close loses nothing the   *)
(* channel took, and only an abandoned request meets a closed channel.     *)
(***************************************************************************)
EXTENDS Server, SessionTracker, AccessStats, SequenceTheorems, FunctionTheorems,
        FiniteSetTheorems, WellFoundedInduction, TLAPS

-----------------------------------------------------------------------------
(* Server.                                                                 *)

\* The fields the argument looks at.
Shape ==
  /\ file \in Versions
  /\ watch \in [pc : {"off", "stat", "first", "wait", "load", "apply", "applying", "stopped"},
                current : Versions \union {NoConfig, None},
                next : Versions \union {None},
                failed : BOOLEAN, stop : BOOLEAN]
  /\ signals \in {0, 1}
  /\ reload \in [by : {None, "watch", "hup"}, file : Versions \union {None},
                 pc : {None, "load", "swap", "stop", "build"}]
  /\ engine \in Nat /\ made \in Seq({"start", "watch", "hup"})
  /\ running \subseteq 1..Len(made)
  /\ job \in [Jobs -> [pc : {"off", "delay", "wait", "run", "done"},
                       cancelled : BOOLEAN, gaveUp : BOOLEAN]]
  /\ serving \in {"boot", "serving", "watcher", "steward", "sediment", "archive",
                  "sessions", "engine", "store", "down"}

\* Before New nothing is there to be reloaded or stopped.
BootFirst == serving = "boot" =>
  watch.pc = "off" /\ signals = 0 /\ reload.pc = None /\ running = {}

\* An engine is made when there is none.
OneEngine == running \subseteq {engine} /\ (reload.pc = "build" => running = {})

\* Shutdown waits for the watcher before anything else.
WatcherGone ==
  serving \in {"steward", "sediment", "archive", "sessions", "engine", "store", "down"}
    => watch.pc \in {"off", "stopped"}

\* A reload is the watcher's, and then the watcher waits for it, or a SIGHUP's.
ReloadAsked ==
  reload.pc # None => \/ reload.by = "hup"
                      \/ reload.by = "watch" /\ watch.pc = "applying"

\* After the engine was stopped, only a SIGHUP has brought one up.
EnginesOver == serving \in {"store", "down"} => \A n \in running : made[n] = "hup"

Passed(j) == serving \in {"sessions", "engine", "store", "down"}
             \union (IF j = "sediment" THEN {"archive"} ELSE {})

\* A job that was closed has stopped, or was given up.
JobsOver == \A j \in Jobs : Passed(j) => job[j].pc \in {"off", "done"} \/ job[j].gaveUp

IInv == /\ Shape /\ BootFirst /\ OneEngine /\ WatcherGone /\ ReloadAsked
        /\ EnginesOver /\ JobsOver

LEMMA InitSound == Init => IInv
  <1> SUFFICES ASSUME Init PROVE IInv
    OBVIOUS
  <1>1. Shape
    BY DEF Init, Shape, None, Jobs
  <1> QED
    BY <1>1 DEF Init, IInv, BootFirst, OneEngine, WatcherGone, ReloadAsked, EnginesOver,
         JobsOver, Passed, None

\* The order in which Shutdown proceeds.
LEMMA Order ==
  /\ Following("serving") = "watcher" /\ Following("watcher") = "steward"
  /\ Following("steward") = "sediment" /\ Following("sediment") = "archive"
  /\ Following("archive") = "sessions" /\ Following("sessions") = "engine"
  /\ Following("engine") = "store" /\ Following("store") = "down"
  BY DEF Following, Phases

-------------------------------------------------------------------------------
(* Steps                                                                   *)

\* What the invariant speaks of.
coreVars == <<watch, signals, reload, engine, made, running, job, serving>>

LEMMA CoreUnchanged ==
  ASSUME IInv, UNCHANGED coreVars, file' \in Versions PROVE IInv'
  BY DEF IInv, coreVars, Shape, BootFirst, OneEngine, WatcherGone, ReloadAsked,
       EnginesOver, JobsOver, Passed

\* The watcher by itself.
LEMMA WatcherStep ==
  ASSUME IInv, \/ WatcherStarts \/ WatcherFirstLoad \/ WatcherSees \/ WatcherLoads
               \/ WatcherStops \/ WatcherFailsToRead
  PROVE  IInv'
  <1>1. /\ watch' \in [pc : {"first", "wait", "load", "apply", "stopped"},
                       current : Versions \union {NoConfig, None},
                       next : Versions \union {None},
                       failed : BOOLEAN, stop : BOOLEAN]
        /\ watch.pc \in {"stat", "first", "wait", "load"}
    BY DEF WatcherStarts, WatcherFirstLoad, WatcherSees, WatcherLoads, WatcherStops,
         WatcherFailsToRead, IInv, Shape
  <1>2. UNCHANGED <<file, signals, reload, engine, made, running, job, serving>>
    BY DEF WatcherStarts, WatcherFirstLoad, WatcherSees, WatcherLoads, WatcherStops,
         WatcherFailsToRead, WatcherKeeps, reloadVars, engineVars
  <1>3. Shape'
    BY <1>1, <1>2 DEF IInv, Shape
  <1> QED
    BY <1>1, <1>2, <1>3 DEF IInv, Shape, BootFirst, OneEngine, WatcherGone, ReloadAsked,
         EnginesOver, JobsOver, Passed

LEMMA WatcherAppliesStep ==
  ASSUME IInv, WatcherApplies PROVE IInv'
  <1>1. /\ watch' = [watch EXCEPT !.pc = "applying"] /\ watch.pc = "apply"
        /\ reload' = [by |-> "watch", file |-> watch.next, pc |-> "swap"]
        /\ UNCHANGED <<file, signals, engine, made, running, job, serving>>
    BY DEF WatcherApplies, engineVars
  <1>2. Shape'
    BY <1>1 DEF IInv, Shape
  <1> QED
    BY <1>1, <1>2 DEF IInv, Shape, BootFirst, OneEngine, WatcherGone, ReloadAsked,
         EnginesOver, JobsOver, Passed, None

LEMMA HangupStep ==
  ASSUME IInv, Hangup \/ HangupHandled \/ HangupLoads PROVE IInv'
  <1>1. UNCHANGED <<file, watch, engine, made, running, job, serving>>
    BY DEF Hangup, HangupHandled, HangupLoads, watchVars, engineVars
  <1>2. signals' \in {0, 1} /\ (serving = "boot" => signals' = 0)
    BY DEF Hangup, HangupHandled, HangupLoads, IInv, Shape, BootFirst
  <1>3. \/ reload' = reload \/ reload' = NoReload
        \/ reload' = [by |-> "hup", file |-> None, pc |-> "load"] /\ serving # "boot"
        \/ reload.pc = "load" /\ reload' = [reload EXCEPT !.file = file, !.pc = "swap"]
    BY DEF Hangup, HangupHandled, HangupLoads, IInv, BootFirst
  <1>4. /\ reload' \in [by : {None, "watch", "hup"}, file : Versions \union {None},
                        pc : {None, "load", "swap", "stop", "build"}]
        /\ reload'.pc # "build" \/ reload' = reload
        /\ serving = "boot" => reload'.pc = None
        /\ reload'.pc # None => \/ reload'.by = "hup"
                                \/ reload'.by = "watch" /\ watch.pc = "applying"
    <2>0. Shape /\ (serving = "boot" => reload.pc = None) /\ ReloadAsked
      BY DEF IInv, BootFirst
    <2>1. CASE reload' = reload
      BY <2>0, <2>1 DEF Shape, ReloadAsked
    <2>2. CASE reload' = NoReload
      BY <2>2 DEF NoReload, None
    <2>3. CASE reload' = [by |-> "hup", file |-> None, pc |-> "load"] /\ serving # "boot"
      BY <2>3 DEF None
    <2>4. CASE /\ reload.pc = "load"
               /\ reload' = [reload EXCEPT !.file = file, !.pc = "swap"]
      <3>1. /\ reload' \in [by : {None, "watch", "hup"}, file : Versions \union {None},
                             pc : {"swap"}]
            /\ reload'.by = reload.by
        BY <2>0, <2>4 DEF Shape
      <3> QED
        BY <2>0, <2>4, <3>1 DEF ReloadAsked, None
    <2> QED
      BY <1>3, <2>1, <2>2, <2>3, <2>4
  <1>5. Shape'
    BY <1>1, <1>2, <1>4 DEF IInv, Shape
  <1> QED
    BY <1>1, <1>2, <1>4, <1>5 DEF IInv, BootFirst, OneEngine, WatcherGone, ReloadAsked,
         EnginesOver, JobsOver, Passed

LEMMA SwapStep ==
  ASSUME IInv, ReloadSwaps PROVE IInv'
  <1>1. /\ UNCHANGED <<file, watch, signals, engine, made, running, job, serving>>
        /\ reload.pc = "swap"
        /\ reload' = [reload EXCEPT !.pc = IF engine = 0 THEN "build" ELSE "stop"]
    BY DEF ReloadSwaps, watchVars, engineVars
  <1>2. /\ reload' \in [by : {None, "watch", "hup"}, file : Versions \union {None},
                        pc : {"stop", "build"}]
        /\ reload'.by = reload.by /\ (reload'.pc = "build" => engine = 0)
    BY <1>1 DEF IInv, Shape
  <1>3. Shape'
    BY <1>1, <1>2 DEF IInv, Shape
  <1>4. engine = 0 => running = {}
    BY DEF IInv, Shape, OneEngine
  <1> QED
    BY <1>1, <1>2, <1>3, <1>4 DEF IInv, BootFirst, OneEngine, WatcherGone, ReloadAsked,
         EnginesOver, JobsOver, Passed, None

LEMMA StopStep ==
  ASSUME IInv, ReloadStops PROVE IInv'
  <1>1. /\ UNCHANGED <<file, watch, signals, made, job, serving>>
        /\ reload.pc = "stop" /\ reload' = [reload EXCEPT !.pc = "build"]
        /\ running' = running \ {engine} /\ engine' = 0
    BY DEF ReloadStops, watchVars
  <1>2. running' = {}
    BY <1>1 DEF IInv, OneEngine
  <1>3. Shape'
    BY <1>1, <1>2 DEF IInv, Shape
  <1> QED
    BY <1>1, <1>2, <1>3 DEF IInv, Shape, BootFirst, OneEngine, WatcherGone, ReloadAsked,
         EnginesOver, JobsOver, Passed, None

\* What NewEngine, or its failure, leaves where there was no engine.
LEMMA EngineMade ==
  ASSUME IInv, running = {}, NEW by \in {"start", "watch", "hup"},
         NewEngine(by) \/ UNCHANGED engineVars
  PROVE  /\ engine' \in Nat /\ made' \in Seq({"start", "watch", "hup"})
         /\ running' \subseteq 1..Len(made') /\ running' \subseteq {engine'}
         /\ \A n \in running' : made'[n] = by
  <1>1. CASE NewEngine(by)
    <2>1. made \in Seq({"start", "watch", "hup"}) /\ Len(made) \in Nat
      BY DEF IInv, Shape
    <2>2. /\ engine' = Len(made) + 1 /\ running' = {Len(made) + 1}
          /\ made' = Append(made, by)
      BY <1>1 DEF NewEngine
    <2> QED
      BY <2>1, <2>2
  <1>2. CASE UNCHANGED engineVars
    BY <1>2 DEF engineVars, IInv, Shape
  <1> QED
    BY <1>1, <1>2

LEMMA BuildStep ==
  ASSUME IInv, ReloadBuilds \/ ReloadBuildFails PROVE IInv'
  <1>1. /\ UNCHANGED <<file, signals, job, serving>> /\ reload.pc = "build"
        /\ reload' = NoReload /\ Released(reload.by)
        /\ NewEngine(reload.by) \/ UNCHANGED engineVars
    BY DEF ReloadBuilds, ReloadBuildFails
  <1>2. /\ running = {} /\ serving # "boot"
        /\ reload.by \in {"start", "watch", "hup"}
        /\ reload.by = "watch" => watch.pc = "applying"
        /\ serving \in {"store", "down"} => reload.by = "hup"
    BY <1>1 DEF IInv, OneEngine, BootFirst, ReloadAsked, WatcherGone, None
  <1>3. /\ engine' \in Nat /\ made' \in Seq({"start", "watch", "hup"})
        /\ running' \subseteq 1..Len(made') /\ running' \subseteq {engine'}
        /\ \A n \in running' : made'[n] = reload.by
    BY <1>1, <1>2, EngineMade
  <1>4. \/ UNCHANGED watch
        \/ /\ watch' = [watch EXCEPT !.pc = "wait", !.current = watch.next, !.next = None]
           /\ watch.pc = "applying"
    BY <1>1, <1>2 DEF Released
  <1>5. Shape'
    BY <1>1, <1>3, <1>4 DEF IInv, Shape, NoReload
  <1>6. WatcherGone'
    BY <1>1, <1>4 DEF IInv, WatcherGone
  <1> QED
    BY <1>1, <1>2, <1>3, <1>5, <1>6 DEF IInv, BootFirst, OneEngine, ReloadAsked,
         EnginesOver, JobsOver, Passed, NoReload, None

LEMMA BootStep ==
  ASSUME IInv, Boot PROVE IInv'
  <1>1. /\ UNCHANGED <<file, signals, reload>> /\ serving = "boot" /\ serving' = "serving"
        /\ NewEngine("start") \/ UNCHANGED engineVars
        /\ job' \in [Jobs -> [pc : {"off", "delay", "wait", "run", "done"},
                              cancelled : BOOLEAN, gaveUp : BOOLEAN]]
        /\ watch' \in [pc : {"off", "stat"},
                       current : Versions \union {NoConfig, None},
                       next : Versions \union {None},
                       failed : BOOLEAN, stop : BOOLEAN]
    BY DEF Boot, initRAGEngine, newScheduler, reloadVars, IInv, Shape
  <1>2. running = {} /\ reload.pc = None
    BY <1>1 DEF IInv, BootFirst
  <1>3. /\ engine' \in Nat /\ made' \in Seq({"start", "watch", "hup"})
        /\ running' \subseteq 1..Len(made') /\ running' \subseteq {engine'}
    BY <1>1, <1>2, EngineMade
  <1>4. Shape'
    BY <1>1, <1>3 DEF IInv, Shape
  <1> QED
    BY <1>1, <1>2, <1>3, <1>4 DEF IInv, BootFirst, OneEngine, WatcherGone, ReloadAsked,
         EnginesOver, JobsOver, Passed, None

\* A job keeps what Close has made of it.
LEMMA JobChange ==
  ASSUME IInv, NEW j \in Jobs,
         NEW y \in [pc : {"off", "delay", "wait", "run", "done"},
                   cancelled : BOOLEAN, gaveUp : BOOLEAN],
         job[j].gaveUp => y.gaveUp,
         job[j].pc \in {"off", "done"} => y.pc = job[j].pc,
         job' = [job EXCEPT ![j] = y],
         UNCHANGED <<file, watch, signals, reload, engine, made, running, serving>>
  PROVE  IInv'
  <1>1. Shape'
    BY DEF IInv, Shape
  <1>2. \A k \in Jobs : job'[k] = IF k = j THEN y ELSE job[k]
    BY DEF IInv, Shape
  <1>3. JobsOver'
    BY <1>2 DEF IInv, JobsOver, Passed
  <1> QED
    BY <1>1, <1>3 DEF IInv, BootFirst, OneEngine, WatcherGone, ReloadAsked, EnginesOver

LEMMA JobStep ==
  ASSUME IInv, NEW j \in Jobs, JobBegins(j) \/ JobEnds(j) \/ JobStops(j) \/ JobCancelled(j)
  PROVE  IInv'
  <1>0. job[j] \in [pc : {"off", "delay", "wait", "run", "done"},
                    cancelled : BOOLEAN, gaveUp : BOOLEAN]
    BY DEF IInv, Shape
  <1>1. UNCHANGED <<file, watch, signals, reload, engine, made, running, serving>>
    BY DEF JobBegins, JobEnds, JobStops, JobCancelled, JobKeeps, watchVars, reloadVars,
         engineVars
  <1>2. ASSUME NEW p \in {"run", "wait", "done"}, job[j].pc \notin {"off", "done"},
               job' = [job EXCEPT ![j] = [job[j] EXCEPT !.pc = p]]
        PROVE  IInv'
    <2> DEFINE y == [job[j] EXCEPT !.pc = p]
    <2>1. /\ y \in [pc : {"off", "delay", "wait", "run", "done"},
                    cancelled : BOOLEAN, gaveUp : BOOLEAN]
          /\ y.gaveUp = job[j].gaveUp
      BY <1>0
    <2> HIDE DEF y
    <2>2. job' = [job EXCEPT ![j] = y]
      BY <1>2 DEF y
    <2> QED
      BY <1>1, <1>2, <2>1, <2>2, JobChange
  <1>3. ASSUME JobCancelled(j) PROVE IInv'
    <2> DEFINE y == [job[j] EXCEPT !.cancelled = TRUE]
    <2>1. /\ y \in [pc : {"off", "delay", "wait", "run", "done"},
                    cancelled : BOOLEAN, gaveUp : BOOLEAN]
          /\ y.gaveUp = job[j].gaveUp /\ y.pc = job[j].pc
      BY <1>0
    <2>2. job' = [job EXCEPT ![j] = y]
      BY <1>3 DEF JobCancelled
    <2> HIDE DEF y
    <2> QED
      BY <1>1, <2>1, <2>2, JobChange
  <1>4. ASSUME JobBegins(j) PROVE IInv'
    <2>1. job[j].pc \in {"delay", "wait"} /\ job' = [job EXCEPT ![j] = [job[j] EXCEPT !.pc = "run"]]
      BY <1>4 DEF JobBegins
    <2> QED
      BY <2>1, <1>2
  <1>5. ASSUME JobEnds(j) PROVE IInv'
    <2>1. job[j].pc = "run" /\ job' = [job EXCEPT ![j] = [job[j] EXCEPT !.pc = "wait"]]
      BY <1>5 DEF JobEnds
    <2> QED
      BY <2>1, <1>2
  <1>6. ASSUME JobStops(j) PROVE IInv'
    <2>1. job[j].pc \in {"delay", "wait"} /\ job' = [job EXCEPT ![j] = [job[j] EXCEPT !.pc = "done"]]
      BY <1>6 DEF JobStops
    <2> QED
      BY <2>1, <1>2
  <1> QED
    BY <1>3, <1>4, <1>5, <1>6


LEMMA TerminateStep ==
  ASSUME IInv, Terminate PROVE IInv'
  <1>1. /\ serving = "serving" /\ serving' = "watcher"
        /\ watch' = [watch EXCEPT !.stop = TRUE]
        /\ UNCHANGED <<file, signals, reload, engine, made, running, job>>
    BY Order DEF Terminate, Proceed, reloadVars, engineVars
  <1>2. /\ Shape' /\ watch'.pc = watch.pc
    BY <1>1 DEF IInv, Shape
  <1> QED
    BY <1>1, <1>2 DEF IInv, BootFirst, OneEngine, WatcherGone, ReloadAsked, EnginesOver,
         JobsOver, Passed

\* Steps of Shutdown that only proceed.
LEMMA PassedStep ==
  ASSUME IInv, \/ WatcherStopped \/ StewardStopped \/ SessionsClosed \/ StoreClosed
               \/ \E j \in Jobs : JobClosed(j)
  PROVE  IInv'
  <1>1. UNCHANGED <<file, watch, signals, reload, engine, made, running, job>>
    BY DEF WatcherStopped, StewardStopped, SessionsClosed, StoreClosed, JobClosed,
         watchVars, reloadVars, engineVars
  <1>2. \/ /\ serving = "watcher" /\ serving' = "steward"
           /\ watch.pc \in {"off", "stopped"}
        \/ serving = "steward" /\ serving' = "sediment"
        \/ serving = "sessions" /\ serving' = "engine"
        \/ serving = "store" /\ serving' = "down"
        \/ /\ serving = "sediment" /\ serving' = "archive"
           /\ job["sediment"].pc \in {"off", "done"}
        \/ /\ serving = "archive" /\ serving' = "sessions"
           /\ job["archive"].pc \in {"off", "done"}
    BY Order DEF WatcherStopped, StewardStopped, SessionsClosed, StoreClosed, JobClosed,
         Proceed, Jobs
  <1>3. Shape'
    BY <1>1, <1>2 DEF IInv, Shape
  <1>4. JobsOver'
    BY <1>1, <1>2 DEF IInv, JobsOver, Passed, Jobs
  <1>5. WatcherGone' /\ BootFirst' /\ OneEngine' /\ ReloadAsked' /\ EnginesOver'
    BY <1>1, <1>2 DEF IInv, BootFirst, OneEngine, WatcherGone, ReloadAsked, EnginesOver
  <1> QED
    BY <1>3, <1>4, <1>5 DEF IInv

LEMMA GivenUpStep ==
  ASSUME IInv, NEW j \in Jobs, JobGivenUp(j) PROVE IInv'
  <1>1. UNCHANGED <<file, watch, signals, reload, engine, made, running>>
    BY DEF JobGivenUp, watchVars, reloadVars, engineVars
  <1>2. \/ j = "sediment" /\ serving = "sediment" /\ serving' = "archive"
        \/ j = "archive" /\ serving = "archive" /\ serving' = "sessions"
    BY Order DEF JobGivenUp, Proceed, Jobs
  <1> DEFINE y == [job[j] EXCEPT !.gaveUp = TRUE]
  <1>3. job' = [job EXCEPT ![j] = y]
    BY DEF JobGivenUp
  <1>4. /\ y \in [pc : {"off", "delay", "wait", "run", "done"},
                 cancelled : BOOLEAN, gaveUp : BOOLEAN]
        /\ y.gaveUp
    BY DEF IInv, Shape
  <1> HIDE DEF y
  <1>5. Shape'
    BY <1>1, <1>2, <1>3, <1>4 DEF IInv, Shape
  <1>6. \A k \in Jobs : job'[k] = IF k = j THEN y ELSE job[k]
    BY <1>3 DEF IInv, Shape
  <1>7. JobsOver'
    BY <1>2, <1>4, <1>6 DEF IInv, JobsOver, Passed, Jobs
  <1> QED
    BY <1>1, <1>2, <1>5, <1>7 DEF IInv, BootFirst, OneEngine, WatcherGone, ReloadAsked,
         EnginesOver

LEMMA EngineStoppedStep ==
  ASSUME IInv, EngineStopped PROVE IInv'
  <1>1. /\ serving = "engine" /\ serving' = "store" /\ running' = running \ {engine}
        /\ UNCHANGED <<file, watch, signals, reload, engine, made, job>>
    BY Order DEF EngineStopped, Proceed, watchVars, reloadVars
  <1>2. running' = {}
    BY <1>1 DEF IInv, OneEngine
  <1>3. Shape'
    BY <1>1, <1>2 DEF IInv, Shape
  <1> QED
    BY <1>1, <1>2, <1>3 DEF IInv, BootFirst, OneEngine, WatcherGone, ReloadAsked,
         EnginesOver, JobsOver, Passed

\* Everything else leaves what the invariant speaks of alone.
LEMMA ElsewhereStep ==
  ASSUME IInv, \/ EditFile \/ IndexEnds \/ SessionCloses \/ Steward \/ StewardFails
               \/ StewardPolicy \/ Down \/ UNCHANGED vars
  PROVE  IInv'
  <1>1. UNCHANGED coreVars
    BY DEF EditFile, IndexEnds, SessionCloses, Steward, StewardBegins, StewardCoalesces,
         StewardScans, StewardFinishes, StewardFails, StewardPolicy, Down, vars, coreVars,
         StewardKeeps, watchVars, reloadVars, engineVars
  <1>2. file' \in Versions
    BY DEF EditFile, IndexEnds, SessionCloses, Steward, StewardBegins, StewardCoalesces,
         StewardScans, StewardFinishes, StewardFails, StewardPolicy, Down, vars,
         StewardKeeps, watchVars, IInv, Shape
  <1> QED
    BY <1>1, <1>2, CoreUnchanged

LEMMA Invariance == IInv /\ [Next]_vars => IInv'
  <1> SUFFICES ASSUME IInv, [Next]_vars PROVE IInv'
    OBVIOUS
  <1>1. CASE Boot
    BY <1>1, BootStep
  <1>2. CASE Watcher \/ WatcherFailsToRead
    BY <1>2, WatcherStep, WatcherAppliesStep DEF Watcher
  <1>3. CASE Hangup \/ HangupHandled \/ HangupLoads
    BY <1>3, HangupStep
  <1>4. CASE Reload \/ ReloadBuildFails
    BY <1>4, SwapStep, StopStep, BuildStep DEF Reload
  <1>5. CASE \E j \in Jobs : JobBegins(j) \/ JobEnds(j) \/ JobStops(j) \/ JobGivenUp(j)
    BY <1>5, JobStep, GivenUpStep
  <1>6. CASE Terminate
    BY <1>6, TerminateStep
  <1>7. CASE Shutdown
    BY <1>7, PassedStep, EngineStoppedStep, JobStep DEF Shutdown
  <1> QED
    BY <1>1, <1>2, <1>3, <1>4, <1>5, <1>6, <1>7, ElsewhereStep DEF Next

\* Nothing is left at work that the server can no longer stop: an engine is
\* made when its predecessor has been stopped (ReloadConfig), and the order of
\* Shutdown leaves only what a SIGHUP brings up after it and the jobs whose
\* Close it did not wait for to the end.
THEOREM NothingLeftRunningHolds == Spec => []NothingLeftRunning
  <1>1. IInv => NothingLeftRunning
    <2> SUFFICES ASSUME IInv PROVE NothingLeftRunning
      OBVIOUS
    <2>1. running \subseteq {engine}
      BY DEF IInv, OneEngine
    <2>2. serving = "down" => \A n \in running : made[n] = "hup"
      BY DEF IInv, EnginesOver
    <2>3. serving = "down" => \A j \in Jobs : job[j].pc = "run" => job[j].gaveUp
      BY DEF IInv, JobsOver, Passed
    <2> QED
      BY <2>1, <2>2, <2>3 DEF NothingLeftRunning
  <1> QED
    BY <1>1, InitSound, Invariance, PTL DEF Spec

-----------------------------------------------------------------------------
(* SessionTracker.                                                         *)

\* A close or a checkpoint, and what it has planned.
Actions ==
    [line : Lines, target : Nat, state : {"planned", "applied", "review_required"},
     kind : {"supersede", "update", "merge", "promote_canonical", "new"},
     handling : {"hard_review", "soft_review", "safe_auto_apply"}]

Plans == UNION {[D -> Actions] : D \in SUBSET Nat}

Works ==
    [who : {"worker", "forced", "request", "idle", "notice", "shutdown", "hook"},
     sid : Sids \cup {NoSid}, body : Seq(Lines), auto : BOOLEAN, raw : BOOLEAN,
     pc : {"post", "acquired", "wait", "gate", "check", "store", "plan", "act",
           "update", "lookup", "save", "persist"} \cup Over,
     plan : Plans, sent : SUBSET Nat, target : Nat, read : Seq(Lines),
     knew : SUBSET Nat]

Records ==
    [kind : {"knowledge_item", "session_summary", "session_checkpoint",
             "review_queue_item"},
     body : Seq(Lines), sid : Sids \cup {NoSid}, from : SUBSET Nat,
     dropped : SUBSET Nat, knew : SUBSET Nat,
     alive : BOOLEAN, state : {"review_required", "resolved"}, vector : BOOLEAN]

TrackerShape ==
    /\ mem \in Seq(Records) /\ jobs \in Seq(Works)
    /\ current \in Seq(Lines) \cup {NoSession}
    /\ phase \in {"open", "draining", "flushing", "closed", "stopped"}

\* The closes that record i of the bank m knows of, with or without their text.
Closes(m, i) == m[i].from \cup m[i].dropped

\* A summary holds the text of each close that it is said to hold the text of,
\* and of one at least.
TextSound(m, w, i) ==
    /\ m[i].from # {} /\ m[i].from \cap m[i].dropped = {}
    /\ \A j \in m[i].from : ToSet(w[j].body) \subseteq ToSet(m[i].body)

\* Record i of the bank m, which the closes w filled: what is in it comes from
\* closes there were, and a second summary of a session is made by a close
\* that could not know the first.
RecordSound(m, w, i) ==
    /\ Closes(m, i) \subseteq DOMAIN w /\ m[i].knew \subseteq DOMAIN m
    /\ m[i].kind = "session_summary" =>
         /\ m[i].alive /\ TextSound(m, w, i)
         /\ \A j \in Closes(m, i) : w[j].sid = m[i].sid
         /\ \A o \in DOMAIN m \ {i} :
              m[o].kind = "session_summary" /\ m[o].sid = m[i].sid => o \notin m[i].knew
    /\ m[i].kind = "session_checkpoint" =>
         \A j \in m[i].from : w[j].who = "worker" => m[i].vector

\* A close x, of which the bank m has the records v that its process has not
\* loaded: it plans and applies in turn, what it is to update is knowledge,
\* and the record it looks for is its session's.
CloseSound(m, v, x) ==
    /\ x.knew \subseteq DOMAIN m
    /\ x.who # "hook" => x.knew \cap v = {}
    /\ x.pc \in {"act", "update"} => \E k \in DOMAIN x.plan : x.plan[k].state = "planned"
    /\ x.pc \in {"lookup", "save", "persist"} =>
         \A k \in DOMAIN x.plan : x.plan[k].state # "planned"
    /\ \A k \in DOMAIN x.plan : x.plan[k].state = "planned" =>
         x.plan[k].target \in DOMAIN m /\ m[x.plan[k].target].kind = "knowledge_item"
    /\ x.pc = "save" /\ x.target = 0 =>
         \A o \in x.knew : ~(m[o].kind = "session_summary" /\ m[o].sid = x.sid)
    /\ x.pc = "save" /\ x.target # 0 =>
         /\ x.target \in DOMAIN m /\ m[x.target].kind = "session_summary"
         /\ m[x.target].sid = x.sid

\* Close j of a tracked session, x, keeps account of its candidates and text.
AccountSound(m, j, x) == x.who \in {"idle", "notice", "shutdown"} =>
    /\ x.raw
    /\ x.pc \in {"wait", "plan", "act", "update", "lookup", "save", "persist"} \cup Over
    /\ \A k \in DOMAIN x.plan : x.plan[k].state = "applied" =>
         /\ x.plan[k].target \in DOMAIN m /\ j \in m[x.plan[k].target].from
         /\ m[x.plan[k].target].kind = "knowledge_item"
    /\ x.pc # "persist" => x.sent = {}
    /\ \A k \in DOMAIN x.plan \cap x.sent :
         \E i \in DOMAIN m : /\ m[i].kind = "review_queue_item" /\ m[i].from = {j}
                             /\ m[i].body = <<x.plan[k].line>>
    /\ x.pc = "persist" =>
         \/ NoiseReason(x.body)
         \/ \E i \in DOMAIN m : m[i].kind = "session_summary" /\ j \in Closes(m, i)

\* Close has waited for the workers that had registered, and no other does.
Drained == phase \in {"flushing", "closed", "stopped"} => Registered = {}

TrackerInv ==
    /\ TrackerShape /\ Drained
    /\ \A i \in Ids : RecordSound(mem, jobs, i)
    /\ \A j \in Job : CloseSound(mem, unseen, jobs[j]) /\ AccountSound(mem, j, jobs[j])
-----------------------------------------------------------------------------
(* Records and closes as time goes on.                                     *)

\* What may become of a bank m: n has its records, and they are of the same
\* kind and session, with what went into them.
Grows(m, n) ==
    /\ DOMAIN m \subseteq DOMAIN n
    /\ \A i \in DOMAIN m :
         /\ n[i].kind = m[i].kind /\ n[i].sid = m[i].sid /\ n[i].knew = m[i].knew
         /\ n[i].vector = m[i].vector
         /\ m[i].kind # "session_summary" => m[i].from \subseteq n[i].from
         /\ m[i].kind = "review_queue_item" =>
              n[i].from = m[i].from /\ n[i].body = m[i].body
         /\ m[i].kind = "session_summary" =>
              n[i].alive = m[i].alive /\ Closes(m, i) \subseteq Closes(n, i)

\* Nothing goes into record i.
SameContent(m, n, i) ==
    n[i].from = m[i].from /\ n[i].dropped = m[i].dropped /\ n[i].body = m[i].body

\* What may become of the closes w: the text of one that is over is forgotten.
Follow(w, z) ==
    /\ DOMAIN w \subseteq DOMAIN z
    /\ \A j \in DOMAIN w : /\ z[j].who = w[j].who /\ z[j].sid = w[j].sid
                          /\ ToSet(z[j].body) \subseteq ToSet(w[j].body)

\* A record into which nothing goes stays sound.
LEMMA RecordStays ==
    ASSUME NEW m, NEW n, NEW w, NEW z, Grows(m, n), Follow(w, z),
           NEW i \in DOMAIN m, RecordSound(m, w, i), SameContent(m, n, i)
    PROVE  RecordSound(n, z, i)
  <1>0. Closes(n, i) = Closes(m, i)
    BY DEF SameContent, Closes
  <1>1. Closes(n, i) \subseteq DOMAIN z /\ n[i].knew \subseteq DOMAIN n
    BY <1>0 DEF Grows, Follow, RecordSound
  <1>2. ASSUME n[i].kind = "session_summary"
        PROVE  /\ n[i].alive /\ TextSound(n, z, i)
               /\ \A j \in Closes(n, i) : z[j].sid = n[i].sid
               /\ \A o \in DOMAIN n \ {i} :
                    n[o].kind = "session_summary" /\ n[o].sid = n[i].sid => o \notin n[i].knew
    <2>1. m[i].kind = "session_summary" /\ n[i].knew = m[i].knew /\ n[i].sid = m[i].sid
      BY <1>2 DEF Grows
    <2>2. n[i].alive
      BY <2>1 DEF Grows, RecordSound
    <2>3. \A j \in Closes(n, i) : z[j].sid = n[i].sid
      BY <1>0, <2>1 DEF Follow, RecordSound
    <2>4. ASSUME NEW o \in DOMAIN n \ {i}, n[o].kind = "session_summary",
                 n[o].sid = n[i].sid, o \in n[i].knew
          PROVE  FALSE
      BY <2>1, <2>4 DEF Grows, RecordSound
    <2>5. TextSound(n, z, i)
      <3>1. TextSound(m, w, i) /\ m[i].from \subseteq DOMAIN w
        BY <2>1 DEF RecordSound, Closes
      <3>2. \A j \in m[i].from : ToSet(z[j].body) \subseteq ToSet(m[i].body)
        BY <3>1 DEF TextSound, Follow
      <3> QED
        BY <3>1, <3>2 DEF TextSound, SameContent
    <2> QED
      BY <2>2, <2>3, <2>4, <2>5
  <1>3. n[i].kind = "session_checkpoint" =>
          \A j \in n[i].from : z[j].who = "worker" => n[i].vector
    BY DEF Grows, Follow, RecordSound, SameContent, Closes
  <1> QED
    BY <1>1, <1>2, <1>3 DEF RecordSound

\* A close that does nothing stays sound: what its process has not loaded
\* besides is new.
LEMMA CloseStays ==
    ASSUME NEW m, NEW n, NEW u, NEW v, NEW x, Grows(m, n),
           v \cap DOMAIN m \subseteq u, CloseSound(m, u, x)
    PROVE  CloseSound(n, v, x)
  <1>1. x.knew \subseteq DOMAIN m /\ x.knew \subseteq DOMAIN n
    BY DEF Grows, CloseSound
  <1>2. x.who # "hook" => x.knew \cap v = {}
    BY <1>1 DEF CloseSound
  <1>3. \A k \in DOMAIN x.plan : x.plan[k].state = "planned" =>
          x.plan[k].target \in DOMAIN n /\ n[x.plan[k].target].kind = "knowledge_item"
    BY DEF Grows, CloseSound
  <1>4. x.pc = "save" /\ x.target = 0 =>
          \A o \in x.knew : ~(n[o].kind = "session_summary" /\ n[o].sid = x.sid)
    BY <1>1 DEF Grows, CloseSound
  <1>5. x.pc = "save" /\ x.target # 0 =>
          /\ x.target \in DOMAIN n /\ n[x.target].kind = "session_summary"
          /\ n[x.target].sid = x.sid
    BY DEF Grows, CloseSound
  <1> QED
    BY <1>1, <1>2, <1>3, <1>4, <1>5 DEF CloseSound

LEMMA AccountStays ==
    ASSUME NEW m, NEW n, NEW j, NEW x, Grows(m, n), AccountSound(m, j, x)
    PROVE  AccountSound(n, j, x)
  <1> SUFFICES ASSUME x.who \in {"idle", "notice", "shutdown"} PROVE AccountSound(n, j, x)
    BY DEF AccountSound
  <1>1. \A k \in DOMAIN x.plan : x.plan[k].state = "applied" =>
          /\ x.plan[k].target \in DOMAIN n /\ j \in n[x.plan[k].target].from
          /\ n[x.plan[k].target].kind = "knowledge_item"
    BY DEF Grows, AccountSound
  <1>2. \A k \in DOMAIN x.plan \cap x.sent :
          \E i \in DOMAIN n : /\ n[i].kind = "review_queue_item" /\ n[i].from = {j}
                              /\ n[i].body = <<x.plan[k].line>>
    <2> SUFFICES ASSUME NEW k \in DOMAIN x.plan \cap x.sent
                 PROVE  \E i \in DOMAIN n : /\ n[i].kind = "review_queue_item"
                                            /\ n[i].from = {j}
                                            /\ n[i].body = <<x.plan[k].line>>
      OBVIOUS
    <2>1. PICK i \in DOMAIN m : /\ m[i].kind = "review_queue_item" /\ m[i].from = {j}
                                /\ m[i].body = <<x.plan[k].line>>
      BY DEF AccountSound
    <2> QED
      BY <2>1 DEF Grows
  <1>3. x.pc = "persist" =>
          \/ NoiseReason(x.body)
          \/ \E i \in DOMAIN n : n[i].kind = "session_summary" /\ j \in Closes(n, i)
    BY DEF Grows, AccountSound
  <1> QED
    BY <1>1, <1>2, <1>3 DEF AccountSound

\* A close that is over has nothing left to be wrong about.
LEMMA EndedFacts ==
    ASSUME NEW x \in Works, NEW pc \in Over
    PROVE  /\ Ended(x, pc) \in Works /\ Ended(x, pc).pc = pc
           /\ Ended(x, pc).who = x.who /\ Ended(x, pc).sid = x.sid
           /\ Ended(x, pc).raw = x.raw /\ DOMAIN Ended(x, pc).plan = {}
           /\ Ended(x, pc).sent = {} /\ Ended(x, pc).knew = {}
           /\ ToSet(Ended(x, pc).body) = {}
  <1>1. /\ <<>> \in Seq(Lines) /\ <<>> \in Plans /\ DOMAIN <<>> = {}
        /\ ToSet(<<>>) = {}
    <2>1. <<>> \in [{} -> Actions]
      OBVIOUS
    <2>2. DOMAIN <<>> = {} /\ <<>> \in Seq(Lines)
      OBVIOUS
    <2>3. ToSet(<<>>) = {}
      BY <2>2 DEF ToSet
    <2> QED
      BY <2>1, <2>2, <2>3 DEF Plans
  <1> QED
    BY <1>1 DEF Ended, Works

-----------------------------------------------------------------------------
(* What keeps the invariant.                                               *)

LEMMA EverythingKept ==
    ASSUME TrackerInv, TrackerShape', Drained', Grows(mem, mem'), Follow(jobs, jobs'),
           unseen' \cap Ids \subseteq unseen,
           \A j \in DOMAIN jobs' :
             \/ j \in Job /\ jobs'[j] = jobs[j]
             \/ CloseSound(mem', unseen', jobs'[j]) /\ AccountSound(mem', j, jobs'[j]),
           \A i \in DOMAIN mem' :
             \/ i \in Ids /\ SameContent(mem, mem', i)
             \/ RecordSound(mem', jobs', i)
    PROVE  TrackerInv'
  <1>1. ASSUME NEW i \in DOMAIN mem' PROVE RecordSound(mem', jobs', i)
    <2> SUFFICES ASSUME i \in Ids, SameContent(mem, mem', i)
                 PROVE  RecordSound(mem', jobs', i)
      BY <1>1
    <2>1. RecordSound(mem, jobs, i)
      BY DEF TrackerInv
    <2> QED
      BY <2>1, RecordStays DEF Ids
  <1>2. ASSUME NEW j \in DOMAIN jobs'
        PROVE  CloseSound(mem', unseen', jobs'[j]) /\ AccountSound(mem', j, jobs'[j])
    <2> SUFFICES ASSUME j \in Job, jobs'[j] = jobs[j]
                 PROVE  CloseSound(mem', unseen', jobs[j]) /\ AccountSound(mem', j, jobs[j])
      BY <1>2
    <2>1. CloseSound(mem, unseen, jobs[j]) /\ AccountSound(mem, j, jobs[j])
      BY DEF TrackerInv
    <2> QED
      BY <2>1, CloseStays, AccountStays DEF Ids
  <1> QED
    BY <1>1, <1>2 DEF TrackerInv, Ids, Job

LEMMA Unchanging ==
    /\ Grows(mem, mem) /\ Follow(jobs, jobs)
  BY DEF Grows, Follow

\* One close takes a step of its own, on the bank as it is.
LEMMA OneClose ==
    ASSUME TrackerInv, NEW j \in Job, NEW x \in Works, jobs' = [jobs EXCEPT ![j] = x],
           UNCHANGED <<mem, unseen, phase>>, current' \in Seq(Lines) \cup {NoSession},
           x.who = jobs[j].who, x.sid = jobs[j].sid,
           ToSet(x.body) \subseteq ToSet(jobs[j].body),
           \/ x.pc \notin {"check", "store"} \/ jobs[j].pc \in {"check", "store"}
           \/ x.who # "worker" \/ phase \in {"open", "draining"},
           CloseSound(mem, unseen, x), AccountSound(mem, j, x)
    PROVE  TrackerInv'
  <1>1. jobs \in Seq(Works) /\ j \in 1 .. Len(jobs)
    BY DEF TrackerInv, TrackerShape, Job
  <1>2. /\ jobs' \in Seq(Works) /\ DOMAIN jobs' = Job /\ jobs'[j] = x
        /\ \A o \in Job : o # j => jobs'[o] = jobs[o]
    BY <1>1, ExceptSeq DEF Job
  <1>3. TrackerShape'
    BY <1>2 DEF TrackerInv, TrackerShape
  <1>4. Drained'
    <2>1. ASSUME NEW o \in Job, jobs'[o].who = "worker", jobs'[o].pc \in {"check", "store"},
                 phase \notin {"open", "draining"}
          PROVE  jobs[o].who = "worker" /\ jobs[o].pc \in {"check", "store"}
      BY <1>2, <2>1
    <2> QED
      BY <1>2, <2>1 DEF TrackerInv, TrackerShape, Drained, Registered, Job, IsWorker
  <1>5. Follow(jobs, jobs') /\ Grows(mem, mem')
    BY <1>2 DEF Follow, Grows, Job
  <1> QED
    BY <1>2, <1>3, <1>4, <1>5, EverythingKept DEF Ids, Job, SameContent

\* It ends.
LEMMA OneEnds ==
    ASSUME TrackerInv, NEW j \in Job, NEW pc \in Over, Finish(j, pc),
           UNCHANGED <<mem, unseen, phase>>, current' \in Seq(Lines) \cup {NoSession}
    PROVE  TrackerInv'
  <1> DEFINE x == Ended(jobs[j], pc)
  <1>1. jobs[j] \in Works /\ AccountSound(mem, j, jobs[j])
    BY ElementOfSeq DEF TrackerInv, TrackerShape, Job
  <1>2. /\ x \in Works /\ x.pc = pc /\ x.who = jobs[j].who /\ x.sid = jobs[j].sid
        /\ x.raw = jobs[j].raw /\ DOMAIN x.plan = {} /\ x.sent = {} /\ x.knew = {}
        /\ ToSet(x.body) = {}
    BY <1>1, EndedFacts
  <1>3. jobs' = [jobs EXCEPT ![j] = x]
    BY DEF Finish
  <1> HIDE DEF x
  <1>4. x.pc \notin {"check", "store"}
    BY <1>2 DEF Over
  <1>5. CloseSound(mem, unseen, x)
    BY <1>2 DEF CloseSound, Over
  <1>6. AccountSound(mem, j, x)
    BY <1>1, <1>2 DEF AccountSound, Over
  <1> QED
    BY <1>2, <1>3, <1>4, <1>5, <1>6, OneClose

\* A new one begins, or none does.
LEMMA OneBegins ==
    ASSUME TrackerInv, UNCHANGED <<mem, unseen>>,
           current' \in Seq(Lines) \cup {NoSession},
           phase' = phase \/ phase' = "draining",
           NEW who \in {"worker", "forced", "request", "idle", "notice", "shutdown", "hook"},
           NEW sid \in Sids \cup {NoSid}, NEW body \in Seq(Lines), NEW auto \in BOOLEAN,
           NEW save \in BOOLEAN, NEW pc \in {"post", "wait", "plan", "gate", "check", "lookup"},
           jobs' = jobs \/ Begin(NewJob(who, sid, body, auto, save, pc)),
           who = "worker" => pc = "post",
           who \in {"idle", "notice", "shutdown"} => save /\ pc \in {"wait", "plan"}
    PROVE  TrackerInv'
  <1> DEFINE x == NewJob(who, sid, body, auto, save, pc)
  <1>1. <<>> \in Plans /\ DOMAIN <<>> = {} /\ Ids \subseteq Nat
    <2>1. <<>> \in [{} -> Actions]
      OBVIOUS
    <2>2. mem \in Seq(Records)
      BY DEF TrackerInv, TrackerShape
    <2>3. Ids \subseteq Nat
      BY <2>2 DEF Ids
    <2>4. DOMAIN <<>> = {}
      OBVIOUS
    <2> QED
      BY <2>1, <2>3, <2>4 DEF Plans
  <1>2. /\ x \in Works /\ x.who = who /\ x.pc = pc /\ x.plan = <<>> /\ x.sent = {}
        /\ x.raw = save /\ x.knew \subseteq Ids /\ (who # "hook" => x.knew \cap unseen = {})
    <2>1. PICK knew : knew = {i \in Ids : Alive(i) /\ (who = "hook" \/ i \notin unseen)}
      OBVIOUS
    <2>2. knew \subseteq Ids /\ (who # "hook" => knew \cap unseen = {})
      BY <2>1
    <2>3. x = [who |-> who, sid |-> sid, body |-> body, auto |-> auto, raw |-> save,
               pc |-> pc, plan |-> <<>>, sent |-> {}, target |-> 0, read |-> <<>>,
               knew |-> knew]
      BY <2>1 DEF NewJob
    <2>4. <<>> \in Seq(Lines) /\ knew \subseteq Nat /\ pc \in {"post", "wait", "plan",
               "gate", "check", "lookup"}
      BY <1>1, <2>2
    <2> HIDE DEF x
    <2> QED
      BY <1>1, <2>2, <2>3, <2>4 DEF Works
  <1>3. jobs' = jobs \/ jobs' = Append(jobs, x)
    BY DEF Begin
  <1>4. CloseSound(mem, unseen, x)
    BY <1>1, <1>2 DEF CloseSound, Ids
  <1>5. ASSUME NEW o PROVE AccountSound(mem, o, x)
    BY <1>1, <1>2 DEF AccountSound
  <1> HIDE DEF x
  <1>6. jobs \in Seq(Works)
    BY DEF TrackerInv, TrackerShape
  <1>7. /\ jobs' \in Seq(Works) /\ Job \subseteq DOMAIN jobs'
        /\ \A o \in Job : jobs'[o] = jobs[o]
        /\ \A o \in DOMAIN jobs' \ Job : jobs'[o] = x
    <2>1. CASE jobs' = jobs
      BY <1>6, <2>1 DEF Job
    <2>2. CASE jobs' = Append(jobs, x)
      <3>1. /\ Append(jobs, x) \in Seq(Works) /\ Len(Append(jobs, x)) = Len(jobs) + 1
            /\ \A o \in 1 .. Len(jobs) : Append(jobs, x)[o] = jobs[o]
            /\ Append(jobs, x)[Len(jobs) + 1] = x
        BY <1>2, <1>6, AppendProperties
      <3>2. Job = 1 .. Len(jobs) /\ Len(jobs) \in Nat /\ DOMAIN jobs' = 1 .. Len(jobs')
        BY <1>6, <2>2, <3>1 DEF Job
      <3> QED
        BY <2>2, <3>1, <3>2
    <2> QED
      BY <1>3, <2>1, <2>2
  <1>8. TrackerShape'
    BY <1>7 DEF TrackerInv, TrackerShape
  <1>9. Drained'
    <2>1. Registered' \subseteq Registered
      BY <1>2, <1>7 DEF Registered, Job, IsWorker
    <2> QED
      BY <2>1 DEF TrackerInv, Drained
  <1>10. Follow(jobs, jobs') /\ Grows(mem, mem')
    BY <1>7 DEF Follow, Grows, Job
  <1> QED
    BY <1>4, <1>5, <1>7, <1>8, <1>9, <1>10, EverythingKept DEF Ids, Job, SameContent

\* The bank changes and the closes do not: nothing new goes into a record.
LEMMA BankChanges ==
    ASSUME TrackerInv, UNCHANGED <<jobs, current, phase>>, mem' \in Seq(Records),
           Grows(mem, mem'), DOMAIN mem' = Ids, unseen' \subseteq unseen,
           \A i \in Ids : SameContent(mem, mem', i)
    PROVE  TrackerInv'
  <1>1. TrackerShape'
    BY DEF TrackerInv, TrackerShape
  <1>2. Drained'
    BY DEF TrackerInv, Drained, Registered, Job, IsWorker
  <1> QED
    BY <1>1, <1>2, Unchanging, EverythingKept DEF Job

LEMMA OneMoves ==
    ASSUME TrackerInv, NEW j \in Job,
           NEW pc \in {"acquired", "check", "store", "plan", "update", "persist"},
           Goto(j, pc), UNCHANGED <<mem, unseen, phase>>,
           current' \in Seq(Lines) \cup {NoSession},
           \/ pc \notin {"check", "store"} \/ jobs[j].pc \in {"check", "store"}
           \/ jobs[j].who # "worker" \/ phase \in {"open", "draining"},
           pc = "update" => jobs[j].pc = "act",
           pc = "persist" => jobs[j].pc = "lookup",
           jobs[j].who \in {"idle", "notice", "shutdown"} =>
               \/ pc = "update"
               \/ pc = "persist" /\ NoiseReason(jobs[j].body)
    PROVE  TrackerInv'
  <1> DEFINE x == [jobs[j] EXCEPT !.pc = pc]
  <1>1. /\ jobs[j] \in Works /\ CloseSound(mem, unseen, jobs[j])
        /\ AccountSound(mem, j, jobs[j])
    BY ElementOfSeq DEF TrackerInv, TrackerShape, Job
  <1>2. /\ x \in Works /\ x.who = jobs[j].who /\ x.sid = jobs[j].sid
        /\ x.body = jobs[j].body /\ x.raw = jobs[j].raw /\ x.pc = pc
        /\ x.plan = jobs[j].plan /\ x.sent = jobs[j].sent /\ x.knew = jobs[j].knew
    BY <1>1 DEF Works
  <1>3. jobs' = [jobs EXCEPT ![j] = x]
    BY DEF Goto
  <1> HIDE DEF x
  <1>4. CloseSound(mem, unseen, x)
    BY <1>1, <1>2 DEF CloseSound
  <1>5. AccountSound(mem, j, x)
    BY <1>1, <1>2 DEF AccountSound
  <1> QED
    BY <1>2, <1>3, <1>4, <1>5, OneClose

-----------------------------------------------------------------------------
(* The tracker's handlers.                                                 *)

\* What the tracker collects are lines.
LEMMA AppendActivityType ==
    ASSUME TrackerInv, TrackerAssumption, NEW line \in TrackedLines
    PROVE  /\ appendActivity(Body, line) \in Seq(Lines) /\ Body \in Seq(Lines)
           /\ applySessionNotification(line) \in Seq(Lines)
  <1>1. Body \in Seq(Lines) /\ line \in Lines
    BY DEF TrackerInv, TrackerShape, TrackerAssumption, Body
  <1> DEFINE longer == Append(Body, line)
             first == IF Len(longer) > MaxActivities THEN Len(longer) - MaxActivities + 1
                      ELSE 1
  <1>2. longer \in Seq(Lines) /\ Len(longer) \in Nat
    BY <1>1, AppendProperties
  <1>3. first \in Int /\ first >= 1
    BY <1>2 DEF TrackerAssumption
  <1>4. appendActivity(Body, line) \in {Body, SubSeq(longer, first, Len(longer))}
    BY DEF appendActivity
  <1> HIDE DEF longer, first
  <1>5. \A k \in first .. Len(longer) : longer[k] \in Lines
    BY <1>2, <1>3, ElementOfSeq
  <1>6. SubSeq(longer, first, Len(longer)) \in Seq(Lines)
    BY <1>2, <1>3, <1>5, SubSeqProperties
  <1>7. applySessionNotification(line) \in Seq(Lines)
    BY <1>2 DEF applySessionNotification, longer
  <1> QED
    BY <1>1, <1>4, <1>6, <1>7

LEMMA ToolCallStep ==
    ASSUME TrackerInv, TrackerAssumption, NEW line \in TrackedLines, NEW due \in BOOLEAN,
           HandleToolCall(line, due)
    PROVE  TrackerInv'
  <1>1. current' \in Seq(Lines) /\ UNCHANGED <<mem, unseen, phase>>
    BY AppendActivityType DEF HandleToolCall
  <1>2. \/ jobs' = jobs
        \/ Begin(NewJob("worker", NoSid, current', FALSE, TRUE, "post"))
    BY DEF HandleToolCall
  <1> QED
    BY <1>1, <1>2, OneBegins

LEMMA NotificationStep ==
    ASSUME TrackerInv, TrackerAssumption, NEW line \in TrackedLines,
           HandleNotification(line)
    PROVE  TrackerInv'
  <1> DEFINE body == applySessionNotification(line)
  <1>1. body \in Seq(Lines)
    BY AppendActivityType
  <1> HIDE DEF body
  <1>2. CASE reset
    <2>1. /\ jobs' = jobs /\ current' \in Seq(Lines) \cup {NoSession}
          /\ UNCHANGED <<mem, unseen, phase>>
      BY <1>2 DEF reset, session
    <2> QED
      BY <1>1, <2>1, OneBegins
  <1>3. CASE forceCheckpoint(line)
    <2>1. /\ current' \in Seq(Lines) \cup {NoSession} /\ UNCHANGED <<mem, unseen, phase>>
      BY <1>3 DEF forceCheckpoint, tracker, TrackerInv, TrackerShape
    <2>2. \/ jobs' = jobs
          \/ Begin(NewJob("forced", NoSid, body, FALSE, TRUE, "check"))
      BY <1>3 DEF forceCheckpoint, body
    <2> QED
      BY <1>1, <2>1, <2>2, OneBegins
  <1>4. CASE flushWithNotification(line)
    <2>1. /\ current' \in Seq(Lines) \cup {NoSession} /\ UNCHANGED <<mem, unseen, phase>>
      BY <1>4 DEF flushWithNotification
    <2>2. \/ jobs' = jobs
          \/ Begin(NewJob("notice", NoSid, body, TRUE, TRUE, "plan"))
      BY <1>4 DEF flushWithNotification, flushSession, body
    <2> QED
      BY <1>1, <2>1, <2>2, OneBegins
  <1> QED
    BY <1>2, <1>3, <1>4 DEF HandleNotification

\* Requests and processes that close or checkpoint a text of their own.
LEMMA OwnTextStep ==
    ASSUME TrackerInv, TrackerAssumption, NEW line \in OtherLines,
           \/ \E a \in Requested : runSessionAnalysis(line, a)
           \/ \E rawOnly \in BOOLEAN : runSessionCommand(line, rawOnly)
           \/ \E s \in Sids : AutoCapture(s, line)
           \/ HookCheckpoint(line)
    PROVE  TrackerInv'
  <1>1. <<line>> \in Seq(Lines)
    BY DEF TrackerAssumption
  <1>2. UNCHANGED <<mem, unseen, tracker>>
    BY DEF runSessionAnalysis, runSessionCommand, AutoCapture, HookCheckpoint
  <1>3. current' \in Seq(Lines) \cup {NoSession} /\ phase' = phase
    BY <1>2 DEF tracker, TrackerInv, TrackerShape
  <1>4. CASE \E a \in Requested : runSessionAnalysis(line, a)
    <2>1. PICK a \in Requested : runSessionAnalysis(line, a)
      BY <1>4
    <2>2. \E auto, save \in BOOLEAN :
            Begin(NewJob("request", NoSid, <<line>>, auto, save, "plan"))
      BY <2>1 DEF runSessionAnalysis
    <2> QED
      BY <1>1, <1>2, <1>3, <2>2, OneBegins
  <1>5. CASE \E rawOnly \in BOOLEAN : runSessionCommand(line, rawOnly)
    <2>1. PICK rawOnly \in BOOLEAN : runSessionCommand(line, rawOnly)
      BY <1>5
    <2>2. \E pc \in {"lookup", "plan"} :
            Begin(NewJob("hook", NoSid, <<line>>, TRUE, TRUE, pc))
      BY <2>1 DEF runSessionCommand
    <2> QED
      BY <1>1, <1>2, <1>3, <2>2, OneBegins
  <1>6. CASE \E s \in Sids : AutoCapture(s, line)
    <2>1. PICK s \in Sids : Begin(NewJob("hook", s, <<line>>, TRUE, TRUE, "gate"))
      BY <1>6 DEF AutoCapture
    <2> QED
      BY <1>1, <1>2, <1>3, <2>1, OneBegins
  <1>7. CASE HookCheckpoint(line)
    <2>1. Begin(NewJob("hook", NoSid, <<line>>, FALSE, TRUE, "check"))
      BY <1>7 DEF HookCheckpoint
    <2> QED
      BY <1>1, <1>2, <1>3, <2>1, OneBegins
  <1> QED
    BY <1>4, <1>5, <1>6, <1>7

\* The idle callback, and the start of a shutdown.
LEMMA FlushStep ==
    ASSUME TrackerInv, flushFromIdle \/ Close
    PROVE  TrackerInv'
  <1>1. Body \in Seq(Lines)
    BY DEF TrackerInv, TrackerShape, Body
  <1>2. current' \in Seq(Lines) \cup {NoSession} /\ UNCHANGED <<mem, unseen>>
    BY DEF flushFromIdle, Close, TrackerInv, TrackerShape
  <1>3. CASE flushFromIdle
    <2>1. \/ jobs' = jobs
          \/ Begin(NewJob("idle", NoSid, Body, TRUE, TRUE, "plan"))
      BY <1>3 DEF flushFromIdle, flushSession
    <2>2. phase' = phase
      BY <1>3 DEF flushFromIdle
    <2> QED
      BY <1>1, <1>2, <2>1, <2>2, OneBegins
  <1>4. CASE Close
    <2>1. \/ jobs' = jobs
          \/ Begin(NewJob("shutdown", NoSid, Body, TRUE, TRUE, "wait"))
      BY <1>4, Zenon DEF Close, flushSession
    <2>2. phase' = "draining"
      BY <1>4 DEF Close
    <2> QED
      BY <1>1, <1>2, <2>1, <2>2, OneBegins
  <1> QED
    BY <1>3, <1>4

\* A checkpoint on its way to a worker.
LEMMA WorkerStep ==
    ASSUME TrackerInv, NEW j \in Job, AcquireWorker(j) \/ RegisterWorker(j)
    PROVE  TrackerInv'
  <1>1. UNCHANGED <<mem, unseen, phase>> /\ current' \in Seq(Lines) \cup {NoSession}
    BY DEF AcquireWorker, RegisterWorker, tracker, TrackerInv, TrackerShape
  <1>2. jobs[j].who \notin {"idle", "notice", "shutdown"}
    <2>1. jobs[j].pc \in {"post", "acquired"}
      BY DEF AcquireWorker, RegisterWorker
    <2>2. AccountSound(mem, j, jobs[j])
      BY DEF TrackerInv
    <2> QED
      BY <2>1, <2>2 DEF AccountSound, Over
  <1>3. \/ \E pc \in Over : Finish(j, pc)
        \/ Goto(j, "acquired")
        \/ Goto(j, "check") /\ phase = "open"
    BY DEF AcquireWorker, RegisterWorker, StartWorker, Closed, Over
  <1>4. CASE \E pc \in Over : Finish(j, pc)
    BY <1>1, <1>4, OneEnds
  <1>5. CASE Goto(j, "acquired")
    BY <1>1, <1>2, <1>5, OneMoves
  <1>6. CASE Goto(j, "check") /\ phase = "open"
    BY <1>1, <1>2, <1>6, OneMoves
  <1> QED
    BY <1>3, <1>4, <1>5, <1>6

\* The timer fires, or Close cancels the context: no close changes.
LEMMA QuietStep ==
    ASSUME TrackerInv, TimerFires \/ CloseCancels
    PROVE  TrackerInv'
  <1>1. UNCHANGED <<mem, unseen, jobs, current>>
    BY DEF TimerFires, CloseCancels, session
  <1>2. \/ phase' = phase
        \/ phase = "flushing" /\ phase' = "closed"
    BY DEF TimerFires, CloseCancels
  <1>3. TrackerShape'
    BY <1>1, <1>2 DEF TrackerInv, TrackerShape
  <1>4. Drained'
    BY <1>1, <1>2 DEF TrackerInv, Drained, Registered, Job, IsWorker
  <1> QED
    BY <1>1, <1>3, <1>4, Unchanging, EverythingKept DEF Ids, Job, SameContent

LEMMA ManyCloses ==
    ASSUME TrackerInv, UNCHANGED <<mem, unseen, current>>,
           phase' \in {"flushing", "stopped"}, Drained',
           jobs' = [j \in Job |-> jobs'[j]],
           \A j \in Job : /\ jobs'[j] \in Works
                          /\ jobs'[j].who = jobs[j].who /\ jobs'[j].sid = jobs[j].sid
                          /\ ToSet(jobs'[j].body) \subseteq ToSet(jobs[j].body)
                          /\ CloseSound(mem, unseen, jobs'[j])
                          /\ AccountSound(mem, j, jobs'[j])
    PROVE  TrackerInv'
  <1>1. DOMAIN jobs' = Job /\ jobs' \in Seq(Works)
    <2>1. Job = 1 .. Len(jobs) /\ Len(jobs) \in Nat
      BY DEF TrackerInv, TrackerShape, Job
    <2>2. jobs' \in [1 .. Len(jobs) -> Works]
      BY <2>1
    <2> QED
      BY <2>1, <2>2, SeqDef
  <1>2. TrackerShape'
    BY <1>1 DEF TrackerInv, TrackerShape
  <1>3. Follow(jobs, jobs') /\ Grows(mem, mem')
    BY <1>1 DEF Follow, Grows, Job
  <1> QED
    BY <1>1, <1>2, <1>3, EverythingKept DEF Ids, SameContent

\* The session that Close took is closed, now that the workers are done.
LEMMA CloseFlushesStep ==
    ASSUME TrackerInv, CloseFlushes
    PROVE  TrackerInv'
  <1>1. /\ UNCHANGED <<mem, unseen, current>> /\ phase' = "flushing" /\ Registered = {}
        /\ jobs' = [j \in Job |-> IF jobs[j].pc = "wait"
                                  THEN [jobs[j] EXCEPT !.pc = "plan"] ELSE jobs[j]]
    BY DEF CloseFlushes
  <1>2. \A j \in Job : /\ jobs[j] \in Works /\ CloseSound(mem, unseen, jobs[j])
                       /\ AccountSound(mem, j, jobs[j])
    BY ElementOfSeq DEF TrackerInv, TrackerShape, Job
  <1>3. ASSUME NEW j \in Job
        PROVE  /\ jobs'[j] \in Works
               /\ jobs'[j].who = jobs[j].who /\ jobs'[j].sid = jobs[j].sid
               /\ ToSet(jobs'[j].body) \subseteq ToSet(jobs[j].body)
               /\ CloseSound(mem, unseen, jobs'[j]) /\ AccountSound(mem, j, jobs'[j])
    <2> DEFINE x == [jobs[j] EXCEPT !.pc = "plan"]
    <2>1. jobs'[j] = jobs[j] \/ (jobs'[j] = x /\ jobs[j].pc = "wait")
      <3>1. jobs'[j] = IF jobs[j].pc = "wait" THEN x ELSE jobs[j]
        BY <1>1
      <3> HIDE DEF x
      <3> QED
        BY <3>1
    <2>2. /\ x \in Works /\ x.who = jobs[j].who /\ x.sid = jobs[j].sid /\ x.raw = jobs[j].raw
          /\ x.body = jobs[j].body /\ x.pc = "plan" /\ x.plan = jobs[j].plan
          /\ x.sent = jobs[j].sent /\ x.knew = jobs[j].knew
      BY <1>2 DEF Works
    <2> HIDE DEF x
    <2>3. CloseSound(mem, unseen, x)
      BY <1>2, <2>2 DEF CloseSound
    <2>4. jobs[j].pc = "wait" => AccountSound(mem, j, x)
      BY <1>2, <2>2 DEF AccountSound
    <2> QED
      BY <1>2, <2>1, <2>2, <2>3, <2>4
  <1>4. Drained'
    <2>1. ASSUME NEW j \in Job, jobs'[j].who = "worker", jobs'[j].pc \in {"check", "store"}
          PROVE  jobs[j].who = "worker" /\ jobs[j].pc \in {"check", "store"}
      <3>1. jobs[j] \in Works
        BY <1>2
      <3>2. jobs'[j] = jobs[j] \/ jobs'[j] = [jobs[j] EXCEPT !.pc = "plan"]
        BY <1>1
      <3> QED
        BY <2>1, <3>1, <3>2 DEF Works
    <2>2. DOMAIN jobs' = Job
      BY <1>1
    <2> QED
      BY <1>1, <2>1, <2>2 DEF Drained, Registered, Job, IsWorker
  <1>5. jobs' = [j \in Job |-> jobs'[j]]
    BY <1>1
  <1> QED
    BY <1>1, <1>3, <1>4, <1>5, ManyCloses

\* What still runs when the store closes fails.
LEMMA CloseStoreStep ==
    ASSUME TrackerInv, CloseStore
    PROVE  TrackerInv'
  <1>1. /\ UNCHANGED <<mem, unseen, current>> /\ phase = "closed" /\ phase' = "stopped"
        /\ jobs' = [j \in Job |-> IF jobs[j].who = "hook" \/ jobs[j].pc \in Over
                                  THEN jobs[j] ELSE Ended(jobs[j], "failed")]
    BY DEF CloseStore
  <1>2. \A j \in Job : /\ jobs[j] \in Works /\ CloseSound(mem, unseen, jobs[j])
                       /\ AccountSound(mem, j, jobs[j])
    BY ElementOfSeq DEF TrackerInv, TrackerShape, Job
  <1>3. ASSUME NEW j \in Job
        PROVE  /\ jobs'[j] \in Works /\ (jobs'[j] = jobs[j] \/ jobs'[j].pc = "failed")
               /\ jobs'[j].who = jobs[j].who /\ jobs'[j].sid = jobs[j].sid
               /\ ToSet(jobs'[j].body) \subseteq ToSet(jobs[j].body)
               /\ CloseSound(mem, unseen, jobs'[j]) /\ AccountSound(mem, j, jobs'[j])
    <2> DEFINE x == Ended(jobs[j], "failed")
    <2>1. jobs'[j] = jobs[j] \/ jobs'[j] = x
      BY <1>1
    <2>2. "failed" \in Over /\ jobs[j] \in Works
      BY <1>2 DEF Over
    <2>3. /\ x \in Works /\ x.pc = "failed" /\ x.who = jobs[j].who /\ x.sid = jobs[j].sid
          /\ x.raw = jobs[j].raw /\ DOMAIN x.plan = {} /\ x.sent = {} /\ x.knew = {}
          /\ ToSet(x.body) = {}
      BY <2>2, EndedFacts
    <2> HIDE DEF x
    <2>4. CloseSound(mem, unseen, x) /\ AccountSound(mem, j, x)
      BY <1>2, <2>2, <2>3 DEF CloseSound, AccountSound
    <2> QED
      BY <1>2, <2>1, <2>3, <2>4
  <1>4. Drained'
    <2>1. DOMAIN jobs' = Job
      BY <1>1
    <2>2. Registered = {}
      BY <1>1 DEF TrackerInv, Drained
    <2> QED
      BY <1>3, <2>1, <2>2 DEF Drained, Registered, Job, IsWorker
  <1>5. jobs' = [j \in Job |-> jobs'[j]]
    BY <1>1
  <1> QED
    BY <1>1, <1>3, <1>4, <1>5, ManyCloses

\* Knowledge is deleted, an item of the queue resolved, the cache reloaded.
LEMMA OthersStep ==
    ASSUME TrackerInv, OtherRequest \/ WatcherReloads
    PROVE  TrackerInv'
  <1>1. mem \in Seq(Records)
    BY DEF TrackerInv, TrackerShape
  <1>2. CASE WatcherReloads
    <2>1. UNCHANGED <<mem, jobs, current, phase>> /\ unseen' = {}
      BY <1>2 DEF WatcherReloads, ReloadCache, tracker
    <2> QED
      BY <1>1, <2>1, Unchanging, BankChanges DEF Ids, SameContent
  <1>3. CASE OtherRequest
    <2>1. PICK i \in Ids : DeleteKnowledge(i) \/ ResolveReviewItem(i)
      BY <1>3 DEF OtherRequest
    <2>2. mem[i] \in Records /\ i \in 1 .. Len(mem)
      BY <1>1, ElementOfSeq DEF Ids
    <2>3. PICK rec \in Records :
            /\ mem' = [mem EXCEPT ![i] = rec]
            /\ rec.kind = mem[i].kind /\ rec.sid = mem[i].sid /\ rec.knew = mem[i].knew
            /\ rec.vector = mem[i].vector /\ rec.from = mem[i].from
            /\ rec.body = mem[i].body /\ rec.dropped = mem[i].dropped
            /\ mem[i].kind # "knowledge_item" => rec.alive = mem[i].alive
      <3>1. CASE DeleteKnowledge(i)
        BY <2>2, <3>1 DEF DeleteKnowledge, Rewrite, Records
      <3>2. CASE ResolveReviewItem(i)
        <4> DEFINE rec == [mem[i] EXCEPT !.state = "resolved"]
        <4>1. mem' = [mem EXCEPT ![i] = rec]
          BY <3>2 DEF ResolveReviewItem, Rewrite
        <4>2. /\ rec \in Records /\ rec.kind = mem[i].kind /\ rec.sid = mem[i].sid
              /\ rec.knew = mem[i].knew /\ rec.vector = mem[i].vector
              /\ rec.from = mem[i].from /\ rec.body = mem[i].body
              /\ rec.alive = mem[i].alive /\ rec.dropped = mem[i].dropped
          BY <2>2 DEF Records
        <4> HIDE DEF rec
        <4> QED
          BY <4>1, <4>2
      <3> QED
        BY <2>1, <3>1, <3>2
    <2>4. UNCHANGED <<jobs, unseen, current, phase>>
      BY <1>3, <2>1 DEF DeleteKnowledge, ResolveReviewItem, Rewrite, OtherRequest, tracker
    <2>5. /\ mem' \in Seq(Records) /\ DOMAIN mem' = Ids /\ mem'[i] = rec
          /\ \A o \in Ids : o # i => mem'[o] = mem[o]
      BY <1>1, <2>2, <2>3, ExceptSeq DEF Ids
    <2>6. Grows(mem, mem')
      BY <2>2, <2>3, <2>5 DEF Grows, Ids, Closes
    <2>7. \A o \in Ids : SameContent(mem, mem', o)
      BY <2>3, <2>5 DEF SameContent
    <2> QED
      BY <2>4, <2>5, <2>6, <2>7, BankChanges
  <1> QED
    BY <1>2, <1>3

-----------------------------------------------------------------------------
(* Planning and applying.                                                  *)

LEMMA Least ==
    ASSUME NEW S \in SUBSET Nat, S # {}
    PROVE  \E n \in S : \A m \in S : n <= m
  <1>1. \A n \in S : \E x \in S : \A y \in S : ~ (<<y, x>> \in OpToRel(<, Nat))
    BY WFMin, NatLessThanWellFounded, Zenon
  <1>2. PICK x \in S : \A y \in S : ~ (<<y, x>> \in OpToRel(<, Nat))
    BY <1>1, Zenon
  <1>3. \A y \in S : ~ (y < x)
    BY <1>2 DEF OpToRel
  <1> QED
    BY <1>3

LEMMA Greatest ==
    ASSUME NEW n \in Nat, NEW S \in SUBSET (1 .. n), S # {}
    PROVE  \E k \in S : \A m \in S : m <= k
  <1> DEFINE T == {n - k : k \in S}
  <1>1. \A k \in S : k \in Int /\ n - k \in Nat
    OBVIOUS
  <1>2. T \in SUBSET Nat
    BY <1>1
  <1>3. PICK o \in S : n - o \in T
    OBVIOUS
  <1>4. \A k \in S : n - k \in T
    OBVIOUS
  <1>5. \A t \in T : \E k \in S : t = n - k
    OBVIOUS
  <1> HIDE DEF T
  <1>6. PICK t \in T : \A u \in T : t <= u
    BY <1>2, <1>3, Least
  <1>7. PICK k \in S : t = n - k
    BY <1>5
  <1>8. \A m \in S : n - k <= n - m
    BY <1>4, <1>6, <1>7
  <1> QED
    BY <1>1, <1>8

\* Only knowledge items are planned to be updated without asking.
LEMMA PlannedIsKnowledge ==
    ASSUME TrackerInv, NEW j \in Job, NEW line \in Lines,
           NEW a \in bestExistingMatch(j, line)
    PROVE  /\ a \in Actions /\ a.state # "applied"
           /\ a.state = "planned" =>
                a.target \in Ids /\ mem[a.target].kind = "knowledge_item"
  <1> DEFINE class == IF Matching(j, line, "exact") # {} THEN "exact"
                      ELSE IF Matching(j, line, "strong") # {} THEN "strong"
                      ELSE "weak"
             found == Matching(j, line, class)
             kind == actionKind(line, class, found # {})
             handling == classifyActionHandling(kind, line,
                           policyForMode(normalizeSummary(jobs[j].body)))
  <1>1. PICK i \in (IF found = {} THEN {0} ELSE found) : a = Planned(line, kind, i, j)
    BY Zenon DEF bestExistingMatch
  <1>2. found \subseteq Ids /\ Ids \subseteq Nat
    <2>1. Ids = 1 .. Len(mem)
      BY DEF TrackerInv, TrackerShape, Ids
    <2>2. found \subseteq Ids
      BY DEF Matching, Listed
    <2> QED
      BY <2>1, <2>2
  <1>3. kind \in {"supersede", "update", "merge", "promote_canonical", "new"}
    BY DEF actionKind
  <1>4. handling \in {"hard_review", "soft_review", "safe_auto_apply"}
    BY DEF classifyActionHandling
  <1>5. handling = "safe_auto_apply" => kind = "update"
    BY <1>3 DEF classifyActionHandling
  <1>6. kind = "update" => class = "exact"
    BY DEF actionKind
  <1>7. class = "exact" => found # {} /\ \A o \in found : score(line, o) = "exact"
    BY DEF Matching
  <1>8. \A o \in found : score(line, o) = "exact" => mem[o].kind = "knowledge_item"
    BY DEF score
  <1>9. /\ a.line = line /\ a.kind = kind /\ a.target = i /\ a.handling = handling
        /\ a.state = IF jobs[j].auto /\ handling = "safe_auto_apply" THEN "planned"
                     ELSE "review_required"
        /\ a = [line |-> a.line, kind |-> a.kind, target |-> a.target,
                handling |-> a.handling, state |-> a.state]
    BY <1>1 DEF Planned
  <1> HIDE DEF class, found, kind, handling
  <1>10. a.target \in Nat /\ a.state \in {"planned", "review_required"}
    BY <1>1, <1>2, <1>9
  <1>11. a \in Actions
    BY <1>3, <1>4, <1>9, <1>10 DEF Actions
  <1>12. a.state = "planned" => a.target \in Ids /\ mem[a.target].kind = "knowledge_item"
    <2> SUFFICES ASSUME a.state = "planned"
                 PROVE  a.target \in Ids /\ mem[a.target].kind = "knowledge_item"
      OBVIOUS
    <2>1. class = "exact" /\ found # {}
      BY <1>5, <1>6, <1>7, <1>9
    <2> QED
      BY <1>1, <1>2, <1>7, <1>8, <1>9, <2>1
  <1> QED
    BY <1>10, <1>11, <1>12

LEMMA PlanStep ==
    ASSUME TrackerInv, NEW j \in Job, planActions(j), UNCHANGED tracker
    PROVE  TrackerInv'
  <1> DEFINE body == jobs[j].body
             found == buildSessionDelta(body)
  <1>1. /\ jobs[j] \in Works /\ CloseSound(mem, unseen, jobs[j])
        /\ AccountSound(mem, j, jobs[j]) /\ jobs[j].pc = "plan"
    BY ElementOfSeq DEF TrackerInv, TrackerShape, Job, planActions
  <1>2. PICK plan \in [found -> UNION {bestExistingMatch(j, body[k]) : k \in found}] :
          /\ \A k \in found : plan[k] \in bestExistingMatch(j, body[k])
          /\ jobs' = [jobs EXCEPT ![j].plan = plan, ![j].pc = After(plan)]
    BY DEF planActions
  <1>3. found \subseteq Nat /\ \A k \in found : body[k] \in Lines
    <2>1. body \in Seq(Lines)
      BY <1>1 DEF Works
    <2> HIDE DEF body
    <2> QED
      BY <2>1, ElementOfSeq DEF buildSessionDelta
  <1> HIDE DEF body, found
  <1>4. \A k \in found :
          /\ plan[k] \in Actions /\ plan[k].state # "applied"
          /\ plan[k].state = "planned" =>
               plan[k].target \in Ids /\ mem[plan[k].target].kind = "knowledge_item"
    BY <1>2, <1>3, PlannedIsKnowledge
  <1>5. DOMAIN plan = found /\ plan \in [found -> Actions]
    BY <1>2, <1>4
  <1>6. plan \in Plans
    BY <1>3, <1>5 DEF Plans
  <1> DEFINE x == [jobs[j] EXCEPT !.plan = plan, !.pc = After(plan)]
  <1>7. After(plan) \in {"act", "lookup"}
    BY DEF After
  <1>8. /\ x \in Works /\ x.who = jobs[j].who /\ x.sid = jobs[j].sid
        /\ x.body = jobs[j].body /\ x.raw = jobs[j].raw /\ x.pc = After(plan)
        /\ x.plan = plan /\ x.sent = jobs[j].sent /\ x.knew = jobs[j].knew
    BY <1>1, <1>6, <1>7 DEF Works
  <1>9. jobs' = [jobs EXCEPT ![j] = x]
    BY <1>2
  <1> HIDE DEF x
  <1>10. CloseSound(mem, unseen, x)
    <2>1. /\ After(plan) = "act" => \E k \in DOMAIN plan : plan[k].state = "planned"
          /\ After(plan) = "lookup" => \A k \in DOMAIN plan : plan[k].state # "planned"
      BY DEF After
    <2> QED
      BY <1>1, <1>4, <1>5, <1>7, <1>8, <2>1 DEF CloseSound, Ids
  <1>11. AccountSound(mem, j, x)
    BY <1>1, <1>4, <1>5, <1>7, <1>8 DEF AccountSound
  <1>12. UNCHANGED <<mem, unseen, phase>> /\ current' \in Seq(Lines) \cup {NoSession}
    BY DEF planActions, tracker, TrackerInv, TrackerShape
  <1> QED
    BY <1>7, <1>8, <1>9, <1>10, <1>11, <1>12, OneClose

\* There is an action to be applied, and it updates knowledge.
LEMMA CurrentIsPlanned ==
    ASSUME TrackerInv, NEW j \in Job, jobs[j].pc \in {"act", "update"}
    PROVE  /\ Current(j) \in DOMAIN jobs[j].plan
           /\ jobs[j].plan[Current(j)].state = "planned"
           /\ jobs[j].plan[Current(j)].target \in Ids
           /\ mem[jobs[j].plan[Current(j)].target].kind = "knowledge_item"
  <1> DEFINE S == {k \in DOMAIN jobs[j].plan : jobs[j].plan[k].state = "planned"}
  <1>1. jobs[j] \in Works /\ CloseSound(mem, unseen, jobs[j])
    BY ElementOfSeq DEF TrackerInv, TrackerShape, Job
  <1>2. DOMAIN jobs[j].plan \subseteq Nat
    BY <1>1 DEF Works, Plans
  <1>3. S \in SUBSET Nat /\ S # {}
    BY <1>1, <1>2 DEF CloseSound
  <1>4. PICK k \in S : \A o \in S : k <= o
    BY <1>3, Least
  <1>5. \E c \in DOMAIN jobs[j].plan :
          /\ jobs[j].plan[c].state = "planned"
          /\ \A o \in DOMAIN jobs[j].plan : o < c => jobs[j].plan[o].state # "planned"
    BY <1>2, <1>4
  <1>6. Current(j) \in DOMAIN jobs[j].plan /\ jobs[j].plan[Current(j)].state = "planned"
    BY <1>5 DEF Current
  <1> QED
    BY <1>1, <1>6 DEF CloseSound, Ids

\* An action of the plan is settled: n is the bank by then, into which it put
\* what it was to apply.
LEMMA SettledWork ==
    ASSUME TrackerInv, NEW j \in Job, jobs[j].pc \in {"act", "update"},
           NEW state \in {"applied", "review_required"},
           NEW n, Grows(mem, n), NEW v, v \cap Ids \subseteq unseen,
           state = "applied" => j \in n[jobs[j].plan[Current(j)].target].from,
           Settle(j, Current(j), state)
    PROVE  \E x \in Works :
             /\ jobs' = [jobs EXCEPT ![j] = x]
             /\ x.who = jobs[j].who /\ x.sid = jobs[j].sid /\ x.body = jobs[j].body
             /\ x.pc \in {"act", "lookup"}
             /\ CloseSound(n, v, x) /\ AccountSound(n, j, x)
  <1>1. /\ jobs[j] \in Works /\ CloseSound(mem, unseen, jobs[j])
        /\ AccountSound(mem, j, jobs[j])
    BY ElementOfSeq DEF TrackerInv, TrackerShape, Job
  <1>2. PICK k : k = Current(j)
    OBVIOUS
  <1>3. /\ k \in DOMAIN jobs[j].plan /\ jobs[j].plan[k].state = "planned"
        /\ jobs[j].plan[k].target \in Ids
        /\ mem[jobs[j].plan[k].target].kind = "knowledge_item"
    BY <1>2, CurrentIsPlanned
  <1>4. PICK old : old = jobs[j].plan
    OBVIOUS
  <1>5. PICK D \in SUBSET Nat : old \in [D -> Actions]
    BY <1>1, <1>4 DEF Works, Plans
  <1> DEFINE plan == [old EXCEPT ![k].state = state]
             x == [jobs[j] EXCEPT !.plan = plan, !.pc = After(plan)]
  <1>6. jobs' = [jobs EXCEPT ![j] = x]
    BY <1>2, <1>4 DEF Settle
  <1>7. /\ plan \in [D -> Actions] /\ plan[k].state = state
        /\ plan[k].target = old[k].target /\ plan[k].line = old[k].line
        /\ \A o \in D : o # k => plan[o] = old[o]
    BY <1>3, <1>4, <1>5 DEF Actions
  <1> HIDE DEF plan
  <1>8. plan \in Plans /\ After(plan) \in {"act", "lookup"} /\ DOMAIN plan = D
    BY <1>7 DEF Plans, After
  <1>9. /\ x \in Works /\ x.who = jobs[j].who /\ x.sid = jobs[j].sid
        /\ x.body = jobs[j].body /\ x.raw = jobs[j].raw /\ x.pc = After(plan)
        /\ x.plan = plan /\ x.sent = jobs[j].sent /\ x.knew = jobs[j].knew
    BY <1>1, <1>8 DEF Works
  <1> HIDE DEF x
  <1>10. \A o \in D : plan[o].state = "planned" => o # k /\ old[o].state = "planned"
    BY <1>7
  <1>11. \A o \in D : plan[o].state = "applied" =>
           \/ o = k /\ state = "applied"
           \/ o # k /\ old[o].state = "applied"
    BY <1>7
  <1>12. CloseSound(n, v, x)
    <2>1. CloseSound(n, v, jobs[j])
      BY <1>1, CloseStays DEF Ids
    <2>2. /\ After(plan) = "act" => \E o \in D : plan[o].state = "planned"
          /\ After(plan) = "lookup" => \A o \in D : plan[o].state # "planned"
      BY <1>8 DEF After
    <2>3. \A o \in D : plan[o].state = "planned" =>
            plan[o].target \in DOMAIN n /\ n[plan[o].target].kind = "knowledge_item"
      BY <1>4, <1>5, <1>7, <1>10, <2>1 DEF CloseSound
    <2> QED
      BY <1>8, <1>9, <2>1, <2>2, <2>3 DEF CloseSound
  <1>13. AccountSound(n, j, x)
    <2> SUFFICES ASSUME jobs[j].who \in {"idle", "notice", "shutdown"}
                 PROVE  AccountSound(n, j, x)
      BY <1>9 DEF AccountSound
    <2>1. AccountSound(n, j, jobs[j])
      BY <1>1, AccountStays
    <2>2. jobs[j].sent = {} /\ jobs[j].raw
      BY <2>1 DEF AccountSound
    <2>3. \A o \in D : plan[o].state = "applied" =>
            /\ plan[o].target \in DOMAIN n /\ j \in n[plan[o].target].from
            /\ n[plan[o].target].kind = "knowledge_item"
      <3>1. \A o \in D : old[o].state = "applied" =>
              /\ old[o].target \in DOMAIN n /\ j \in n[old[o].target].from
              /\ n[old[o].target].kind = "knowledge_item"
        BY <1>4, <1>5, <2>1 DEF AccountSound
      <3>2. old[k].target \in DOMAIN n /\ n[old[k].target].kind = "knowledge_item"
        BY <1>3, <1>4 DEF Grows, Ids
      <3>3. state = "applied" => j \in n[old[k].target].from
        BY <1>2, <1>4
      <3> QED
        BY <1>7, <1>11, <3>1, <3>2, <3>3
    <2> QED
      BY <1>8, <1>9, <2>2, <2>3 DEF AccountSound
  <1> QED
    BY <1>6, <1>8, <1>9, <1>12, <1>13

LEMMA ApplyStep ==
    ASSUME TrackerInv, NEW j \in Job, UNCHANGED tracker,
           executeActions(j) \/ applyUpdateAction(j) \/ ApplyErrs(j)
    PROVE  TrackerInv'
  <1>1. PICK k : k = Current(j)
    OBVIOUS
  <1>2. PICK i : i = jobs[j].plan[k].target
    OBVIOUS
  <1>3. jobs[j].pc \in {"act", "update"}
    BY DEF executeActions, applyUpdateAction, ApplyErrs
  <1>4. i \in Ids /\ mem[i].kind = "knowledge_item"
    BY <1>1, <1>2, <1>3, CurrentIsPlanned
  <1>5. phase' = phase /\ current' = current /\ current \in Seq(Lines) \cup {NoSession}
    BY DEF tracker, TrackerInv, TrackerShape
  <1>6. \/ Goto(j, "update") /\ jobs[j].pc = "act" /\ UNCHANGED <<mem, unseen>>
        \/ Settle(j, k, "review_required") /\ UNCHANGED <<mem, unseen>>
        \/ Rewrite(i, mergeMetadata(mem[i], j)) /\ Settle(j, k, "applied")
    BY <1>1, <1>2 DEF executeActions, applyUpdateAction, ApplyErrs, ApplyFails
  <1>7. CASE Goto(j, "update") /\ jobs[j].pc = "act" /\ UNCHANGED <<mem, unseen>>
    BY <1>5, <1>7, OneMoves
  <1>8. CASE Settle(j, k, "review_required") /\ UNCHANGED <<mem, unseen>>
    <2>1. Settle(j, Current(j), "review_required")
      BY <1>1, <1>8
    <2>2. PICK x \in Works :
             /\ jobs' = [jobs EXCEPT ![j] = x]
             /\ x.who = jobs[j].who /\ x.sid = jobs[j].sid /\ x.body = jobs[j].body
             /\ x.pc \in {"act", "lookup"}
             /\ CloseSound(mem, unseen, x) /\ AccountSound(mem, j, x)
      BY <1>3, <2>1, Unchanging, SettledWork
    <2> QED
      BY <1>5, <1>8, <2>2, OneClose
  <1>9. CASE Rewrite(i, mergeMetadata(mem[i], j)) /\ Settle(j, k, "applied")
    <2> DEFINE rec == mergeMetadata(mem[i], j)
    <2>1. mem \in Seq(Records) /\ i \in 1 .. Len(mem) /\ mem[i] \in Records
      BY <1>4, ElementOfSeq DEF TrackerInv, TrackerShape, Ids
    <2>2. j \in Nat /\ jobs \in Seq(Works) /\ j \in 1 .. Len(jobs)
      BY DEF TrackerInv, TrackerShape, Job
    <2>3. /\ rec \in Records /\ rec.kind = mem[i].kind /\ rec.sid = mem[i].sid
          /\ rec.knew = mem[i].knew /\ rec.vector = mem[i].vector
          /\ rec.from = mem[i].from \cup {j} /\ rec.dropped = mem[i].dropped
      BY <2>1, <2>2 DEF mergeMetadata, Records
    <2>4. mem' = [mem EXCEPT ![i] = rec] /\ unseen' = unseen
      BY <1>9 DEF Rewrite
    <2> HIDE DEF rec
    <2>5. /\ mem' \in Seq(Records) /\ DOMAIN mem' = Ids /\ mem'[i] = rec
          /\ \A o \in Ids : o # i => mem'[o] = mem[o]
      BY <2>1, <2>3, <2>4, ExceptSeq DEF Ids
    <2>6. Grows(mem, mem')
      BY <1>4, <2>3, <2>5 DEF Grows, Ids, Closes
    <2>7. j \in mem'[jobs[j].plan[Current(j)].target].from
      BY <1>1, <1>2, <2>3, <2>5
    <2>8. Settle(j, Current(j), "applied")
      BY <1>1, <1>9
    <2>9. PICK x \in Works :
             /\ jobs' = [jobs EXCEPT ![j] = x]
             /\ x.who = jobs[j].who /\ x.sid = jobs[j].sid /\ x.body = jobs[j].body
             /\ x.pc \in {"act", "lookup"}
             /\ CloseSound(mem', unseen', x) /\ AccountSound(mem', j, x)
      BY <1>3, <2>4, <2>6, <2>7, <2>8, SettledWork
    <2>10. /\ jobs' \in Seq(Works) /\ DOMAIN jobs' = Job /\ jobs'[j] = x
           /\ \A o \in Job : o # j => jobs'[o] = jobs[o]
      BY <2>2, <2>9, ExceptSeq DEF Job
    <2>11. TrackerShape'
      BY <1>5, <2>5, <2>10 DEF TrackerInv, TrackerShape
    <2>12. Drained'
      BY <1>5, <2>9, <2>10 DEF TrackerInv, Drained, Registered, Job, IsWorker
    <2>13. Follow(jobs, jobs')
      BY <2>9, <2>10 DEF Follow, Job
    <2>14. RecordSound(mem', jobs', i)
      <3>1. RecordSound(mem, jobs, i)
        BY <1>4 DEF TrackerInv
      <3> QED
        BY <1>4, <2>3, <2>5, <2>10, <3>1 DEF RecordSound, Ids, Job, Closes
    <2> QED
      BY <2>4, <2>5, <2>6, <2>9, <2>10, <2>11, <2>12, <2>13, <2>14, EverythingKept
         DEF Ids, Job, SameContent
  <1> QED
    BY <1>6, <1>7, <1>8, <1>9

-----------------------------------------------------------------------------
(* What goes into the bank.                                                *)

\* A close takes a step and appends a record, into which only it went.
LEMMA OneStores ==
    ASSUME TrackerInv, NEW j \in Job, NEW x \in Works, jobs' = [jobs EXCEPT ![j] = x],
           NEW rec \in Records, Store(j, rec), rec.from = {j}, rec.dropped = {},
           UNCHANGED tracker,
           x.who = jobs[j].who, x.sid = jobs[j].sid,
           ToSet(x.body) \subseteq ToSet(jobs[j].body),
           x.pc \notin {"check", "store"} \/ jobs[j].pc \in {"check", "store"},
           rec.knew \subseteq Ids,
           rec.kind = "session_summary" =>
             /\ rec.alive /\ rec.sid = jobs[j].sid /\ rec.body = jobs[j].body
             /\ \A o \in rec.knew : ~(IsTerminalRecord(o) /\ mem[o].sid = rec.sid),
           rec.kind = "session_checkpoint" => (jobs[j].who = "worker" => rec.vector),
           CloseSound(mem, unseen, x),
           AccountSound(Append(mem, rec), j, x)
    PROVE  TrackerInv'
  <1>1. /\ mem \in Seq(Records) /\ jobs \in Seq(Works) /\ j \in 1 .. Len(jobs)
        /\ Ids = 1 .. Len(mem) /\ Len(mem) \in Nat /\ Job = 1 .. Len(jobs)
    BY DEF TrackerInv, TrackerShape, Job, Ids
  <1>2. /\ jobs' \in Seq(Works) /\ DOMAIN jobs' = Job /\ jobs'[j] = x
        /\ \A o \in Job : o # j => jobs'[o] = jobs[o]
    BY <1>1, ExceptSeq DEF Job
  <1>3. mem' = Append(mem, rec) /\ unseen' \subseteq unseen \cup {Len(mem) + 1}
    BY DEF Store
  <1> DEFINE new == Len(mem) + 1
  <1>4. /\ mem' \in Seq(Records) /\ DOMAIN mem' = Ids \cup {new} /\ mem'[new] = rec
        /\ \A i \in Ids : mem'[i] = mem[i]
    BY <1>1, <1>3, AppendProperties
  <1>5. new \notin Ids
    BY <1>1
  <1> HIDE DEF new
  <1>6. current' = current /\ phase' = phase
    BY DEF tracker
  <1>7. TrackerShape'
    BY <1>2, <1>4, <1>6 DEF TrackerInv, TrackerShape
  <1>8. Drained'
    <2>1. \A o \in Job : jobs'[o].who = "worker" /\ jobs'[o].pc \in {"check", "store"}
            => jobs[o].who = "worker" /\ jobs[o].pc \in {"check", "store"}
      BY <1>2
    <2> QED
      BY <1>2, <1>6, <2>1 DEF TrackerInv, Drained, Registered, Job, IsWorker
  <1>9. Follow(jobs, jobs')
    BY <1>2 DEF Follow, Job
  <1>10. Grows(mem, mem')
    BY <1>4 DEF Grows, Ids, Closes
  <1>11. unseen' \cap Ids \subseteq unseen
    BY <1>3, <1>5 DEF new
  <1>12. CloseSound(mem', unseen', x)
    BY <1>10, <1>11, CloseStays DEF Ids
  <1>13. AccountSound(mem', j, x)
    BY <1>3
  <1>14. RecordSound(mem', jobs', new)
    <2>1. /\ mem'[new].from = {j} /\ jobs'[j].sid = jobs[j].sid
          /\ jobs'[j].who = jobs[j].who /\ {j} \subseteq DOMAIN jobs'
          /\ mem'[new].dropped = {} /\ Closes(mem', new) = {j}
      BY <1>2, <1>4 DEF Closes
    <2>2. mem'[new].knew \subseteq Ids /\ Ids \subseteq DOMAIN mem'
      BY <1>4
    <2>3. ASSUME mem'[new].kind = "session_summary"
          PROVE  /\ mem'[new].alive /\ TextSound(mem', jobs', new)
                 /\ \A o \in Closes(mem', new) : jobs'[o].sid = mem'[new].sid
                 /\ \A o \in DOMAIN mem' \ {new} :
                      mem'[o].kind = "session_summary" /\ mem'[o].sid = mem'[new].sid
                        => o \notin mem'[new].knew
      <3>1. TextSound(mem', jobs', new)
        BY <1>2, <1>4, <2>1, <2>3 DEF TextSound
      <3> QED
        BY <1>4, <2>1, <2>2, <2>3, <3>1 DEF IsTerminalRecord, IsSessionSummaryMemory
    <2>4. mem'[new].kind = "session_checkpoint" =>
            \A o \in mem'[new].from : jobs'[o].who = "worker" => mem'[new].vector
      BY <1>4, <2>1
    <2> QED
      BY <2>1, <2>2, <2>3, <2>4 DEF RecordSound
  <1> QED
    BY <1>2, <1>4, <1>7, <1>8, <1>9, <1>10, <1>11, <1>12, <1>13, <1>14, EverythingKept
       DEF Ids, Job, SameContent

\* Looking for the session's record finds it, if the close knew of one when it
\* began: the cache shows what it showed then, and summaries are not deleted.
LEMMA TargetFound ==
    ASSUME TrackerInv, NEW j \in Job
    PROVE  /\ findConsolidationTarget(j) \in Nat
           /\ findConsolidationTarget(j) = 0 =>
                \A o \in jobs[j].knew : ~(IsTerminalRecord(o) /\ mem[o].sid = jobs[j].sid)
           /\ findConsolidationTarget(j) # 0 =>
                /\ findConsolidationTarget(j) \in Ids
                /\ IsTerminalRecord(findConsolidationTarget(j))
                /\ mem[findConsolidationTarget(j)].sid = jobs[j].sid
  <1> DEFINE found == {i \in Listed(j) : IsTerminalRecord(i) /\ mem[i].sid = jobs[j].sid}
  <1>1. Ids = 1 .. Len(mem) /\ Len(mem) \in Nat
    BY DEF TrackerInv, TrackerShape, Ids
  <1>2. \A i \in found : i \in Ids /\ IsTerminalRecord(i) /\ mem[i].sid = jobs[j].sid
    BY DEF Listed
  <1>3. \A o \in jobs[j].knew : IsTerminalRecord(o) /\ mem[o].sid = jobs[j].sid => o \in found
    <2> SUFFICES ASSUME NEW o \in jobs[j].knew, IsTerminalRecord(o)
                 PROVE  o \in Listed(j)
      OBVIOUS
    <2>1. CloseSound(mem, unseen, jobs[j])
      BY DEF TrackerInv
    <2>2. o \in Ids /\ (jobs[j].who # "hook" => o \notin unseen)
      BY <2>1 DEF CloseSound, Ids
    <2>3. Alive(o)
      <3>1. RecordSound(mem, jobs, o)
        BY <2>2 DEF TrackerInv
      <3> QED
        BY <3>1 DEF RecordSound, IsTerminalRecord, IsSessionSummaryMemory, Alive
    <2> QED
      BY <2>2, <2>3 DEF Listed
  <1>4. findConsolidationTarget(j) =
          IF found = {} THEN 0 ELSE CHOOSE i \in found : \A o \in found : o <= i
    BY DEF findConsolidationTarget
  <1> HIDE DEF found
  <1>5. found # {} => findConsolidationTarget(j) \in found
    <2> SUFFICES ASSUME found # {} PROVE findConsolidationTarget(j) \in found
      OBVIOUS
    <2>1. found \in SUBSET (1 .. Len(mem))
      BY <1>1, <1>2
    <2>2. \E i \in found : \A o \in found : o <= i
      BY <1>1, <2>1, Greatest
    <2> QED
      BY <1>4, <2>2
  <1>6. 0 \notin Ids /\ Ids \subseteq Nat
    BY <1>1
  <1>7. CASE found = {}
    <2>1. findConsolidationTarget(j) = 0
      BY <1>4, <1>7
    <2> QED
      BY <1>3, <1>7, <2>1
  <1>8. CASE found # {}
    <2>1. PICK target : target = findConsolidationTarget(j)
      OBVIOUS
    <2>2. target \in Ids /\ IsTerminalRecord(target) /\ mem[target].sid = jobs[j].sid
      BY <1>2, <1>5, <1>8, <2>1
    <2> QED
      BY <1>6, <2>1, <2>2
  <1> QED
    BY <1>7, <1>8

LEMMA LookUpStep ==
    ASSUME TrackerInv, NEW j \in Job, LookUp(j), UNCHANGED tracker
    PROVE  TrackerInv'
  <1>1. /\ jobs[j] \in Works /\ CloseSound(mem, unseen, jobs[j])
        /\ AccountSound(mem, j, jobs[j]) /\ jobs[j].pc = "lookup"
    BY ElementOfSeq DEF TrackerInv, TrackerShape, Job, LookUp
  <1>2. /\ UNCHANGED <<mem, unseen, phase>>
        /\ current' \in Seq(Lines) \cup {NoSession}
    BY DEF LookUp, tracker, TrackerInv, TrackerShape
  <1>3. CASE ~jobs[j].raw \/ NoiseReason(jobs[j].body)
    <2>1. Goto(j, "persist")
      BY <1>3 DEF LookUp
    <2>2. jobs[j].who \in {"idle", "notice", "shutdown"} => NoiseReason(jobs[j].body)
      BY <1>1, <1>3 DEF AccountSound
    <2> QED
      BY <1>1, <1>2, <2>1, <2>2, OneMoves
  <1>4. CASE ~(~jobs[j].raw \/ NoiseReason(jobs[j].body))
    <2>1. PICK target : target = findConsolidationTarget(j)
      OBVIOUS
    <2> DEFINE text == IF target = 0 THEN <<>> ELSE mem[target].body
               x == [jobs[j] EXCEPT !.target = target, !.pc = "save", !.read = text]
    <2>2. jobs' = [jobs EXCEPT ![j] = x]
      BY <1>4, <2>1 DEF LookUp
    <2>3. target \in Nat /\ text \in Seq(Lines)
      <3>1. target \in Nat /\ (target # 0 => target \in Ids)
        BY <2>1, TargetFound
      <3>2. \A i \in Ids : mem[i].body \in Seq(Lines)
        <4>1. mem \in Seq(Records) /\ Ids = 1 .. Len(mem)
          BY DEF TrackerInv, TrackerShape, Ids
        <4>2. \A i \in Ids : mem[i] \in Records
          BY <4>1, ElementOfSeq
        <4> QED
          BY <4>2 DEF Records
      <3> QED
        BY <3>1, <3>2
    <2> HIDE DEF text
    <2>4. /\ x \in Works /\ x.who = jobs[j].who /\ x.sid = jobs[j].sid
          /\ x.body = jobs[j].body /\ x.raw = jobs[j].raw /\ x.pc = "save"
          /\ x.target = target
          /\ x.plan = jobs[j].plan /\ x.sent = jobs[j].sent /\ x.knew = jobs[j].knew
      BY <1>1, <2>3 DEF Works
    <2> HIDE DEF x
    <2>5. /\ target = 0 =>
               \A o \in jobs[j].knew : ~(mem[o].kind = "session_summary"
                                         /\ mem[o].sid = jobs[j].sid)
          /\ target # 0 => /\ target \in DOMAIN mem
                           /\ mem[target].kind = "session_summary"
                           /\ mem[target].sid = jobs[j].sid
      BY <2>1, TargetFound DEF IsTerminalRecord, IsSessionSummaryMemory, Ids
    <2>6. CloseSound(mem, unseen, x)
      BY <1>1, <2>4, <2>5 DEF CloseSound
    <2>7. AccountSound(mem, j, x)
      BY <1>1, <2>4 DEF AccountSound
    <2> QED
      BY <1>2, <2>2, <2>4, <2>6, <2>7, OneClose
  <1> QED
    BY <1>3, <1>4

LEMMA AppendGrows ==
    ASSUME NEW m \in Seq(Records), NEW rec \in Records
    PROVE  /\ Grows(m, Append(m, rec)) /\ Append(m, rec) \in Seq(Records)
           /\ DOMAIN Append(m, rec) = DOMAIN m \cup {Len(m) + 1}
           /\ Append(m, rec)[Len(m) + 1] = rec
  <1>1. /\ Append(m, rec) \in Seq(Records) /\ Len(Append(m, rec)) = Len(m) + 1
        /\ \A i \in 1 .. Len(m) : Append(m, rec)[i] = m[i]
        /\ Append(m, rec)[Len(m) + 1] = rec
    BY AppendProperties
  <1>2. /\ DOMAIN m = 1 .. Len(m) /\ Len(m) \in Nat
        /\ DOMAIN Append(m, rec) = 1 .. Len(Append(m, rec))
    BY <1>1
  <1>3. DOMAIN Append(m, rec) = DOMAIN m \cup {Len(m) + 1}
    BY <1>1, <1>2
  <1> QED
    BY <1>1, <1>2, <1>3 DEF Grows, Closes

\* What folding a text into a summary leaves of the texts that were in it.
LEMMA FoldedFacts ==
    ASSUME NEW rec \in Records, NEW j \in Nat, jobs[j].body \in Seq(Lines),
           rec.from # {}, rec.from \cap rec.dropped = {},
           \A o \in rec.from : ToSet(jobs[o].body) \subseteq ToSet(rec.body)
    PROVE  /\ Folded(rec, j) \in Records /\ Folded(rec, j).kind = rec.kind
           /\ Folded(rec, j).sid = rec.sid /\ Folded(rec, j).knew = rec.knew
           /\ Folded(rec, j).vector = rec.vector /\ Folded(rec, j).alive = rec.alive
           /\ Folded(rec, j).from # {}
           /\ Folded(rec, j).from \cap Folded(rec, j).dropped = {}
           /\ Folded(rec, j).from \cup Folded(rec, j).dropped
                = rec.from \cup rec.dropped \cup {j}
           /\ \A o \in Folded(rec, j).from :
                ToSet(jobs[o].body) \subseteq ToSet(Folded(rec, j).body)
  <1>1. PICK text : text = IF shouldReplaceContent(jobs[j].read, jobs[j].body)
                           THEN jobs[j].body ELSE rec.body
    OBVIOUS
  <1>2. PICK kept : kept = {o \in rec.from : ToSet(rec.body) \subseteq ToSet(text)}
                             \cup {o \in {j} : ToSet(jobs[j].body) \subseteq ToSet(text)}
    OBVIOUS
  <1>3. PICK gone : gone = (rec.dropped \cup rec.from \cup {j}) \ kept
    OBVIOUS
  <1>4. Folded(rec, j) = [rec EXCEPT !.body = text, !.from = kept, !.dropped = gone]
    BY <1>1, <1>2, <1>3, Zenon DEF Folded
  <1>5. text \in Seq(Lines) /\ (text = jobs[j].body \/ text = rec.body)
    BY <1>1 DEF Records
  <1>6. rec.from \subseteq Nat /\ rec.dropped \subseteq Nat
    BY DEF Records
  <1>7. kept \subseteq rec.from \cup {j} /\ kept \subseteq Nat /\ gone \subseteq Nat
    BY <1>2, <1>3, <1>6
  <1>8. kept # {}
    <2>1. CASE text = jobs[j].body
      BY <1>2, <2>1
    <2>2. CASE text = rec.body
      BY <1>2, <2>2
    <2> QED
      BY <1>5, <2>1, <2>2
  <1>9. kept \cap gone = {} /\ kept \cup gone = rec.from \cup rec.dropped \cup {j}
    BY <1>3, <1>7
  <1>10. \A o \in kept : ToSet(jobs[o].body) \subseteq ToSet(text)
    BY <1>2
  <1>11. /\ Folded(rec, j) \in Records /\ Folded(rec, j).kind = rec.kind
         /\ Folded(rec, j).sid = rec.sid /\ Folded(rec, j).knew = rec.knew
         /\ Folded(rec, j).vector = rec.vector /\ Folded(rec, j).alive = rec.alive
         /\ Folded(rec, j).from = kept /\ Folded(rec, j).dropped = gone
         /\ Folded(rec, j).body = text
    BY <1>4, <1>5, <1>7 DEF Records
  <1> QED
    BY <1>8, <1>9, <1>10, <1>11

\* The raw text becomes the session's record, or goes into it.
LEMMA SaveStep ==
    ASSUME TrackerInv, NEW j \in Job, SaveRawSummary(j), UNCHANGED tracker
    PROVE  TrackerInv'
  <1> DEFINE x == [jobs[j] EXCEPT !.pc = "persist"]
  <1>1. /\ jobs[j] \in Works /\ CloseSound(mem, unseen, jobs[j])
        /\ AccountSound(mem, j, jobs[j]) /\ jobs[j].pc = "save" /\ j \in Nat
        /\ mem \in Seq(Records) /\ jobs \in Seq(Works) /\ j \in 1 .. Len(jobs)
    BY ElementOfSeq DEF TrackerInv, TrackerShape, Job, SaveRawSummary
  <1>2. jobs' = [jobs EXCEPT ![j] = x]
    BY DEF SaveRawSummary, Goto
  <1>3. /\ x \in Works /\ x.who = jobs[j].who /\ x.sid = jobs[j].sid
        /\ x.body = jobs[j].body /\ x.raw = jobs[j].raw /\ x.pc = "persist"
        /\ x.plan = jobs[j].plan /\ x.sent = jobs[j].sent /\ x.knew = jobs[j].knew
    BY <1>1 DEF Works
  <1> HIDE DEF x
  <1>4. CloseSound(mem, unseen, x)
    BY <1>1, <1>3 DEF CloseSound
  <1>5. ASSUME NEW n, Grows(mem, n),
               \E i \in DOMAIN n : n[i].kind = "session_summary" /\ j \in Closes(n, i)
        PROVE  AccountSound(n, j, x)
    <2>1. AccountSound(n, j, jobs[j])
      BY <1>1, <1>5, AccountStays
    <2> QED
      BY <1>1, <1>3, <1>5, <2>1 DEF AccountSound
  <1>6. CASE jobs[j].target = 0
    <2> DEFINE rec == Record("session_summary", jobs[j].body, jobs[j].sid, j, Earlier(j))
    <2>1. Store(j, rec)
      BY <1>6 DEF SaveRawSummary
    <2>2. Earlier(j) \subseteq Ids /\ Earlier(j) \subseteq jobs[j].knew /\ Earlier(j) \subseteq Nat
      BY <1>1 DEF Earlier, CloseSound, Ids
    <2>3. /\ rec \in Records /\ rec.kind = "session_summary" /\ rec.from = {j} /\ rec.alive
          /\ rec.sid = jobs[j].sid /\ rec.knew = Earlier(j) /\ rec.dropped = {}
          /\ rec.body = jobs[j].body
      BY <1>1, <2>2 DEF Record, Records, Works
    <2> HIDE DEF rec
    <2>4. \A o \in rec.knew : ~(IsTerminalRecord(o) /\ mem[o].sid = rec.sid)
      BY <1>1, <1>6, <2>2, <2>3 DEF CloseSound, IsTerminalRecord, IsSessionSummaryMemory
    <2>5. AccountSound(Append(mem, rec), j, x)
      <3>1. PICK n \in Seq(Records) : n = Append(mem, rec)
        BY <1>1, <2>3, AppendGrows
      <3>2. Grows(mem, n) /\ Len(mem) + 1 \in DOMAIN n /\ n[Len(mem) + 1] = rec
        BY <1>1, <2>3, <3>1, AppendGrows
      <3>3. \E i \in DOMAIN n : n[i].kind = "session_summary" /\ j \in Closes(n, i)
        BY <2>3, <3>2 DEF Closes
      <3>4. AccountSound(n, j, x)
        BY <1>5, <3>2, <3>3
      <3> QED
        BY <3>1, <3>4
    <2> QED
      BY <1>2, <1>3, <1>4, <2>1, <2>2, <2>3, <2>4, <2>5, OneStores
  <1>7. CASE jobs[j].target # 0
    <2>1. PICK i : i = jobs[j].target
      OBVIOUS
    <2>2. /\ i \in Ids /\ mem[i].kind = "session_summary" /\ mem[i].sid = jobs[j].sid
          /\ mem[i] \in Records /\ i \in 1 .. Len(mem)
      BY <1>1, <1>7, <2>1, ElementOfSeq DEF CloseSound, Ids
    <2>3. PICK rec : rec = Folded(mem[i], j)
      OBVIOUS
    <2>4. mem' = [mem EXCEPT ![i] = rec] /\ unseen' = unseen
      BY <1>7, <2>1, <2>3 DEF SaveRawSummary, Rewrite
    <2>5. RecordSound(mem, jobs, i)
      BY <2>2 DEF TrackerInv
    <2>6. /\ rec \in Records /\ rec.kind = mem[i].kind /\ rec.sid = mem[i].sid
          /\ rec.knew = mem[i].knew /\ rec.vector = mem[i].vector
          /\ rec.alive = mem[i].alive /\ rec.from # {} /\ rec.from \cap rec.dropped = {}
          /\ rec.from \cup rec.dropped = mem[i].from \cup mem[i].dropped \cup {j}
          /\ \A o \in rec.from : ToSet(jobs[o].body) \subseteq ToSet(rec.body)
      <3>1. PICK old \in Records : old = mem[i]
        BY <2>2
      <3>2. jobs[j].body \in Seq(Lines) /\ TextSound(mem, jobs, i)
        BY <1>1, <2>2, <2>5 DEF RecordSound, Works
      <3>3. /\ old.from # {} /\ old.from \cap old.dropped = {}
            /\ \A o \in old.from : ToSet(jobs[o].body) \subseteq ToSet(old.body)
        BY <3>1, <3>2 DEF TextSound
      <3>4. rec = Folded(old, j)
        BY <2>3, <3>1
      <3> QED
        BY <1>1, <3>1, <3>2, <3>3, <3>4, FoldedFacts
    <2>7. /\ mem' \in Seq(Records) /\ DOMAIN mem' = Ids /\ mem'[i] = rec
          /\ \A o \in Ids : o # i => mem'[o] = mem[o]
      BY <1>1, <2>2, <2>4, <2>6, ExceptSeq DEF Ids
    <2>8. Grows(mem, mem')
      BY <2>2, <2>6, <2>7 DEF Grows, Ids, Closes
    <2>9. CloseSound(mem', unseen', x)
      BY <1>4, <2>4, <2>8, CloseStays
    <2>10. AccountSound(mem', j, x)
      <3>1. /\ i \in DOMAIN mem' /\ mem'[i].kind = "session_summary"
            /\ j \in Closes(mem', i)
        BY <2>2, <2>6, <2>7 DEF Closes
      <3> QED
        BY <1>5, <2>8, <3>1
    <2>11. /\ jobs' \in Seq(Works) /\ DOMAIN jobs' = Job /\ jobs'[j] = x
           /\ \A o \in Job : o # j => jobs'[o] = jobs[o]
      BY <1>1, <1>2, <1>3, ExceptSeq DEF Job
    <2>12. TrackerShape'
      BY <2>7, <2>11 DEF TrackerInv, TrackerShape, tracker
    <2>13. Drained'
      BY <1>3, <2>11 DEF TrackerInv, Drained, Registered, Job, IsWorker, tracker
    <2>14. Follow(jobs, jobs')
      BY <1>3, <2>11 DEF Follow, Job
    <2>15. RecordSound(mem', jobs', i)
      <3>1. \A o \in Ids : mem'[o].kind = mem[o].kind /\ mem'[o].sid = mem[o].sid
        BY <2>8 DEF Grows, Ids
      <3>2. Closes(mem', i) = Closes(mem, i) \cup {j}
        BY <2>6, <2>7 DEF Closes
      <3>3. Closes(mem', i) \subseteq DOMAIN jobs' /\ mem'[i].knew \subseteq DOMAIN mem'
        BY <2>5, <2>6, <2>7, <2>11, <3>2 DEF RecordSound, Ids, Job
      <3>4. mem'[i].alive
        BY <2>2, <2>5, <2>6, <2>7 DEF RecordSound
      <3>5. \A o \in Closes(mem', i) : jobs'[o].sid = mem'[i].sid
        BY <2>2, <2>5, <2>6, <2>7, <2>14, <3>2 DEF RecordSound, Follow, Job
      <3>6. \A o \in DOMAIN mem' \ {i} :
              mem'[o].kind = "session_summary" /\ mem'[o].sid = mem'[i].sid
                => o \notin mem'[i].knew
        BY <2>2, <2>5, <2>6, <2>7, <3>1 DEF RecordSound, Ids
      <3>7. mem'[i].kind = "session_summary"
        BY <2>2, <2>6, <2>7
      <3>8. \A o \in Job : jobs'[o].body = jobs[o].body
        BY <1>3, <2>11
      <3>9. rec.from \subseteq Job
        BY <2>7, <2>11, <3>3 DEF Closes, Job
      <3>10. TextSound(mem', jobs', i)
        BY <2>6, <2>7, <3>8, <3>9 DEF TextSound
      <3> QED
        BY <3>3, <3>4, <3>5, <3>6, <3>7, <3>10 DEF RecordSound
    <2> QED
      BY <2>4, <2>7, <2>8, <2>9, <2>10, <2>11, <2>12, <2>13, <2>14, <2>15,
         EverythingKept DEF Ids, Job, SameContent
  <1> QED
    BY <1>6, <1>7

\* A checkpoint is stored; one of a worker that Close waits for in time.
LEMMA CheckpointStep ==
    ASSUME TrackerInv, NEW j \in Job, SaveCheckpoint(j, Cancelled(j)), UNCHANGED tracker
    PROVE  TrackerInv'
  <1> DEFINE x == Ended(jobs[j], "done")
             rec == [Record("session_checkpoint", jobs[j].body, jobs[j].sid, j, {})
                     EXCEPT !.vector = ~Cancelled(j)]
  <1>1. /\ jobs[j] \in Works /\ AccountSound(mem, j, jobs[j]) /\ jobs[j].pc = "store"
        /\ j \in Nat
    BY ElementOfSeq DEF TrackerInv, TrackerShape, Job, SaveCheckpoint
  <1>2. jobs' = [jobs EXCEPT ![j] = x] /\ Store(j, rec)
    BY DEF SaveCheckpoint, Finish
  <1>3. /\ x \in Works /\ x.pc = "done" /\ x.who = jobs[j].who /\ x.sid = jobs[j].sid
        /\ x.raw = jobs[j].raw /\ DOMAIN x.plan = {} /\ x.sent = {} /\ x.knew = {}
        /\ ToSet(x.body) = {}
    BY <1>1, EndedFacts DEF Over
  <1>4. Cancelled(j) \in BOOLEAN
    BY DEF Cancelled
  <1>5. /\ rec \in Records /\ rec.kind = "session_checkpoint" /\ rec.from = {j}
        /\ rec.dropped = {} /\ rec.knew = {} /\ (rec.vector <=> ~Cancelled(j))
    BY <1>1, <1>4 DEF Record, Records, Works
  <1> HIDE DEF x, rec
  <1>6. jobs[j].who = "worker" => rec.vector
    <2> SUFFICES ASSUME jobs[j].who = "worker" PROVE ~Cancelled(j)
      BY <1>5
    <2>1. j \in Registered
      BY <1>1 DEF Registered, IsWorker
    <2>2. phase # "closed"
      BY <2>1 DEF TrackerInv, Drained
    <2> QED
      BY <2>2 DEF Cancelled
  <1>7. CloseSound(mem, unseen, x)
    BY <1>3 DEF CloseSound
  <1>8. AccountSound(Append(mem, rec), j, x)
    BY <1>1, <1>3 DEF AccountSound, Over
  <1> QED
    BY <1>2, <1>3, <1>5, <1>6, <1>7, <1>8, OneStores

\* An action left to review goes into the queue.
LEMMA QueueStep ==
    ASSUME TrackerInv, NEW j \in Job, persistReviewQueue(j), UNCHANGED tracker
    PROVE  TrackerInv'
  <1>1. /\ jobs[j] \in Works /\ CloseSound(mem, unseen, jobs[j])
        /\ AccountSound(mem, j, jobs[j]) /\ jobs[j].pc = "persist" /\ j \in Nat
        /\ mem \in Seq(Records) /\ IsTracked(j)
    BY ElementOfSeq DEF TrackerInv, TrackerShape, Job, persistReviewQueue
  <1>2. CASE SuppressReviewQueue \/ Pending(j) = {}
    <2>1. Finish(j, "done") /\ UNCHANGED <<mem, unseen>>
      BY <1>2 DEF persistReviewQueue
    <2>2. phase' = phase /\ current' \in Seq(Lines) \cup {NoSession}
      BY DEF tracker, TrackerInv, TrackerShape
    <2> QED
      BY <2>1, <2>2, OneEnds DEF Over
  <1>3. CASE ~(SuppressReviewQueue \/ Pending(j) = {})
    <2>1. PICK k : k = Unsent(j)
      OBVIOUS
    <2>2. k \in DOMAIN jobs[j].plan /\ k \in Nat /\ jobs[j].plan[k].line \in Lines
      <3>1. Pending(j) \subseteq DOMAIN jobs[j].plan
        BY DEF Pending
      <3>2. PICK D \in SUBSET Nat : jobs[j].plan \in [D -> Actions]
        BY <1>1 DEF Works, Plans
      <3>3. \E o \in Pending(j) : \A q \in Pending(j) : o <= q
        BY <1>3, <3>1, <3>2, Least
      <3>4. k \in Pending(j)
        BY <2>1, <3>3 DEF Unsent
      <3> QED
        BY <3>1, <3>2, <3>4 DEF Actions
    <2> DEFINE rec == Record("review_queue_item", <<jobs[j].plan[k].line>>, NoSid, j, {})
               x == [jobs[j] EXCEPT !.sent = @ \cup {k}]
    <2>3. Store(j, rec) /\ jobs' = [jobs EXCEPT ![j] = x]
      BY <1>3, <2>1 DEF persistReviewQueue
    <2>4. <<jobs[j].plan[k].line>> \in Seq(Lines)
      BY <2>2
    <2>5. /\ rec \in Records /\ rec.kind = "review_queue_item" /\ rec.from = {j}
          /\ rec.dropped = {} /\ rec.knew = {} /\ rec.body = <<jobs[j].plan[k].line>>
      BY <1>1, <2>4 DEF Record, Records
    <2>6. /\ x \in Works /\ x.who = jobs[j].who /\ x.sid = jobs[j].sid
          /\ x.body = jobs[j].body /\ x.raw = jobs[j].raw /\ x.pc = "persist"
          /\ x.plan = jobs[j].plan /\ x.sent = jobs[j].sent \cup {k}
          /\ x.knew = jobs[j].knew
      BY <1>1, <2>2 DEF Works
    <2> HIDE DEF rec, x
    <2>7. CloseSound(mem, unseen, x)
      BY <1>1, <2>6 DEF CloseSound
    <2>8. PICK n \in Seq(Records) : n = Append(mem, rec)
      BY <1>1, <2>5, AppendGrows
    <2>9. Grows(mem, n) /\ Len(mem) + 1 \in DOMAIN n /\ n[Len(mem) + 1] = rec
      BY <1>1, <2>5, <2>8, AppendGrows
    <2>10. AccountSound(n, j, x)
      <3>1. AccountSound(n, j, jobs[j])
        BY <1>1, <2>9, AccountStays
      <3>2. ASSUME NEW o \in DOMAIN jobs[j].plan \cap (jobs[j].sent \cup {k})
            PROVE  \E i \in DOMAIN n : /\ n[i].kind = "review_queue_item"
                                       /\ n[i].from = {j}
                                       /\ n[i].body = <<jobs[j].plan[o].line>>
        <4>1. CASE o = k
          BY <2>5, <2>9, <4>1
        <4>2. CASE o # k
          BY <1>1, <3>1, <4>2 DEF AccountSound, IsTracked
        <4> QED
          BY <4>1, <4>2
      <3>3. /\ x.who \in {"idle", "notice", "shutdown"} /\ x.pc = "persist"
            /\ DOMAIN x.plan \cap x.sent
                 = DOMAIN jobs[j].plan \cap (jobs[j].sent \cup {k})
        BY <1>1, <2>6 DEF IsTracked
      <3>4. /\ x.raw
            /\ \A o \in DOMAIN x.plan : x.plan[o].state = "applied" =>
                 /\ x.plan[o].target \in DOMAIN n /\ j \in n[x.plan[o].target].from
                 /\ n[x.plan[o].target].kind = "knowledge_item"
            /\ \/ NoiseReason(x.body)
               \/ \E i \in DOMAIN n : n[i].kind = "session_summary" /\ j \in Closes(n, i)
        BY <1>1, <2>6, <3>1 DEF AccountSound, IsTracked
      <3>5. \A o \in DOMAIN x.plan \cap x.sent :
              \E i \in DOMAIN n : /\ n[i].kind = "review_queue_item"
                                 /\ n[i].from = {j}
                                 /\ n[i].body = <<x.plan[o].line>>
        BY <2>6, <3>2, <3>3
      <3> QED
        BY <3>3, <3>4, <3>5 DEF AccountSound
    <2> QED
      BY <2>3, <2>5, <2>6, <2>7, <2>8, <2>10, OneStores
  <1> QED
    BY <1>2, <1>3

\* The gates of the hooks and of checkpoints.
LEMMA GateStep ==
    ASSUME TrackerInv, NEW j \in Job, CheckCapture(j) \/ Check(j), UNCHANGED tracker
    PROVE  TrackerInv'
  <1>1. /\ UNCHANGED <<mem, unseen, phase>>
        /\ current' \in Seq(Lines) \cup {NoSession}
    BY DEF CheckCapture, Check, tracker, TrackerInv, TrackerShape
  <1>2. jobs[j].who \notin {"idle", "notice", "shutdown"}
    <2>1. AccountSound(mem, j, jobs[j]) /\ jobs[j].pc \in {"gate", "check"}
      BY DEF TrackerInv, CheckCapture, Check
    <2> QED
      BY <2>1 DEF AccountSound, Over
  <1>3. \/ Finish(j, "skipped")
        \/ Goto(j, "plan")
        \/ jobs[j].pc = "check" /\ Goto(j, "store")
    BY DEF CheckCapture, Check
  <1> QED
    BY <1>1, <1>2, <1>3, OneEnds, OneMoves DEF Over

\* A close is over: done, or with an error.
LEMMA EndStep ==
    ASSUME TrackerInv, NEW j \in Job,
           \/ handleManualSessionBoundary(j)
           \/ /\ HookEnds(j) \/ SaveFails(j) \/ SaveCheckpointFails(j) \/ PersistFails(j)
              /\ UNCHANGED tracker
    PROVE  TrackerInv'
  <1>1. /\ UNCHANGED <<mem, unseen, phase>>
        /\ current' \in Seq(Lines) \cup {NoSession}
    BY DEF handleManualSessionBoundary, HookEnds, SaveFails, SaveCheckpointFails,
         PersistFails, tracker, TrackerInv, TrackerShape
  <1>2. Finish(j, "done") \/ Finish(j, "failed")
    BY DEF handleManualSessionBoundary, HookEnds, SaveFails, SaveCheckpointFails,
         PersistFails
  <1> QED
    BY <1>1, <1>2, OneEnds DEF Over

LEMMA CloseStep ==
    ASSUME TrackerInv, NEW j \in Job, Advance(j) \/ JobFails(j)
    PROVE  TrackerInv'
  <1>1. \/ Progress(j) \/ AcquireWorker(j) \/ RegisterWorker(j)
        \/ handleManualSessionBoundary(j) \/ JobFails(j)
    BY DEF Advance
  <1>2. CASE Progress(j)
    BY <1>2, PlanStep, ApplyStep, LookUpStep, SaveStep, QueueStep, EndStep, GateStep,
       CheckpointStep DEF Progress, Analyze
  <1>3. CASE AcquireWorker(j) \/ RegisterWorker(j)
    BY <1>3, WorkerStep
  <1>4. CASE handleManualSessionBoundary(j)
    BY <1>4, EndStep
  <1>5. CASE JobFails(j)
    BY <1>5, ApplyStep, EndStep DEF JobFails
  <1> QED
    BY <1>1, <1>2, <1>3, <1>4, <1>5

LEMMA TrackerNextStep ==
    ASSUME TrackerInv, TrackerAssumption, TrackerNext
    PROVE  TrackerInv'
  <1>1. CASE \E l \in TrackedLines, due \in BOOLEAN : HandleToolCall(l, due)
    BY <1>1, ToolCallStep
  <1>2. CASE \E l \in TrackedLines : HandleNotification(l)
    BY <1>2, NotificationStep
  <1>3. CASE \E l \in OtherLines :
               \/ \E a \in Requested : runSessionAnalysis(l, a)
               \/ \E rawOnly \in BOOLEAN : runSessionCommand(l, rawOnly)
               \/ \E s \in Sids : AutoCapture(s, l)
               \/ HookCheckpoint(l)
    BY <1>3, OwnTextStep
  <1>4. CASE OtherRequest \/ WatcherReloads
    BY <1>4, OthersStep
  <1>5. CASE Unprompted
    BY <1>5, QuietStep, FlushStep, CloseFlushesStep, CloseStep DEF Unprompted
  <1>6. CASE \E j \in Job : JobFails(j)
    BY <1>6, CloseStep
  <1>7. CASE Close \/ CloseStore
    BY <1>7, FlushStep, CloseStoreStep
  <1> QED
    BY <1>1, <1>2, <1>3, <1>4, <1>5, <1>6, <1>7 DEF TrackerNext

LEMMA TrackerStart ==
    ASSUME TrackerInit, TrackerAssumption
    PROVE  TrackerInv
  <1> DEFINE n == Len(KnownLines)
             rec(i) == [Record("knowledge_item", <<KnownLines[i]>>, NoSid, 0, {})
                        EXCEPT !.from = {}]
  <1>1. n \in Nat /\ \A i \in 1 .. n : KnownLines[i] \in Lines
    BY ElementOfSeq DEF TrackerAssumption
  <1>2. mem = [i \in 1 .. n |-> rec(i)]
    BY DEF TrackerInit, SomeKnowledge
  <1>3. ASSUME NEW i \in 1 .. n
        PROVE  /\ rec(i) \in Records /\ rec(i).from = {} /\ rec(i).dropped = {}
               /\ rec(i).knew = {}
               /\ rec(i).kind = "knowledge_item"
    <2>1. <<KnownLines[i]>> \in Seq(Lines)
      BY <1>1
    <2> QED
      BY <2>1 DEF Record, Records
  <1> HIDE DEF n, rec
  <1>4. mem \in Seq(Records) /\ DOMAIN mem = 1 .. n
    <2>1. mem \in [1 .. n -> Records]
      BY <1>2, <1>3
    <2> QED
      BY <1>1, <2>1, SeqDef
  <1>5. \A i \in Ids : /\ mem[i].from = {} /\ mem[i].dropped = {} /\ mem[i].knew = {}
                      /\ mem[i].kind = "knowledge_item"
    BY <1>2, <1>3, <1>4 DEF Ids
  <1>6. jobs = <<>> /\ Job = {} /\ phase = "open" /\ current = NoSession
    BY DEF TrackerInit, Job
  <1>7. TrackerShape
    BY <1>4, <1>6 DEF TrackerShape
  <1>8. \A i \in Ids : RecordSound(mem, jobs, i)
    BY <1>5 DEF RecordSound, Closes
  <1> QED
    BY <1>6, <1>7, <1>8 DEF TrackerInv, Drained

THEOREM TrackerInvHolds == TrackerSpec => []TrackerInv
  <1>1. TrackerInit => TrackerInv
    BY TrackerStart, TrackerAssumption
  <1>2. TrackerInv /\ [TrackerNext]_trackerVars => TrackerInv'
    <2> SUFFICES ASSUME TrackerInv, [TrackerNext]_trackerVars PROVE TrackerInv'
      OBVIOUS
    <2>1. CASE TrackerNext
      BY <2>1, TrackerNextStep, TrackerAssumption
    <2>2. CASE UNCHANGED trackerVars
      <3>1. UNCHANGED <<mem, unseen, jobs, current, phase>>
        BY <2>2 DEF trackerVars, session, tracker
      <3> QED
        BY <3>1 DEF TrackerInv, TrackerShape, Drained, Registered, Job, Ids, IsWorker
    <2> QED
      BY <2>1, <2>2
  <1> QED
    BY <1>1, <1>2, PTL DEF TrackerSpec

-----------------------------------------------------------------------------
(* The properties.                                                         *)

\* A checkpoint that was handed to a worker has its vector, whatever Close did
\* meanwhile.
THEOREM CheckpointsDrainedHolds == TrackerSpec => []CheckpointsDrained
  <1>1. TrackerInv => CheckpointsDrained
    BY DEF TrackerInv, RecordSound, CheckpointsDrained, IsWorker
  <1> QED
    BY <1>1, TrackerInvHolds, PTL

\* An agent session has one terminal record, and to itself, but for closes that
\* began before they could know it.
THEOREM OneSummaryPerSessionHolds == TrackerSpec => []OneSummaryPerSession
  <1>1. TrackerInv => OneSummaryPerSession
    BY DEF TrackerInv, RecordSound, OneSummaryPerSession, IsTerminalRecord,
         IsSessionSummaryMemory, Ids, Closes
  <1> QED
    BY <1>1, TrackerInvHolds, PTL

\* A tracked session is done only by a persistReviewQueue that leaves nothing.
LEMMA DoneByQueue ==
    ASSUME TrackerInv, TrackerNext, NEW j \in Job, IsTracked(j),
           jobs[j].pc # "done", jobs'[j].pc = "done"
    PROVE  persistReviewQueue(j)
  <1>1. /\ jobs \in Seq(Works) /\ jobs[j] \in Works /\ Job = 1 .. Len(jobs)
        /\ jobs[j].pc \in {"wait", "plan", "act", "update", "lookup", "save", "persist"}
                          \cup Over
    <2>1. AccountSound(mem, j, jobs[j]) /\ jobs \in Seq(Works)
      BY DEF TrackerInv, TrackerShape
    <2> QED
      BY <2>1, ElementOfSeq DEF AccountSound, IsTracked, Job
  <1>2. ASSUME NEW x, jobs' = jobs \/ jobs' = Append(jobs, x) PROVE FALSE
    BY <1>1, <1>2
  <1>3. ASSUME NEW o \in Job, Advance(o) \/ JobFails(o)
        PROVE  persistReviewQueue(j)
    <2>1. jobs' = jobs \/ \E x : jobs' = [jobs EXCEPT ![o] = x]
      BY <1>3 DEF Advance, Progress, JobFails, Analyze, planActions, executeActions,
           applyUpdateAction, LookUp, SaveRawSummary, persistReviewQueue, HookEnds,
           CheckCapture, Check, SaveCheckpoint, AcquireWorker, RegisterWorker,
           StartWorker, handleManualSessionBoundary, ApplyErrs, SaveFails,
           SaveCheckpointFails, PersistFails, ApplyFails, Settle, Goto, Finish
    <2>2. o = j
      BY <1>1, <2>1
    <2>3. ASSUME NEW pc, Goto(j, pc) \/ Finish(j, pc)
          PROVE  pc = "done"
      <3>1. jobs'[j] = [jobs[j] EXCEPT !.pc = pc] \/ jobs'[j] = Ended(jobs[j], pc)
        BY <1>1, <2>3 DEF Goto, Finish
      <3> QED
        BY <1>1, <3>1 DEF Ended, Works
    <2>4. ASSUME NEW plan, jobs' = [jobs EXCEPT ![j].plan = plan, ![j].pc = After(plan)]
          PROVE  FALSE
      <3> DEFINE x == [jobs[j] EXCEPT !.plan = plan, !.pc = After(plan)]
      <3>1. jobs' = [jobs EXCEPT ![j] = x]
        BY <2>4
      <3>2. x.pc = After(plan)
        BY <1>1 DEF Works
      <3>3. After(plan) # "done"
        BY DEF After
      <3> HIDE DEF x
      <3> QED
        BY <1>1, <3>1, <3>2, <3>3
    <2>5. ASSUME NEW k, NEW state, Settle(j, k, state) PROVE FALSE
      <3>1. PICK plan : jobs' = [jobs EXCEPT ![j].plan = plan, ![j].pc = After(plan)]
        BY <2>5 DEF Settle
      <3> QED
        BY <2>4, <3>1
    <2>6. ~ AcquireWorker(j) /\ ~ RegisterWorker(j) /\ ~ handleManualSessionBoundary(j)
      BY <1>1 DEF AcquireWorker, RegisterWorker, handleManualSessionBoundary, IsTracked,
           Over
    <2>7. ~ HookEnds(j) /\ ~ CheckCapture(j) /\ ~ Check(j) /\ ~ SaveCheckpoint(j, Cancelled(j))
      BY <1>1 DEF HookEnds, CheckCapture, Check, SaveCheckpoint, IsTracked, Over
    <2>8. ~ JobFails(j)
      BY <2>3, <2>5 DEF JobFails, ApplyErrs, SaveFails, SaveCheckpointFails,
           PersistFails, ApplyFails
    <2>9. ~ planActions(j)
      BY <2>4 DEF planActions
    <2>10. ~ executeActions(j) /\ ~ applyUpdateAction(j)
      BY <2>3, <2>5 DEF executeActions, applyUpdateAction, ApplyFails
    <2>11. ~ LookUp(j)
      <3> SUFFICES ASSUME LookUp(j) PROVE FALSE
        OBVIOUS
      <3>0. PICK target, text :
              jobs' = [jobs EXCEPT ![j].target = target, ![j].pc = "save", ![j].read = text]
        <4>1. PICK target : target = findConsolidationTarget(j)
          OBVIOUS
        <4>2. PICK text : text = IF target = 0 THEN <<>> ELSE mem[target].body
          OBVIOUS
        <4>3. ~ Goto(j, "persist")
          BY <2>3
        <4>4. jobs' = [jobs EXCEPT ![j].target = target, ![j].pc = "save",
                                   ![j].read = IF target = 0 THEN <<>>
                                               ELSE mem[target].body]
          BY <4>1, <4>3 DEF LookUp
        <4> QED
          BY <4>2, <4>4
      <3>1. jobs'[j] = [jobs[j] EXCEPT !.target = target, !.pc = "save", !.read = text]
        BY <1>1, <3>0
      <3> QED
        BY <1>1, <3>1 DEF Works
    <2>12. ~ SaveRawSummary(j)
      BY <2>3 DEF SaveRawSummary
    <2> QED
      BY <1>3, <2>2, <2>6, <2>7, <2>8, <2>9, <2>10, <2>11, <2>12
         DEF Advance, Progress, Analyze
  <1>4. ASSUME NEW l, NEW due, HandleToolCall(l, due) PROVE FALSE
    BY <1>2, <1>4 DEF HandleToolCall, Begin
  <1>5. ASSUME NEW l, HandleNotification(l) PROVE FALSE
    BY <1>2, <1>5 DEF HandleNotification, reset, forceCheckpoint, flushWithNotification,
         flushSession, Begin, session
  <1>6. ASSUME NEW l, NEW a, runSessionAnalysis(l, a) PROVE FALSE
    BY <1>2, <1>6 DEF runSessionAnalysis, Begin
  <1>7. ASSUME NEW l, NEW rawOnly, runSessionCommand(l, rawOnly) PROVE FALSE
    BY <1>2, <1>7 DEF runSessionCommand, Begin
  <1>8. ASSUME NEW l, NEW s, AutoCapture(s, l) \/ HookCheckpoint(l) PROVE FALSE
    BY <1>2, <1>8 DEF AutoCapture, HookCheckpoint, Begin
  <1>9. ASSUME OtherRequest \/ WatcherReloads \/ TimerFires \/ CloseCancels PROVE FALSE
    BY <1>2, <1>9 DEF OtherRequest, WatcherReloads, TimerFires, CloseCancels,
         DeleteKnowledge, ResolveReviewItem, ReloadCache, session
  <1>10. ASSUME flushFromIdle \/ Close PROVE FALSE
    BY <1>2, <1>10 DEF flushFromIdle, Close, flushSession, Begin
  <1>11. ~ CloseFlushes
    <2> SUFFICES ASSUME jobs'[j] = IF jobs[j].pc = "wait"
                                   THEN [jobs[j] EXCEPT !.pc = "plan"] ELSE jobs[j]
                 PROVE  FALSE
      BY DEF CloseFlushes
    <2> QED
      BY <1>1 DEF Works
  <1>12. ~ CloseStore
    <2> SUFFICES ASSUME jobs'[j] = IF jobs[j].who = "hook" \/ jobs[j].pc \in Over
                                   THEN jobs[j] ELSE Ended(jobs[j], "failed")
                 PROVE  FALSE
      BY DEF CloseStore
    <2> QED
      BY <1>1 DEF Works, Ended
  <1> QED
    BY <1>3, <1>4, <1>5, <1>6, <1>7, <1>8, <1>9, <1>10, <1>11, <1>12
       DEF TrackerNext, Unprompted

\* A tracked session that is closed without an error has had each of its
\* candidates applied or queued for review, and its text is in a summary, is
\* noise, or was folded into a record that holds another text of the session
\* and dropped.
THEOREM CandidatesSettledHolds == TrackerSpec => CandidatesSettled
  <1>1. ASSUME TrackerInv, TrackerNext, NEW j \in Job, IsTracked(j),
               jobs[j].pc # "done", jobs'[j].pc = "done"
        PROVE  /\ \A k \in DOMAIN jobs[j].plan : Dealt(j, k)
               /\ \/ NoiseReason(jobs[j].body)
                  \/ \E i \in Ids : IsTerminalRecord(i) /\ TextHeld(j, i)
    <2>1. persistReviewQueue(j)
      BY <1>1, DoneByQueue
    <2>2. /\ jobs[j] \in Works /\ CloseSound(mem, unseen, jobs[j])
          /\ AccountSound(mem, j, jobs[j]) /\ jobs \in Seq(Works) /\ Job = 1 .. Len(jobs)
      <3>1. jobs \in Seq(Works) /\ Job = 1 .. Len(jobs)
        BY <1>1 DEF TrackerInv, TrackerShape, Job
      <3>2. jobs[j] \in Works
        BY <3>1, ElementOfSeq
      <3> QED
        BY <1>1, <3>1, <3>2 DEF TrackerInv
    <2>3. jobs[j].pc = "persist"
      BY <2>1 DEF persistReviewQueue
    <2>4. SuppressReviewQueue \/ Pending(j) = {}
      <3> SUFFICES ASSUME ~ (SuppressReviewQueue \/ Pending(j) = {}) PROVE FALSE
        OBVIOUS
      <3>1. PICK k : jobs' = [jobs EXCEPT ![j].sent = @ \cup {k}]
        BY <2>1 DEF persistReviewQueue
      <3> DEFINE x == [jobs[j] EXCEPT !.sent = @ \cup {k}]
      <3>2. jobs' = [jobs EXCEPT ![j] = x]
        BY <3>1
      <3>3. x.pc = jobs[j].pc
        BY <2>2 DEF Works
      <3> HIDE DEF x
      <3> QED
        BY <1>1, <2>2, <2>3, <3>2, <3>3
    <2>5. ASSUME NEW k \in DOMAIN jobs[j].plan PROVE Dealt(j, k)
      <3>1. jobs[j].plan[k].state \in {"applied", "review_required"}
        <4>1. PICK D \in SUBSET Nat : jobs[j].plan \in [D -> Actions]
          BY <2>2 DEF Works, Plans
        <4>2. jobs[j].plan[k].state \in {"planned", "applied", "review_required"}
          BY <2>5, <4>1 DEF Actions
        <4> QED
          BY <2>2, <2>3, <2>5, <4>2 DEF CloseSound
      <3>2. jobs[j].plan[k].state = "applied" => j \in mem[jobs[j].plan[k].target].from
        BY <1>1, <2>2, <2>5 DEF AccountSound, IsTracked
      <3>3. jobs[j].plan[k].state = "review_required" => SuppressReviewQueue \/ Queued(j, k)
        <4>1. k \in jobs[j].sent => Queued(j, k)
          BY <1>1, <2>2, <2>5 DEF AccountSound, IsTracked, Queued, Ids
        <4> QED
          BY <2>4, <2>5, <4>1 DEF Pending
      <3> QED
        BY <3>1, <3>2, <3>3 DEF Dealt
    <2>6. \/ NoiseReason(jobs[j].body)
          \/ \E i \in Ids : IsTerminalRecord(i) /\ TextHeld(j, i)
      <3> SUFFICES ASSUME NEW i \in Ids, mem[i].kind = "session_summary",
                          j \in Closes(mem, i)
                   PROVE  IsTerminalRecord(i) /\ TextHeld(j, i)
        BY <1>1, <2>2, <2>3 DEF AccountSound, IsTracked, Ids
      <3>1. TextSound(mem, jobs, i)
        BY <1>1 DEF TrackerInv, RecordSound
      <3>2. CASE j \in mem[i].dropped
        BY <3>1, <3>2 DEF TextSound, TextHeld, IsTerminalRecord, IsSessionSummaryMemory
      <3>3. CASE j \notin mem[i].dropped
        BY <3>1, <3>3 DEF TextSound, TextHeld, Closes, IsTerminalRecord,
             IsSessionSummaryMemory
      <3> QED
        BY <3>2, <3>3
    <2> QED
      BY <2>5, <2>6
  <1>2. TrackerInv /\ [TrackerNext]_trackerVars => [SettledWhenDone]_trackerVars
    BY <1>1 DEF SettledWhenDone
  <1> QED
    BY <1>2, TrackerInvHolds, PTL DEF TrackerSpec, CandidatesSettled

-----------------------------------------------------------------------------
(* AccessStats.                                                            *)

\* Where a bounded recall of i can be before it is counted: in a request, at
\* a position of the channel, or in the batch.
HeldFor(i) == {r \in Requests : req[r].into = "targeted" /\ i \in req[r].ids}

Claims(ev, i) == ev.into = "targeted" /\ i \in ev.ids

QueuedFor(q, i) == {k \in 1 .. Len(q) : Claims(q[k], i)}

Batched(i) == IF i \in batch["targeted"] THEN 1 ELSE 0

\* Every bounded recall is in one of those places, counted, or dropped.
Balance == \A i \in Rows :
    targeted[i] + Batched(i) + Cardinality(QueuedFor(queue, i))
      + Cardinality(HeldFor(i)) <= asked[i]

\* What the channel took is counted, lost, or on its way to the last flush().
Kept ==
    /\ \A i \in Rows : accepted[i] > 0 =>
         \/ targeted[i] > 0 \/ i \in lost \/ i \in batch["targeted"]
         \/ QueuedFor(queue, i) # {}
    /\ worker # "run" => closed /\ queue = <<>>
    /\ worker = "last" => todo = <<"targeted", "sweep">> \/ batch["targeted"] = {}
    /\ worker = "stopped" => batch["targeted"] = {}

\* Once the channel is closed, who is still being served is late or was read
\* after the shutdown began.
Sealed ==
    /\ closed <=> stage \in {"closing", "closed"}
    /\ IF closed THEN \A r \in Requests : doing[r] # "idle" => r \in late \cup strays
       ELSE panicked = {}
    /\ panicked \subseteq late \cup strays

-----------------------------------------------------------------------------
(* Counting.                                                               *)

LEMMA PlusOneType ==
    ASSUME NEW f \in [Rows -> Nat], NEW S \in SUBSET Rows
    PROVE  /\ plusOne(f, S) \in [Rows -> Nat]
           /\ \A i \in Rows : plusOne(f, S)[i] = IF i \in S THEN f[i] + 1 ELSE f[i]
  BY DEF plusOne

\* The channel is a finite sequence, and there are finitely many requests.
LEMMA CountsAreFinite ==
    ASSUME NEW q \in Seq(Event), NEW i \in Rows
    PROVE  /\ IsFiniteSet(QueuedFor(q, i)) /\ Cardinality(QueuedFor(q, i)) \in Nat
           /\ IsFiniteSet(HeldFor(i)) /\ Cardinality(HeldFor(i)) \in Nat
  <1>1. IsFiniteSet(1 .. Len(q))
    BY FS_Interval
  <1>2. QueuedFor(q, i) \subseteq 1 .. Len(q) /\ HeldFor(i) \subseteq Requests
    BY DEF QueuedFor, HeldFor
  <1> QED
    BY <1>1, <1>2, AccessAssumption, FS_Subset, FS_CardinalityType

\* An event that enters the channel adds one position, if it names i.
LEMMA AppendQueued ==
    ASSUME NEW q \in Seq(Event), NEW ev \in Event, NEW i \in Rows
    PROVE  QueuedFor(Append(q, ev), i) =
             QueuedFor(q, i) \cup (IF Claims(ev, i) THEN {Len(q) + 1} ELSE {})
  BY DEF QueuedFor, Claims

LEMMA AppendCount ==
    ASSUME NEW q \in Seq(Event), NEW ev \in Event, NEW i \in Rows
    PROVE  Cardinality(QueuedFor(Append(q, ev), i)) =
             Cardinality(QueuedFor(q, i)) + (IF Claims(ev, i) THEN 1 ELSE 0)
  <1>1. Len(q) + 1 \notin QueuedFor(q, i)
    BY DEF QueuedFor
  <1>2. IsFiniteSet(QueuedFor(q, i)) /\ Cardinality(QueuedFor(q, i)) \in Nat
    BY CountsAreFinite
  <1>3. CASE Claims(ev, i)
    <2>1. QueuedFor(Append(q, ev), i) = QueuedFor(q, i) \cup {Len(q) + 1}
      BY <1>3, AppendQueued
    <2> QED
      BY <1>1, <1>2, <1>3, <2>1, FS_AddElement
  <1>4. CASE ~Claims(ev, i)
    <2>1. QueuedFor(Append(q, ev), i) = QueuedFor(q, i)
      BY <1>4, AppendQueued
    <2> QED
      BY <1>2, <1>4, <2>1
  <1> QED
    BY <1>3, <1>4

\* The event that leaves the channel takes its position with it; the others
\* move up by one.
LEMMA TailCount ==
    ASSUME NEW q \in Seq(Event), q # <<>>, NEW i \in Rows
    PROVE  Cardinality(QueuedFor(q, i)) =
             Cardinality(QueuedFor(Tail(q), i)) + (IF Claims(Head(q), i) THEN 1 ELSE 0)
  <1> DEFINE S == QueuedFor(Tail(q), i)
             T == QueuedFor(q, i) \ {1}
             f == [k \in S |-> k + 1]
  <1>1. /\ Tail(q) \in Seq(Event) /\ Len(q) \in Nat \ {0} /\ Len(Tail(q)) = Len(q) - 1
        /\ \A k \in 1 .. Len(Tail(q)) : Tail(q)[k] = q[k + 1]
        /\ Head(q) = q[1]
    OBVIOUS
  <1>2. IsFiniteSet(S) /\ Cardinality(S) \in Nat
    BY <1>1, CountsAreFinite
  <1>3. IsFiniteSet(QueuedFor(q, i)) /\ Cardinality(QueuedFor(q, i)) \in Nat
    BY CountsAreFinite
  <1>4. \A k \in S : k \in Int /\ k + 1 \in T
    BY <1>1 DEF QueuedFor
  <1>5. \A k \in T : k - 1 \in S /\ k = (k - 1) + 1
    <2> SUFFICES ASSUME NEW k \in T PROVE k - 1 \in S /\ k = (k - 1) + 1
      OBVIOUS
    <2>1. k \in 2 .. Len(q) /\ Claims(q[k], i)
      BY DEF QueuedFor
    <2>2. k - 1 \in 1 .. Len(Tail(q)) /\ k = (k - 1) + 1
      BY <1>1, <2>1
    <2>3. Tail(q)[k - 1] = q[k]
      BY <1>1, <2>2
    <2> QED
      BY <2>1, <2>2, <2>3 DEF QueuedFor
  <1>6. f \in Bijection(S, T)
    <2>1. f \in [S -> T]
      BY <1>4
    <2>2. \A a, b \in S : f[a] = f[b] => a = b
      BY <1>4
    <2>3. \A t \in T : \E a \in S : f[a] = t
      BY <1>5
    <2> HIDE DEF f, S, T
    <2> QED
      BY <2>1, <2>2, <2>3, Fun_IsBij
  <1>7. Cardinality(T) = Cardinality(S)
    <2>1. ExistsBijection(S, T)
      BY <1>6 DEF ExistsBijection
    <2> HIDE DEF S, T
    <2> QED
      BY <1>2, <2>1, FS_Bijection
  <1>8. 1 \in QueuedFor(q, i) <=> Claims(Head(q), i)
    BY <1>1 DEF QueuedFor
  <1> HIDE DEF S
  <1>9. Cardinality(T) = IF 1 \in QueuedFor(q, i) THEN Cardinality(QueuedFor(q, i)) - 1
                         ELSE Cardinality(QueuedFor(q, i))
    BY <1>3, FS_RemoveElement
  <1> HIDE DEF T
  <1>10. CASE Claims(Head(q), i)
    BY <1>2, <1>3, <1>7, <1>8, <1>9, <1>10 DEF S
  <1>11. CASE ~Claims(Head(q), i)
    BY <1>2, <1>3, <1>7, <1>8, <1>9, <1>11 DEF S
  <1> QED
    BY <1>10, <1>11

-----------------------------------------------------------------------------
(* Type correctness.                                                       *)

\* The server starts with nothing to count.
LEMMA InitType == AccessInit => TypeOK
  <1> SUFFICES ASSUME AccessInit PROVE TypeOK
    OBVIOUS
  <1>1. NoEvent \in Event
    BY DEF NoEvent, Event, Batches
  <1>2. queue \in Seq(Event) /\ Len(queue) <= QueueCap
    BY AccessAssumption DEF AccessInit
  <1>3. batch \in [Batches -> SUBSET Rows] /\ todo \in Seq(Batches)
    BY DEF AccessInit
  <1>4. /\ access \in [Rows -> Nat] /\ targeted \in [Rows -> Nat]
        /\ asked \in [Rows -> Nat] /\ accepted \in [Rows -> Nat] /\ recalls \in Nat
    BY DEF AccessInit
  <1>5. /\ req \in [Requests -> Event]
        /\ doing \in [Requests -> {"idle", "reading", "found"}]
        /\ \A r \in Requests : doing[r] # "found" => req[r] = NoEvent
    BY <1>1 DEF AccessInit
  <1>6. /\ closed \in BOOLEAN /\ worker \in {"run", "last", "stopped"}
        /\ transport \in {"http", "stdio"} /\ front \in {"open", "stopped", "abandoned"}
        /\ stage \in {"serving", "draining", "closing", "closed"}
        /\ panicked \subseteq Requests /\ late \subseteq Requests
        /\ strays \subseteq Requests /\ lost \subseteq Rows
    BY DEF AccessInit
  <1> QED
    BY <1>2, <1>3, <1>4, <1>5, <1>6 DEF TypeOK

\* Every step of a request, of the worker and of the shutdown keeps the types.
LEMMA TypeStep == TypeOK /\ [AccessNext]_accessVars => TypeOK'
  <1> SUFFICES ASSUME TypeOK, [AccessNext]_accessVars PROVE TypeOK'
    OBVIOUS
  <1> USE AccessAssumption
  <1>1. NoEvent \in Event
    BY DEF NoEvent, Event, Batches
  <1>2. ASSUME NEW r \in Requests, Recall(r) PROVE TypeOK'
    <2>1. ASSUME NEW S \in SUBSET Rows, NEW t \in Batches, RecallFinds(r, S, t)
          PROVE  TypeOK'
      <3>1. /\ req' \in [Requests -> Event]
            /\ doing' \in [Requests -> {"idle", "reading", "found"}]
            /\ \A q \in Requests : doing'[q] # "found" => req'[q] = NoEvent
        BY <2>1 DEF RecallFinds, TypeOK, Event
      <3>2. asked' \in [Rows -> Nat]
        BY <2>1, PlusOneType DEF RecallFinds, TypeOK
      <3> QED
        BY <2>1, <3>1, <3>2 DEF RecallFinds, TypeOK, workerVars, rowVars, serverVars
    <2>2. ASSUME RecallRecords(r) PROVE TypeOK'
      <3>1. /\ req' \in [Requests -> Event] /\ req[r] \in Event
            /\ req[r].ids \in SUBSET Rows
        BY <1>1, <2>2 DEF RecallRecords, TypeOK, Event
      <3>0. /\ doing' \in [Requests -> {"idle", "reading", "found"}]
            /\ \A q \in Requests : doing'[q] # "found" => req'[q] = NoEvent
        BY <2>2 DEF RecallRecords, TypeOK
      <3>2. queue' \in Seq(Event) /\ Len(queue') <= QueueCap
        <4>1. CASE Len(queue) < QueueCap /\ queue' = Append(queue, req[r])
          BY <3>1, <4>1 DEF TypeOK
        <4>2. CASE queue' = queue
          BY <4>2 DEF TypeOK
        <4>3. CASE closed
          <5>1. queue' = queue
            BY <2>2, <4>3 DEF RecallRecords
          <5> QED
            BY <4>2, <5>1
        <4>4. CASE ~closed /\ ~(Len(queue) < QueueCap)
          <5>1. queue' = queue
            BY <2>2, <4>4 DEF RecallRecords
          <5> QED
            BY <4>2, <5>1
        <4>5. CASE ~closed /\ Len(queue) < QueueCap
          <5>1. queue' = Append(queue, req[r])
            BY <2>2, <4>5 DEF RecallRecords
          <5> QED
            BY <4>1, <4>5, <5>1
        <4> QED
          BY <4>3, <4>4, <4>5
      <3>3. accepted' \in [Rows -> Nat] /\ panicked' \subseteq Requests
        <4>1. panicked' \subseteq Requests
          BY <2>2 DEF RecallRecords, TypeOK
        <4>2. accepted' = accepted \/ accepted' = plusOne(accepted, req[r].ids)
          BY <2>2 DEF RecallRecords
        <4>3. plusOne(accepted, req[r].ids) \in [Rows -> Nat]
          BY <3>1 DEF TypeOK, plusOne
        <4> QED
          BY <4>1, <4>2, <4>3 DEF TypeOK
      <3> QED
        BY <2>2, <3>0, <3>1, <3>2, <3>3 DEF RecallRecords, TypeOK, workerVars, rowVars,
                                            serverVars
    <2>3. ASSUME RequestArrives(r) PROVE TypeOK'
      <3>1. /\ doing' \in [Requests -> {"idle", "reading", "found"}]
            /\ \A q \in Requests : doing'[q] # "found" => req'[q] = NoEvent
            /\ strays' \subseteq Requests /\ recalls' \in Nat
        BY <2>3 DEF RequestArrives, TypeOK
      <3> QED
        BY <2>3, <3>1 DEF RequestArrives, TypeOK, workerVars, rowVars, serverVars, ghostVars
    <2>4. ASSUME RequestEnds(r) PROVE TypeOK'
      <3>1. /\ doing' \in [Requests -> {"idle", "reading", "found"}]
            /\ \A q \in Requests : doing'[q] # "found" => req'[q] = NoEvent
        BY <2>4 DEF RequestEnds, TypeOK
      <3> QED
        BY <2>4, <3>1 DEF RequestEnds, TypeOK, workerVars, rowVars, serverVars, ghostVars
    <2> QED
      BY <1>2, <2>1, <2>2, <2>3, <2>4 DEF Recall
  <1>3. ASSUME Worker PROVE TypeOK'
    <2>1. ASSUME WorkerReceives PROVE TypeOK'
      <3>1. Head(queue) \in Event /\ queue' \in Seq(Event) /\ Len(queue') <= QueueCap
        BY <2>1 DEF WorkerReceives, TypeOK
      <3>2. Head(queue).into \in Batches /\ Head(queue).ids \in SUBSET Rows
        BY <3>1 DEF Event
      <3>3. batch' \in [Batches -> SUBSET Rows]
        BY <2>1, <3>2 DEF WorkerReceives, TypeOK
      <3>4. todo' = <<Head(queue).into>> \/ todo' = <<>>
        BY <2>1 DEF WorkerReceives
      <3>5. todo' \in Seq(Batches)
        <4>1. CASE todo' = <<Head(queue).into>>
          BY <3>2, <4>1
        <4>2. CASE todo' = <<>>
          BY <4>2
        <4> QED
          BY <3>4, <4>1, <4>2
      <3> QED
        BY <2>1, <3>1, <3>3, <3>5 DEF WorkerReceives, TypeOK, rowVars, requestVars,
                                    serverVars, ghostVars
    <2>2. ASSUME WorkerTimer \/ WorkerClosed \/ WorkerStops PROVE TypeOK'
      <3>1. <<"targeted", "sweep">> \in Seq(Batches)
        BY DEF Batches
      <3> QED
        BY <2>2, <3>1 DEF WorkerTimer, WorkerClosed, WorkerStops, TypeOK, rowVars,
                          requestVars, serverVars, ghostVars
    <2>3. ASSUME flushOne PROVE TypeOK'
      <3>1. Head(todo) \in Batches /\ todo' \in Seq(Batches)
        BY <2>3 DEF flushOne, TypeOK
      <3>2. batch[Head(todo)] \in SUBSET Rows /\ batch' \in [Batches -> SUBSET Rows]
        BY <2>3, <3>1 DEF flushOne, TypeOK
      <3>3. access' = access \/ access' = plusOne(access, batch[Head(todo)])
        BY <2>3 DEF flushOne
      <3>4. targeted' = targeted \/ targeted' = plusOne(targeted, batch[Head(todo)])
        BY <2>3 DEF flushOne
      <3>5. lost' = lost \/ lost' = lost \cup batch[Head(todo)]
        BY <2>3 DEF flushOne
      <3>6. access' \in [Rows -> Nat]
        BY <3>2, <3>3 DEF TypeOK, plusOne
      <3>7. targeted' \in [Rows -> Nat]
        BY <3>2, <3>4 DEF TypeOK, plusOne
      <3>8. lost' \subseteq Rows
        BY <3>2, <3>5 DEF TypeOK
      <3> QED
        BY <2>3, <3>1, <3>2, <3>6, <3>7, <3>8 DEF flushOne, TypeOK, requestVars,
                                                     serverVars, ghostVars
    <2> QED
      BY <1>3, <2>1, <2>2, <2>3 DEF Worker
  <1>4. ASSUME StoreCloses PROVE TypeOK'
    BY <1>4 DEF StoreCloses, StopListening, StdinCloses, AbandonLoop, ShutdownDrained,
                CloseReturns, Busy, TypeOK, workerVars, rowVars, requestVars, ghostVars
  <1>5. CASE UNCHANGED accessVars
    BY <1>5 DEF accessVars, TypeOK
  <1> QED
    BY <1>2, <1>3, <1>4, <1>5 DEF AccessNext

\* TypeOK: every variable keeps its type, and the channel its capacity.
THEOREM TypeCorrect == AccessSpec => []TypeOK
  BY InitType, TypeStep, PTL DEF AccessSpec

-----------------------------------------------------------------------------
(* The three safety properties.                                            *)

\* A request, the worker and the shutdown move a bounded recall on from one
\* place to the next, or drop it.
LEMMA BalanceStep == TypeOK /\ Balance /\ [AccessNext]_accessVars => Balance'
  <1> SUFFICES ASSUME TypeOK, Balance, [AccessNext]_accessVars, NEW i \in Rows
               PROVE  targeted'[i] + Batched(i)' + Cardinality(QueuedFor(queue', i))
                        + Cardinality(HeldFor(i)') <= asked'[i]
    BY DEF Balance
  <1> DEFINE Kinds == /\ queue \in Seq(Event) /\ req \in [Requests -> Event]
                      /\ batch \in [Batches -> SUBSET Rows] /\ todo \in Seq(Batches)
                      /\ targeted \in [Rows -> Nat] /\ asked \in [Rows -> Nat]
  <1>1. Kinds
    BY DEF TypeOK
  <1>2. /\ Cardinality(QueuedFor(queue, i)) \in Nat /\ Cardinality(HeldFor(i)) \in Nat
        /\ targeted[i] \in Nat /\ asked[i] \in Nat
    BY <1>1, CountsAreFinite
  <1>3. targeted[i] + Batched(i) + Cardinality(QueuedFor(queue, i))
          + Cardinality(HeldFor(i)) <= asked[i]
    BY DEF Balance
  <1>4. ASSUME UNCHANGED <<targeted, batch, queue, req, asked>>
        PROVE  targeted'[i] + Batched(i)' + Cardinality(QueuedFor(queue', i))
                 + Cardinality(HeldFor(i)') <= asked'[i]
    <2>1. Batched(i)' = Batched(i) /\ HeldFor(i)' = HeldFor(i)
      BY <1>4 DEF Batched, HeldFor
    <2> QED
      BY <1>3, <1>4, <2>1
  <1>5. ASSUME NEW r \in Requests, NEW S \in SUBSET Rows, NEW t \in Batches,
               RecallFinds(r, S, t)
        PROVE  targeted'[i] + Batched(i)' + Cardinality(QueuedFor(queue', i))
                 + Cardinality(HeldFor(i)') <= asked'[i]
    <2> DEFINE ev == [ids |-> S, into |-> t]
    <2>1. req' = [req EXCEPT ![r] = ev] /\ ~Claims(req[r], i)
      <3>1. doing[r] = "reading" /\ req' = [req EXCEPT ![r] = ev]
        BY <1>5 DEF RecallFinds
      <3>2. req[r] = NoEvent
        BY <3>1 DEF TypeOK
      <3>3. ~Claims(NoEvent, i)
        BY DEF Claims, NoEvent
      <3> QED
        BY <3>1, <3>2, <3>3
    <2>2. asked'[i] = asked[i] + (IF Claims(ev, i) THEN 1 ELSE 0)
      BY <1>1, <1>2, <1>5 DEF RecallFinds, plusOne, Claims
    <2>3. Cardinality(HeldFor(i)') = Cardinality(HeldFor(i)) + (IF Claims(ev, i) THEN 1 ELSE 0)
      <3>1. HeldFor(i)' = IF Claims(ev, i) THEN HeldFor(i) \cup {r} ELSE HeldFor(i)
        BY <1>1, <2>1 DEF HeldFor, Claims
      <3>2. r \notin HeldFor(i) /\ IsFiniteSet(HeldFor(i))
        BY <1>1, <2>1, CountsAreFinite DEF HeldFor, Claims
      <3>3. Cardinality(HeldFor(i) \cup {r}) = Cardinality(HeldFor(i)) + 1
        BY <3>2, FS_AddElement
      <3> HIDE DEF ev
      <3>4. CASE Claims(ev, i)
        BY <3>1, <3>3, <3>4
      <3>5. CASE ~Claims(ev, i)
        BY <1>2, <3>1, <3>5
      <3> QED
        BY <3>4, <3>5
    <2>4. UNCHANGED <<targeted, queue>> /\ Batched(i)' = Batched(i)
      BY <1>5 DEF RecallFinds, workerVars, rowVars, Batched
    <2> QED
      BY <1>2, <1>3, <2>2, <2>3, <2>4 DEF Batched
  <1>6. ASSUME NEW r \in Requests, RecallRecords(r)
        PROVE  targeted'[i] + Batched(i)' + Cardinality(QueuedFor(queue', i))
                 + Cardinality(HeldFor(i)') <= asked'[i]
    <2>1. /\ req' = [req EXCEPT ![r] = NoEvent] /\ NoEvent \in Event
          /\ req[r] \in Event /\ ~Claims(NoEvent, i)
      BY <1>1, <1>6 DEF RecallRecords, Event, Claims, NoEvent, Batches
    <2>2. Cardinality(HeldFor(i)') = Cardinality(HeldFor(i)) - (IF Claims(req[r], i) THEN 1 ELSE 0)
      <3>1. HeldFor(i)' = HeldFor(i) \ {r} /\ (r \in HeldFor(i) <=> Claims(req[r], i))
        BY <1>1, <2>1 DEF HeldFor, Claims
      <3>2. IsFiniteSet(HeldFor(i))
        BY <1>1, CountsAreFinite
      <3>3. Cardinality(HeldFor(i) \ {r}) =
              IF r \in HeldFor(i) THEN Cardinality(HeldFor(i)) - 1 ELSE Cardinality(HeldFor(i))
        BY <3>2, FS_RemoveElement
      <3> QED
        BY <1>2, <3>1, <3>3
    <2>3. Cardinality(QueuedFor(queue', i)) <=
            Cardinality(QueuedFor(queue, i)) + (IF Claims(req[r], i) THEN 1 ELSE 0)
      <3>1. queue' = queue \/ queue' = Append(queue, req[r])
        BY <1>6 DEF RecallRecords
      <3>2. Cardinality(QueuedFor(Append(queue, req[r]), i)) =
              Cardinality(QueuedFor(queue, i)) + (IF Claims(req[r], i) THEN 1 ELSE 0)
        BY <1>1, <2>1, AppendCount
      <3>3. CASE queue' = queue
        BY <1>2, <3>3
      <3>4. CASE queue' = Append(queue, req[r])
        BY <1>2, <3>2, <3>4
      <3> QED
        BY <3>1, <3>3, <3>4
    <2>4. UNCHANGED <<targeted, asked>> /\ Batched(i)' = Batched(i)
      BY <1>6 DEF RecallRecords, workerVars, rowVars, Batched
    <2>5. Cardinality(QueuedFor(queue', i)) \in Nat
      <3>1. queue' \in Seq(Event)
        BY TypeStep DEF TypeOK
      <3> QED
        BY <3>1, CountsAreFinite
    <2> QED
      BY <1>2, <1>3, <2>2, <2>3, <2>4, <2>5 DEF Batched
  <1>7. ASSUME WorkerReceives
        PROVE  targeted'[i] + Batched(i)' + Cardinality(QueuedFor(queue', i))
                 + Cardinality(HeldFor(i)') <= asked'[i]
    <2>1. /\ queue # <<>> /\ queue' = Tail(queue) /\ Head(queue) \in Event
          /\ Tail(queue) \in Seq(Event)
          /\ UNCHANGED <<targeted, asked>> /\ HeldFor(i)' = HeldFor(i)
      BY <1>1, <1>7 DEF WorkerReceives, rowVars, requestVars, ghostVars, HeldFor
    <2>2. Cardinality(QueuedFor(queue, i)) =
            Cardinality(QueuedFor(queue', i)) + (IF Claims(Head(queue), i) THEN 1 ELSE 0)
      BY <1>1, <2>1, TailCount
    <2>3. i \in batch'["targeted"] => i \in batch["targeted"] \/ Claims(Head(queue), i)
      BY <1>1, <1>7, <2>1 DEF WorkerReceives, Claims, Event
    <2>4. Cardinality(QueuedFor(queue', i)) \in Nat
      BY <2>1, CountsAreFinite
    <2> QED
      BY <1>2, <1>3, <2>1, <2>2, <2>3, <2>4 DEF Batched
  <1>8. ASSUME flushOne
        PROVE  targeted'[i] + Batched(i)' + Cardinality(QueuedFor(queue', i))
                 + Cardinality(HeldFor(i)') <= asked'[i]
    <2>1. UNCHANGED <<queue, asked>> /\ HeldFor(i)' = HeldFor(i) /\ Head(todo) \in Batches
      BY <1>1, <1>8 DEF flushOne, requestVars, serverVars, ghostVars, HeldFor
    <2>2. CASE Head(todo) = "sweep"
      <3>1. targeted' = targeted /\ batch'["targeted"] = batch["targeted"]
        BY <1>1, <1>8, <2>2 DEF flushOne
      <3> QED
        BY <1>2, <1>3, <2>1, <3>1 DEF Batched
    <2>3. CASE Head(todo) = "targeted"
      <3>1. /\ batch'["targeted"] = {}
            /\ targeted' = targeted \/ targeted' = plusOne(targeted, batch["targeted"])
        BY <1>1, <1>8, <2>3 DEF flushOne
      <3>2. targeted'[i] <= targeted[i] + Batched(i) /\ targeted'[i] \in Nat
        BY <1>1, <1>2, <3>1 DEF Batched, plusOne
      <3> QED
        BY <1>2, <1>3, <2>1, <3>1, <3>2 DEF Batched
    <2> QED
      BY <2>1, <2>2, <2>3 DEF Batches
  <1>9. CASE \E r \in Requests : Recall(r)
    BY <1>4, <1>5, <1>6, <1>9
    DEF Recall, RequestArrives, RequestEnds, workerVars, rowVars, ghostVars
  <1>10. CASE Worker
    BY <1>4, <1>7, <1>8, <1>10
    DEF Worker, WorkerTimer, WorkerClosed, WorkerStops, rowVars, requestVars, ghostVars
  <1>11. CASE StoreCloses \/ UNCHANGED accessVars
    BY <1>4, <1>11
    DEF StoreCloses, StopListening, StdinCloses, AbandonLoop, ShutdownDrained,
        CloseReturns, accessVars, workerVars, rowVars, requestVars, ghostVars
  <1> QED
    BY <1>9, <1>10, <1>11 DEF AccessNext

\* TargetedNeverExceedsAsked: the counter behind the sediment gate is at most
\* the number of bounded recalls that returned the record.
THEOREM TargetedNeverExceedsAskedHolds == AccessSpec => []TargetedNeverExceedsAsked
  <1>1. AccessInit => Balance
    <2> SUFFICES ASSUME AccessInit, NEW i \in Rows
                 PROVE  targeted[i] + Batched(i) + Cardinality(QueuedFor(queue, i))
                          + Cardinality(HeldFor(i)) <= asked[i]
      BY DEF Balance
    <2>1. QueuedFor(queue, i) = {} /\ HeldFor(i) = {} /\ i \notin batch["targeted"]
      BY DEF AccessInit, QueuedFor, HeldFor, NoEvent, Batches
    <2>2. targeted[i] = 0 /\ asked[i] = 0 /\ Batched(i) = 0
      BY <2>1 DEF AccessInit, Batched
    <2>3. Cardinality(QueuedFor(queue, i)) = 0 /\ Cardinality(HeldFor(i)) = 0
      BY <2>1, FS_EmptySet
    <2> QED
      BY <2>2, <2>3
  <1>2. TypeOK /\ Balance => TargetedNeverExceedsAsked
    <2> SUFFICES ASSUME TypeOK, Balance, NEW i \in Rows PROVE targeted[i] <= asked[i]
      BY DEF TargetedNeverExceedsAsked
    <2>1. /\ Cardinality(QueuedFor(queue, i)) \in Nat /\ Cardinality(HeldFor(i)) \in Nat
          /\ targeted[i] \in Nat /\ asked[i] \in Nat
      BY CountsAreFinite DEF TypeOK
    <2>2. targeted[i] + Batched(i) + Cardinality(QueuedFor(queue, i))
            + Cardinality(HeldFor(i)) <= asked[i]
      BY DEF Balance
    <2> QED
      BY <2>1, <2>2 DEF Batched
  <1> QED
    BY <1>1, <1>2, TypeCorrect, BalanceStep, PTL DEF AccessSpec

\* The worker leaves only after a flush() that began on a closed and empty
\* channel.
LEMMA KeptStep == TypeOK /\ Kept /\ [AccessNext]_accessVars => Kept'
  <1> SUFFICES ASSUME TypeOK, Kept, [AccessNext]_accessVars PROVE Kept'
    OBVIOUS
  <1>1. /\ queue \in Seq(Event) /\ batch \in [Batches -> SUBSET Rows]
        /\ req \in [Requests -> Event] /\ todo \in Seq(Batches)
        /\ targeted \in [Rows -> Nat] /\ accepted \in [Rows -> Nat]
        /\ worker \in {"run", "last", "stopped"}
    BY DEF TypeOK
  <1>2. ASSUME NEW r \in Requests, RecallRecords(r) PROVE Kept'
    <2>1. UNCHANGED <<closed, batch, todo, worker, targeted, lost>>
      BY <1>2 DEF RecallRecords, workerVars, rowVars
    <2>2. CASE UNCHANGED <<queue, accepted>>
      BY <2>1, <2>2 DEF Kept
    <2>3. CASE /\ ~closed /\ queue' = Append(queue, req[r])
               /\ accepted' = IF req[r].into = "targeted"
                              THEN plusOne(accepted, req[r].ids) ELSE accepted
      <3>1. req[r] \in Event /\ req[r].ids \in SUBSET Rows
        BY <1>1 DEF Event
      <3>2. \A i \in Rows : accepted'[i] > 0 => accepted[i] > 0 \/ Claims(req[r], i)
        BY <1>1, <2>3, <3>1 DEF Claims, plusOne
      <3>3. \A i \in Rows : QueuedFor(queue', i) =
              QueuedFor(queue, i) \cup (IF Claims(req[r], i) THEN {Len(queue) + 1} ELSE {})
        BY <1>1, <2>3, <3>1, AppendQueued
      <3>4. worker = "run"
        BY <1>1, <2>3 DEF Kept
      <3> QED
        BY <2>1, <3>2, <3>3, <3>4 DEF Kept
    <2> QED
      BY <1>2, <2>2, <2>3 DEF RecallRecords
  <1>3. ASSUME WorkerReceives PROVE Kept'
    <2>1. /\ queue # <<>> /\ worker = "run" /\ queue' = Tail(queue)
          /\ UNCHANGED <<closed, worker, targeted, lost, accepted>>
          /\ Head(queue) \in Event
      BY <1>1, <1>3 DEF WorkerReceives, rowVars, ghostVars
    <2>2. \A i \in Rows : i \in batch["targeted"] \/ Claims(Head(queue), i) => i \in batch'["targeted"]
      BY <1>1, <1>3, <2>1 DEF WorkerReceives, Claims, Event
    <2>3. ASSUME NEW i \in Rows, QueuedFor(queue, i) # {}
          PROVE  Claims(Head(queue), i) \/ QueuedFor(queue', i) # {}
      <3>1. PICK k \in 1 .. Len(queue) : Claims(queue[k], i)
        BY <2>3 DEF QueuedFor
      <3>2. CASE k = 1
        BY <2>1, <3>1, <3>2
      <3>3. CASE k # 1
        <4>1. k - 1 \in 1 .. Len(queue') /\ queue'[k - 1] = queue[k]
          BY <1>1, <2>1, <3>1, <3>3
        <4> QED
          BY <3>1, <4>1 DEF QueuedFor
      <3> QED
        BY <3>2, <3>3
    <2> QED
      BY <2>1, <2>2, <2>3 DEF Kept
  <1>4. ASSUME flushOne PROVE Kept'
    <2>1. /\ UNCHANGED <<queue, closed, worker, accepted>>
          /\ todo # <<>> /\ todo' = Tail(todo) /\ Head(todo) \in Batches
      BY <1>1, <1>4 DEF flushOne, ghostVars
    <2>2. CASE Head(todo) = "sweep"
      <3>1. UNCHANGED <<targeted, lost>> /\ batch'["targeted"] = batch["targeted"]
        BY <1>1, <1>4, <2>2 DEF flushOne
      <3>2. todo # <<"targeted", "sweep">>
        BY <2>2
      <3> QED
        BY <2>1, <3>1, <3>2 DEF Kept
    <2>3. CASE Head(todo) = "targeted"
      <3>1. /\ batch'["targeted"] = {}
            /\ \/ targeted' = plusOne(targeted, batch["targeted"]) /\ UNCHANGED lost
               \/ lost' = lost \cup batch["targeted"] /\ UNCHANGED targeted
        BY <1>1, <1>4, <2>3 DEF flushOne
      <3>2. \A i \in Rows : targeted[i] > 0 \/ i \in lost \/ i \in batch["targeted"]
                             => targeted'[i] > 0 \/ i \in lost'
        BY <1>1, <3>1 DEF plusOne
      <3> QED
        BY <2>1, <3>1, <3>2 DEF Kept
    <2> QED
      BY <2>1, <2>2, <2>3 DEF Batches
  <1>5. CASE WorkerTimer \/ WorkerClosed \/ WorkerStops
    <2>1. UNCHANGED <<queue, closed, batch, targeted, lost, accepted>>
      BY <1>5 DEF WorkerTimer, WorkerClosed, WorkerStops, rowVars, ghostVars
    <2>2. CASE WorkerTimer
      BY <2>1, <2>2 DEF WorkerTimer, Kept
    <2>3. CASE WorkerClosed
      BY <2>1, <2>3 DEF WorkerClosed, Kept
    <2>4. CASE WorkerStops
      <3>1. batch["targeted"] = {} /\ closed /\ queue = <<>>
        BY <2>4 DEF WorkerStops, Kept
      <3> QED
        BY <2>1, <2>4, <3>1 DEF WorkerStops, Kept
    <2> QED
      BY <1>5, <2>2, <2>3, <2>4
  <1>6. ASSUME NEW r \in Requests, NEW S, NEW t, RecallFinds(r, S, t) PROVE Kept'
    BY <1>6 DEF RecallFinds, Kept, workerVars, rowVars
  <1>7. CASE StoreCloses \/ UNCHANGED accessVars
    BY <1>7 DEF StoreCloses, StopListening, StdinCloses, AbandonLoop, ShutdownDrained,
                CloseReturns, accessVars, Kept, workerVars, rowVars, ghostVars
  <1>8. ASSUME NEW r \in Requests, RequestArrives(r) \/ RequestEnds(r) PROVE Kept'
    BY <1>8 DEF RequestArrives, RequestEnds, Kept, workerVars, rowVars, ghostVars
  <1> QED
    BY <1>2, <1>3, <1>4, <1>5, <1>6, <1>7, <1>8 DEF AccessNext, Recall, Worker

\* DrainedOnClose: what the channel took has been counted when the worker is
\* gone, or its transaction failed.
THEOREM DrainedOnCloseHolds == AccessSpec => []DrainedOnClose
  <1>1. AccessInit => Kept
    BY DEF AccessInit, Kept
  <1>2. Kept => DrainedOnClose
    <2> SUFFICES ASSUME Kept, worker = "stopped", NEW i \in Rows, accepted[i] > 0
                 PROVE  targeted[i] > 0 \/ i \in lost
      BY DEF DrainedOnClose
    <2>1. QueuedFor(queue, i) = {}
      BY DEF Kept, QueuedFor
    <2> QED
      BY <2>1 DEF Kept
  <1> QED
    BY <1>1, <1>2, TypeCorrect, KeptStep, PTL DEF AccessSpec

\* NoSendOnClosed: only a request nobody waits for, given up on by the shutdown
\* or read by an abandoned loop since, sends on the closed channel.
THEOREM NoSendOnClosedHolds == AccessSpec => []NoSendOnClosed
  <1>1. AccessInit => Sealed
    BY DEF AccessInit, Sealed
  <1>2. TypeOK /\ Sealed /\ [AccessNext]_accessVars => Sealed'
    <2> SUFFICES ASSUME TypeOK, Sealed, [AccessNext]_accessVars PROVE Sealed'
      OBVIOUS
    <2>1. doing \in [Requests -> {"idle", "reading", "found"}]
      BY DEF TypeOK
    <2>2. ASSUME NEW r \in Requests, NEW S, NEW t, RecallFinds(r, S, t) PROVE Sealed'
      BY <2>1, <2>2 DEF RecallFinds, Sealed, serverVars
    <2>3. ASSUME NEW r \in Requests, RecallRecords(r) \/ RequestEnds(r) PROVE Sealed'
      BY <2>1, <2>3 DEF RecallRecords, RequestEnds, Sealed, serverVars
    <2>4. ASSUME NEW r \in Requests, RequestArrives(r) PROVE Sealed'
      BY <2>1, <2>4 DEF RequestArrives, Sealed, serverVars
    <2>5. CASE Worker \/ UNCHANGED accessVars
      BY <2>5 DEF Worker, WorkerReceives, WorkerTimer, WorkerClosed, flushOne,
                  WorkerStops, Sealed, requestVars, serverVars, accessVars
    <2>6. CASE StoreCloses
      BY <2>6 DEF StoreCloses, StopListening, StdinCloses, AbandonLoop, ShutdownDrained,
                  CloseReturns, Busy, Sealed, requestVars, TypeOK
    <2> QED
      BY <2>2, <2>3, <2>4, <2>5, <2>6 DEF AccessNext, Recall
  <1>3. Sealed => NoSendOnClosed
    BY DEF Sealed, NoSendOnClosed
  <1> QED
    BY <1>1, <1>2, <1>3, TypeCorrect, PTL DEF AccessSpec
===============================================================================
