---------------------------- MODULE VectorIndex ----------------------------
(***************************************************************************)
(* The document index: processes that share vectors.db.  A process that    *)
(* indexes brings the rows to what the files say, one transaction after    *)
(* another, between a commit that marks the index dirty and one that       *)
(* publishes a new generation.  Every process answers searches from a map  *)
(* of the vectors it has loaded, which it reloads when it finds another    *)
(* generation, and which the process that indexes changes in place.        *)
(* A file's contents are the sequence of its chunks' texts; equal contents *)
(* have equal hashes.  A vector is the text and the model it came from.    *)
(***************************************************************************)
EXTENDS Integers, Sequences, FiniteSets

CONSTANTS
    Procs,            \* processes on the file
    Indexers,         \* those that run index_documents or watch the files
    Paths, Contents,  \* files, and what they may contain
    Models,           \* embedding models
    None,
    KeywordFallback,  \* may index without a model
    FailOver,         \* may another model answer in the middle of a run
    SearchWhileIndexing, \* may a process load its map during a run of its own
    BatchSize,        \* chunks per call of the embedder
    MaxEdits,         \* bounds on changes of files and of the model,
    MaxCalls,         \* on explicit runs
    MaxFaults        \* and on crashes and failed writes

Texts == UNION {{c[k] : k \in DOMAIN c} : c \in Contents}
Files == [Paths -> Contents \cup {None}]

MaxLen == CHOOSE n \in {Len(c) : c \in Contents} : \A c \in Contents : Len(c) <= n
Ids == Paths \X (1..MaxLen)

\* A chunk, and the vectors of some of them.
Row == [text : Texts, model : Models \cup {None}]
Map == [Ids -> Row \cup {None}]

\* What a commit does to the map of the process that made it.
Changes ==
    [put : UNION {[S -> Row \cup {None}] : S \in SUBSET Ids},
     before : Nat, after : Nat]

Loads == [ver : Nat, rows : Map \cup {None}]

ASSUME IndexAssumption ==
    /\ Indexers \subseteq Procs /\ <<>> \notin Contents
    /\ \A c \in Contents : c \in Seq(Texts)
    /\ \E c \in Contents : \A d \in Contents : Len(d) <= Len(c)
    /\ KeywordFallback \in BOOLEAN /\ FailOver \in BOOLEAN
    /\ SearchWhileIndexing \in BOOLEAN
    /\ BatchSize \in Nat \ {0} /\ None \notin Contents \cup Models \cup Row
    /\ None \notin Map /\ None \notin Changes /\ None \notin Loads
    /\ MaxEdits \in Nat /\ MaxCalls \in Nat /\ MaxFaults \in Nat

VARIABLES
    disk,     \* contents per path, or None
    model,    \* the model that answers, or None when none does
    rows,     \* chunks: text and model (None: no vector), or None
    tracked,  \* indexed_files: contents indexed last, or None
    meta,     \* index_metadata: state, model, keywordOnly, generation
    proc,     \* per process: up, loaded, ver, map, and the change of its
              \* own that is committed and not in the map yet
    load,     \* per process: a load in progress, or None
    job,      \* per process: the indexing run, or Idle
    wanted,   \* processes whose debounce timer is armed
    leftover, \* ghost: a sweep has left chunks (it failed, or no file was
              \* tracked), and no rebuild has been finished since
    unswept,  \* ghost: the last sweep has failed, with orphans to remove
    edits, calls, faults  \* counters for the bounds

vars == <<disk, model, rows, tracked, meta, proc, load, job, wanted,
          leftover, unswept, edits, calls, faults>>

world == <<disk, model, edits>>
ghosts == <<leftover, unswept>>
database == <<rows, tracked, meta, ghosts>>

NoVectors == [i \in Ids |-> None]
Fresh(ver) == [up |-> TRUE, loaded |-> FALSE, ver |-> ver, map |-> NoVectors,
               change |-> None]
Idle == [pc |-> "idle"]

\* Metadata keys that were never written are absent.
Init ==
    /\ disk \in [Paths -> Contents] /\ model \in Models \cup {None}
    /\ rows = NoVectors /\ tracked = [p \in Paths |-> None]
    /\ meta = [state |-> "absent", model |-> None, keywordOnly |-> FALSE, gen |-> 0]
    /\ proc = [s \in Procs |-> Fresh(0)]
    /\ load = [s \in Procs |-> None] /\ job = [s \in Procs |-> Idle]
    /\ wanted = {} /\ leftover = FALSE /\ unswept = FALSE
    /\ edits = 0 /\ calls = 0 /\ faults = 0

-----------------------------------------------------------------------------
(* The world.                                                              *)

EditFile(p, c) ==
    /\ edits < MaxEdits /\ edits' = edits + 1
    /\ c # disk[p] /\ disk' = [disk EXCEPT ![p] = c]
    /\ UNCHANGED <<model, database, proc, load, job, wanted, calls, faults>>

\* The chain of providers answers with another model, or not at all.
SwitchModel(m) ==
    /\ edits < MaxEdits /\ edits' = edits + 1
    /\ FailOver \/ m = None \/ \A s \in Procs : job[s].pc \in {"idle", "sweeps", "deletes"}
    /\ m # model /\ model' = m
    /\ UNCHANGED <<disk, database, proc, load, job, wanted, calls, faults>>

-----------------------------------------------------------------------------
(* vectors.db and the map.                                                 *)

Vector(i) == IF rows[i] # None /\ rows[i].model # None THEN rows[i] ELSE None

\* After a commit, under the store's lock: put and drop the chunks changed.
\* An own publication is adopted if the process was current just before it.
MapFollows(s) ==
    LET c == proc[s].change
        map == IF ~proc[s].loaded THEN proc[s].map
               ELSE [i \in Ids |-> IF i \in DOMAIN c.put THEN c.put[i]
                                   ELSE proc[s].map[i]]
        ver == IF c.after # c.before /\ proc[s].ver = c.before THEN c.after
               ELSE proc[s].ver
    IN /\ proc[s].up /\ c # None
       /\ proc' = [proc EXCEPT ![s] = [@ EXCEPT !.change = None, !.map = map, !.ver = ver]]
       /\ UNCHANGED <<world, database, load, job, wanted, calls, faults>>

Change(put, before, after) == [put |-> put, before |-> before, after |-> after]

\* RefreshIfStale, when the generation has moved and nothing is loaded yet.
RefreshIfStale(s) ==
    /\ proc[s].up /\ load[s] = None
    /\ ~proc[s].loaded /\ proc[s].ver # meta.gen
    /\ proc' = [proc EXCEPT ![s].ver = meta.gen]
    /\ UNCHANGED <<world, database, load, job, wanted, calls, faults>>

\* Mutant: the version is read together with the swap.
loadVectors_versionLast(s) ==
    /\ load[s] # None /\ load[s].rows # None
    /\ proc' = [proc EXCEPT ![s].map = load[s].rows, ![s].loaded = TRUE,
                            ![s].ver = meta.gen]
    /\ load' = [load EXCEPT ![s] = None]
    /\ UNCHANGED <<world, database, job, wanted, calls, faults>>

\* ensureVectors on the first semantic search, RefreshIfStale later: the
\* version first,
LoadBegins(s) ==
    /\ proc[s].up /\ load[s] = None
    /\ ~proc[s].loaded \/ proc[s].ver # meta.gen
    /\ SearchWhileIndexing \/ (job[s].pc = "idle" /\ proc[s].change = None)
    /\ load' = [load EXCEPT ![s] = [ver |-> meta.gen, rows |-> None]]
    /\ UNCHANGED <<world, database, proc, job, wanted, calls, faults>>

\* then the rows that have a vector,
LoadReads(s) ==
    /\ load[s] # None /\ load[s].rows = None
    /\ load' = [load EXCEPT ![s].rows = [i \in Ids |-> Vector(i)]]
    /\ UNCHANGED <<world, database, proc, job, wanted, calls, faults>>

\* then the map.
loadVectors(s) ==
    /\ load[s] # None /\ load[s].rows # None
    /\ proc' = [proc EXCEPT ![s].map = load[s].rows, ![s].loaded = TRUE,
                            ![s].ver = load[s].ver]
    /\ load' = [load EXCEPT ![s] = None]
    /\ UNCHANGED <<world, database, job, wanted, calls, faults>>

\* What a search is answered from.  An index without vectors asks for no
\* embedding, and one of another model refuses the query.
search ==
    IF KeywordFallback /\ (meta.keywordOnly \/ model = None) THEN "keywords"
    ELSE IF model # None /\ meta.model \in {None, model} THEN "vectors"
    ELSE "error"

-----------------------------------------------------------------------------
(* What a run has to do.                                                   *)

\* One document per chunk of a file that is there.
collectDocuments == {p \in Paths : disk[p] # None}

Chunks(c, p) == {p} \X (1..Len(c))

\* Mutant: only what is new is added.
calculateIndexChanges_newOnly(docs, rebuild) ==
    [add |-> IF rebuild THEN docs ELSE {p \in docs : tracked[p] = None},
     remove |-> {p \in Paths : tracked[p] # None /\ (rebuild \/ p \notin docs)}]

calculateIndexChanges(docs, rebuild) ==
    [add |-> IF rebuild THEN docs ELSE {p \in docs : tracked[p] # disk[p]},
     remove |-> {p \in Paths : tracked[p] # None /\ (rebuild \/ p \notin docs)}]

\* Every tracked file is as it is indexed, and every file is tracked.
needsIndexing ==
    \/ \A p \in Paths : tracked[p] = None
    \/ \E S \in {calculateIndexChanges(collectDocuments, FALSE)} :
         S.add \cup S.remove # {}

\* Mutant: a dirty index is not rebuilt.
needsRebuild_trusting ==
    \/ meta.model # None /\ collectDocuments # {} /\ meta.model # model
    \/ meta.model = None /\ KeywordFallback /\ model # None /\ meta.keywordOnly

\* Left dirty, built by another model, or a model after none.
needsRebuild ==
    \/ meta.state = "dirty"
    \/ meta.model # None /\ collectDocuments # {} /\ meta.model # model
    \/ /\ meta.model = None /\ KeywordFallback /\ collectDocuments # {}
       /\ model # None /\ meta.keywordOnly

\* An outage is an error for an index that has a model, and nothing at all to
\* index is one too.
Refused ==
    \/ meta.model # None /\ collectDocuments # {} /\ model = None
    \/ collectDocuments = {} /\ ~needsRebuild /\ \A p \in Paths : tracked[p] = None

\* Run s ends with nothing more to do, or with an error.
Ends(s) == job' = [job EXCEPT ![s] = Idle]

-----------------------------------------------------------------------------
(* IndexDocuments, under indexMu.                                          *)

At(s, pc) == proc[s].up /\ job[s].pc = pc /\ proc[s].change = None

\* files: the documents read; todo: paths to remove, and to clean before
\* they are added; left: chunks to index; reuse: vectors that may be kept.
IndexBegins(s) ==
    /\ At(s, "idle") /\ ~Refused
    /\ SearchWhileIndexing \/ load[s] = None
    /\ LET S == calculateIndexChanges(collectDocuments, needsRebuild)
       IN job' = [job EXCEPT ![s] =
            [pc |-> "marks", files |-> disk, rebuild |-> needsRebuild,
             add |-> S.add, remove |-> S.remove, todo |-> S.remove, reuse |-> {},
             left |-> UNION {Chunks(disk[p], p) : p \in S.add},
             failed |-> {}, model |-> None,
             keywordOnly |-> KeywordFallback /\ meta.model = None /\ model = None]]
    /\ UNCHANGED <<world, database, proc, load, faults>>

IndexCalled(s) ==
    /\ calls < MaxCalls /\ calls' = calls + 1
    /\ IndexBegins(s) /\ UNCHANGED wanted

\* Every WatchInterval: a change arms the debounce timer.
WatcherTicks(s) ==
    /\ proc[s].up /\ s \in Indexers \ wanted /\ needsIndexing
    /\ wanted' = wanted \cup {s}
    /\ UNCHANGED <<world, database, proc, load, job, calls, faults>>

TimerFires(s) ==
    /\ s \in wanted /\ proc[s].up /\ wanted' = wanted \ {s}
    /\ \/ IndexBegins(s)
       \/ At(s, "idle") /\ Refused /\ UNCHANGED <<world, database, proc, load, job, faults>>
    /\ UNCHANGED calls

IndexMarksDirty(s) ==
    /\ At(s, "marks")
    /\ meta' = [meta EXCEPT !.state = "dirty"]
    /\ job' = [job EXCEPT ![s].pc = "removes"]
    /\ UNCHANGED <<world, rows, tracked, ghosts, proc, load, wanted, calls, faults>>

\* DeleteByDocPath: its rows in one transaction, then the map.
DeleteByDocPath(s, p) ==
    LET gone == {i \in Ids : i[1] = p /\ rows[i] # None} IN
    /\ rows' = [i \in Ids |-> IF i \in gone THEN None ELSE rows[i]]
    /\ proc' = IF gone = {} THEN proc
               ELSE [proc EXCEPT ![s].change = Change([i \in gone |-> None], 0, 0)]

IndexRemoves(s, p) ==
    /\ At(s, "removes") /\ p \in job[s].todo
    /\ DeleteByDocPath(s, p)
    /\ job' = [job EXCEPT ![s].todo = @ \ {p}]
    /\ UNCHANGED <<world, tracked, meta, ghosts, load, wanted, calls, faults>>

\* What may be kept of the files to add; a rebuild keeps nothing.
IndexReuses(s) ==
    /\ At(s, "removes") /\ job[s].todo = {}
    /\ job' = [job EXCEPT ![s] = [@ EXCEPT
         !.pc = "cleans", !.todo = job[s].add,
         !.reuse = IF job[s].rebuild THEN {}
                   ELSE {Vector(i) : i \in {j \in Ids : j[1] \in job[s].add}} \ {None}]]
    /\ UNCHANGED <<world, database, proc, load, wanted, calls, faults>>

\* A failure here is only a warning: the rows stay.
IndexCleans(s, p) ==
    /\ At(s, "cleans") /\ p \in job[s].todo
    /\ DeleteByDocPath(s, p) \/ UNCHANGED <<rows, proc>>
    /\ job' = [job EXCEPT ![s].todo = @ \ {p}]
    /\ UNCHANGED <<world, tracked, meta, ghosts, load, wanted, calls, faults>>

Embedding(s) == At(s, "cleans") /\ job[s].todo = {}

Kept(s, text) == {v \in job[s].reuse : v.text = text}
TextOf(s, i) == job[s].files[i[1]][i[2]]

\* A chunk without a vector, or with one that is kept, or with a new one.
indexKeywordOnly(s, i) == [text |-> TextOf(s, i), model |-> None]
indexDocuments(s, i) ==
    IF Kept(s, TextOf(s, i)) = {} THEN [text |-> TextOf(s, i), model |-> model]
    ELSE CHOOSE v \in Kept(s, TextOf(s, i)) : TRUE

\* Upsert: the chunks in one transaction, then the map.
Upsert(s, chunks) ==
    /\ rows' = [i \in Ids |-> IF i \in DOMAIN chunks THEN chunks[i] ELSE rows[i]]
    /\ proc' = [proc EXCEPT ![s].change = Change(
         [i \in DOMAIN chunks |->
            IF chunks[i].model = None THEN None ELSE chunks[i]], 0, 0)]

NextBatch(s, B) ==
    /\ Embedding(s) /\ B # {} /\ B \subseteq job[s].left
    /\ Cardinality(B) <= BatchSize
    /\ Cardinality(B) = BatchSize \/ B = job[s].left

\* A batch whose model is not that of the batches before ends the run.
IndexBatch(s, B) ==
    LET new == {i \in B : Kept(s, TextOf(s, i)) = {}}
        plain == job[s].keywordOnly
        answered == IF new = {} \/ plain THEN None ELSE model
    IN /\ NextBatch(s, B)
       /\ new = {} \/ plain \/ model # None
       /\ Upsert(s, [i \in B |-> IF plain THEN indexKeywordOnly(s, i)
                                 ELSE indexDocuments(s, i)])
       /\ IF answered = None \/ job[s].model \in {None, answered}
          THEN job' = [job EXCEPT ![s].left = @ \ B,
                         ![s].model = IF answered = None THEN @ ELSE answered]
          ELSE Ends(s)
       /\ UNCHANGED <<world, tracked, meta, ghosts, load, wanted, calls, faults>>

\* The embedder fails: the batch's files are failed, the run goes on.
IndexBatchFails(s, B) ==
    /\ NextBatch(s, B) /\ ~job[s].keywordOnly /\ model = None
    /\ \E i \in B : Kept(s, TextOf(s, i)) = {}
    /\ job' = [job EXCEPT ![s].left = @ \ B,
                 ![s].failed = @ \cup {i[1] : i \in B}]
    /\ UNCHANGED <<world, database, proc, load, wanted, calls, faults>>

\* A statement fails: the run returns its error.
IndexFails(s) ==
    /\ At(s, "removes") \/ Embedding(s)
    /\ faults < MaxFaults /\ faults' = faults + 1
    /\ Ends(s)
    /\ UNCHANGED <<world, database, proc, load, wanted, calls>>

\* CommitIndexState, of a finished run: files, metadata and a new generation
\* in one transaction.
CommitIndexState(s, upsert, delete, state) ==
    LET j == job[s] IN
    /\ tracked' = [p \in Paths |-> IF p \in upsert THEN j.files[p]
                                   ELSE IF p \in delete THEN None ELSE tracked[p]]
    /\ meta' = [state |-> state, gen |-> meta.gen + 1,
                model |-> IF j.model # None THEN j.model ELSE meta.model,
                keywordOnly |-> j.keywordOnly]
    /\ proc' = [proc EXCEPT ![s].change = Change(<<>>, meta.gen, meta.gen + 1)]

\* Mutant: a file that has failed is tracked like the others.
IndexCommits_failed(s) ==
    /\ Embedding(s) /\ job[s].left = {}
    /\ CommitIndexState(s, job[s].add, job[s].remove, "ready")
    /\ job' = [job EXCEPT ![s] = [pc |-> "sweeps"]]
    /\ leftover' = (leftover /\ ~job[s].rebuild)
    /\ UNCHANGED <<world, rows, unswept, load, wanted, calls, faults>>

\* A file that has failed is not tracked and leaves the index dirty; one that
\* is removed and added again (a rebuild) is tracked.
IndexCommits(s) ==
    LET failed == job[s].failed IN
    /\ Embedding(s) /\ job[s].left = {}
    /\ CommitIndexState(s, job[s].add \ failed, job[s].remove \cup failed,
                        IF failed = {} THEN "ready" ELSE "dirty")
    /\ job' = [job EXCEPT ![s] = [pc |-> "sweeps"]]
    /\ leftover' = (leftover /\ ~job[s].rebuild)
    /\ UNCHANGED <<world, rows, unswept, load, wanted, calls, faults>>

-----------------------------------------------------------------------------
(* CleanOrphans, after a run and at every start of a process.              *)

Expected == UNION {Chunks(tracked[p], p) : p \in {q \in Paths : tracked[q] # None}}

SweepReads(s) ==
    LET orphans == {i \in Ids \ Expected : rows[i] # None}
    IN /\ At(s, "sweeps")
       /\ job' = [job EXCEPT ![s] =
            IF Expected = {} \/ orphans = {} THEN Idle
            ELSE [pc |-> "deletes", orphans |-> orphans]]
       /\ leftover' = (leftover \/ (Expected = {} /\ orphans # {}))
       /\ unswept' = FALSE
       /\ UNCHANGED <<world, rows, tracked, meta, proc, load, wanted, calls, faults>>

SweepDeletes(s) ==
    /\ At(s, "deletes")
    /\ rows' = [i \in Ids |-> IF i \in job[s].orphans THEN None ELSE rows[i]]
    /\ meta' = [meta EXCEPT !.gen = @ + 1]
    /\ proc' = [proc EXCEPT ![s].change =
         Change([i \in job[s].orphans |-> None], meta.gen, meta.gen + 1)]
    /\ Ends(s)
    /\ UNCHANGED <<world, tracked, ghosts, load, wanted, calls, faults>>

\* Reading or deleting fails, which is only a warning: what is committed is
\* "ready" and stays so.
SweepFails(s) ==
    LET orphans == {i \in Ids \ Expected : rows[i] # None}
    IN /\ At(s, "sweeps") \/ At(s, "deletes")
       /\ faults < MaxFaults /\ faults' = faults + 1
       /\ leftover' = (leftover \/ orphans # {}) /\ unswept' = (orphans # {})
       /\ Ends(s)
       /\ UNCHANGED <<world, rows, tracked, meta, proc, load, wanted, calls>>

\* A process that dies takes its run with it; what is committed stays.
Crash(s) ==
    /\ s \in Indexers /\ proc[s].up /\ faults < MaxFaults
    /\ faults' = faults + 1
    /\ proc' = [proc EXCEPT ![s] = [Fresh(0) EXCEPT !.up = FALSE]]
    /\ load' = [load EXCEPT ![s] = None] /\ Ends(s)
    /\ wanted' = wanted \ {s}
    /\ UNCHANGED <<world, database, calls>>

\* A new process; one that finds an index without vectors tries again.
Open(s) ==
    /\ ~proc[s].up
    /\ proc' = [proc EXCEPT ![s] = Fresh(meta.gen)]
    /\ job' = [job EXCEPT ![s] = [pc |-> "sweeps"]]
    /\ wanted' = IF meta.keywordOnly THEN wanted \cup {s} ELSE wanted
    /\ UNCHANGED <<world, database, load, calls, faults>>

-----------------------------------------------------------------------------
Batches(s) == IF job[s].pc = "cleans" THEN SUBSET job[s].left ELSE {}
Todo(s) == IF job[s].pc \in {"removes", "cleans"} THEN job[s].todo ELSE {}

RunStep(s) ==
    \/ IndexMarksDirty(s) \/ IndexReuses(s) \/ IndexCommits(s)
    \/ \E p \in Todo(s) : IndexRemoves(s, p) \/ IndexCleans(s, p)
    \/ \E B \in Batches(s) : IndexBatch(s, B) \/ IndexBatchFails(s, B)
    \/ SweepReads(s) \/ SweepDeletes(s) \/ MapFollows(s)

LoadStep(s) == RefreshIfStale(s) \/ LoadBegins(s) \/ LoadReads(s) \/ loadVectors(s)

Next ==
    \/ \E p \in Paths, c \in Contents \cup {None} : EditFile(p, c)
    \/ \E m \in Models \cup {None} : SwitchModel(m)
    \/ \E s \in Procs : RunStep(s) \/ LoadStep(s)
    \/ \E s \in Indexers :
         IndexCalled(s) \/ WatcherTicks(s) \/ TimerFires(s)
           \/ IndexFails(s) \/ SweepFails(s) \/ Crash(s) \/ Open(s)

Spec == Init /\ [][Next]_vars

\* Goroutines proceed, tickers tick, timers fire.
Fairness ==
    /\ \A s \in Procs : WF_vars(RunStep(s)) /\ WF_vars(LoadStep(s))
    /\ \A s \in Indexers : WF_vars(WatcherTicks(s)) /\ WF_vars(TimerFires(s))

FairSpec == Spec /\ Fairness

-----------------------------------------------------------------------------
(* Properties.                                                             *)

\* No run, no sweep, and no process that has died and not been started again.
Quiet == \A s \in Procs :
           proc[s].up /\ job[s].pc = "idle" /\ proc[s].change = None

\* The text of a chunk in files as they are, or as they were indexed.
Chunk(files, i) ==
    LET c == files[i[1]] IN IF c # None /\ i[2] <= Len(c) THEN c[i[2]] ELSE None

\* An index that calls itself ready, between runs, has every chunk of every
\* tracked file with that file's text: after crashes in the middle of a run,
\* and after failed deletions and sweeps too.  It has nothing else, unless the
\* last sweep failed (which is only a warning, given after the index is ready)
\* or no file is tracked (which CleanOrphans leaves alone).
ReadyIsComplete ==
    Quiet /\ meta.state = "ready" => \A i \in Ids :
        IF i \in Expected THEN rows[i] # None /\ rows[i].text = Chunk(tracked, i)
        ELSE Expected # {} /\ ~unswept => rows[i] = None

Current(s) == proc[s].up /\ proc[s].loaded /\ proc[s].ver = meta.gen

\* A process that takes its vectors for current has those of the index: no
\* publication of another process is overlooked, whatever it overlaps with.
CurrentIsWhole ==
    Quiet /\ meta.state = "ready" =>
        \A s \in Procs : Current(s) => proc[s].map = [i \in Ids |-> Vector(i)]

\* A search of a ready index compares its query with vectors of the query's
\* own model alone, wherever they were kept from.  (The chunks that a sweep
\* has left are reused by the next run whatever model they are of.)
OneModel ==
    Quiet /\ meta.state = "ready" /\ ~leftover
      /\ Expected # {} /\ search = "vectors" =>
        \A s \in Procs : Current(s) =>
            \A i \in Ids : proc[s].map[i] # None => proc[s].map[i].model = model

\* Without a crash or a failed statement, and with a model in the end, the
\* chunks become those of the files: each change is found by the watcher.
\* (A rebuild that is interrupted leaves files tracked whose chunks are gone,
\* which the watcher does not look at.)
FilesGetIndexed ==
    <>[](faults > 0 \/ model = None
         \/ \A i \in Ids : IF rows[i] = None THEN Chunk(disk, i) = None
                           ELSE rows[i].text = Chunk(disk, i))
=============================================================================
