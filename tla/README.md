# A formal model of agent-memory-mcp

agent-memory-mcp is a long-lived memory server for coding agents: one daemon per
database that stores memories in a SQLite file, serves them over MCP from an
in-memory copy, and runs a number of background jobs over them (triple extraction,
re-embedding, sedimentation, archive sweep, stewardship, RAG indexing, session
checkpoints). CLI commands and editor hooks open the same file from processes of
their own. This directory models the parts of it whose correctness depends on the
order of steps, checks the models with TLC, and proves the main results with TLAPS.

Contents: [parts of the system](#1-the-parts-of-the-system),
[plan](#2-the-plan), [modules and code](#3-modules-and-the-code-they-model),
[runs](#4-runs), [fairness](#5-fairness), [proofs](#6-what-is-proved),
[where code and documents part](#7-where-the-code-and-what-it-says-part),
[limits](#8-what-is-not-modelled). `PROJECT.json` lists components, runs, mutants,
hazards and theorems, and names the source lines of every definition.

To check: `tlc -config MCMemoryStore_store_faults.cfg MCMemoryStore.tla` (and so on
for the other `.cfg` files, each named after its module and its run), and
`tlapm MemoryStoreProofs.tla`.

## 1. The parts of the system

### memory.Store: the write path (`internal/memory/{memory,write,embedwrite,store_sql,foreignwrites,read}.go`)

- **State.** The `memories` table of the file; the map `ms.memories` (the cache), which
  list, recall, the sweeps and the cycle read; `writeMu`, which serialises the daemon's
  writers, and `mu`, which guards the maps (always taken after `writeMu`); the
  `data_version` the watcher has last seen.
- **Operations.** `Store`, `Update`, `Delete`; saves of a part of a row (reference counts,
  sediment layers); the re-embed walk (at startup and as a tool); `flushAccessStats`;
  `WatchForeignWrites`; `NewStore`, `Close`. A CLI does the same row operations on the
  same file without this daemon's locks.
- **Hard behaviour.** The embedding is computed before `writeMu` is taken and the row
  is read again under it; a save writes all columns but one of a row read earlier; the
  watcher replaces the whole map while others write; the counters are published to the
  cache outside `writeMu`; a reference count commits metadata that the cache is not given;
  another process changes the file at any moment; the daemon
  dies between a commit and the cache.
- **What makes it correct.** No lost update inside the daemon; at rest the cache is the
  file, apart from what a reload is still due for: foreign writes, and the metadata of
  counted records; nothing served goes back in
  time; the counter the sediment gate reads never goes back; every commit becomes
  visible; a vector is the vector of the text it is stored with.

### Access accounting (`internal/memory/read.go`, shutdown in `internal/server/server.go`)

- **State.** The channel `accessCh` (64), two batches of the worker (bounded recalls and
  sweeps), `access_count` and `targeted_access_count` of the rows.
- **Operations.** `Recall` hands over what it returned without ever waiting; the worker
  collects, and flushes on a full batch, on a timer and when the channel is closed;
  `Store.Close` closes the channel and waits. `RunHTTP` and `RunStdio` decide when.
- **Hard behaviour.** A full channel, a failing transaction, a recall that is still
  scoring while the server shuts down; a loop over stdin that `RunStdio` leaves behind, and
  connections that `RunHTTP` leaves open when its listener fails, which go on reading
  requests while the store closes.
- **What makes it correct.** Never more counted than recalled; what the channel accepted
  is counted or its transaction failed; both batches get written; `Close` returns.

### Lifecycle operations (`internal/memory/{write,engineering,trust,policy}.go`)

- **State.** The metadata of a record (`canonical`, `archived`, `lifecycle_status`,
  `status`, `provenance`, `referenced_by_count`, `superseded_by`), the columns
  `superseded_by` and `replaces`, importance and layer.
- **Operations.** `MarkOutdated` with and without a successor, `PromoteToCanonical`
  behind a provenance gate, `MergeDuplicates`, `Update` of metadata with `Validate`
  deriving one field from another, removal of keys.
- **Hard behaviour.** Several fields say nearly the same and are written by different
  operations, so what matters is what long sequences of legal calls lead to.
- **What makes it correct.** Only a trusted record becomes canonical; a retired one is
  not revived by accident; links and their counter are written together.

### Sedimentation and reference counts (`internal/memory/{sediment,sediment_cycle,refcount}.go`, tools and scheduler in `internal/server`)

- **State.** The layer of a record, its review items, the snapshot and the set of open
  proposals of a running cycle, the rows a recount is about to write.
- **Operations.** `PromoteSediment`, `DemoteSediment`, `RunSedimentCycle`,
  `IncrementReferencedByCount`, `RecountReferences`, resolving and deleting reviews.
- **Hard behaviour.** The cycle and the recount act on what they read without the lock;
  the scheduler's cycle and a tool's may overlap.
- **What makes it correct.** One open proposal per record; no gate is passed because of
  an old snapshot; the counter is not behind the links.

### Archive sweep (`internal/lifecycle/archive_sweep.go`, its scheduler, tools and commands)

- **State.** Per sweep: its flags and whether its caller's shutdown cancels it, the
  decisions on the listed copies, the reviews it knows of.
- **Operations.** `EndTask` and `SweepArchive`: two listings, `decide`, and one store
  call per memory (retire, promote, review item); failure and cancellation of each.
- **Hard behaviour.** Requests go on between listing and applying; a sweep is cut short
  and run again; two callers sweep one task.
- **What makes it correct.** After a whole sweep nothing of the task is left as it was;
  one review item per memory; the provenance gate is asked of the row as it is.

### Embedder and triples (`internal/embedder`, `internal/memory/{embedwrite,extractor,triples,multihop}.go`, `index_triples_cli.go`)

- **State.** A breaker per provider of the chain; the triples of each memory; per
  goroutine, where its embedding or its replacement of triples is.
- **Operations.** Embedding a text, a query or a batch: the candidates are collected,
  then asked one by one; a long text that nobody takes is retried on a prefix. Every
  store and every update of a content leaves behind a goroutine that asks a model, deletes
  the triples and adds new ones; `index-triples` does the same from another process;
  `Delete` removes triples and row. `RecallMultihop` recalls seeds, reads all triples,
  walks them for some hops and reads the best rows.
- **Hard behaviour.** All callers share the breakers, and results of calls begun before a
  breaker opened come in later; extractions finish in any order; a memory is rewritten or
  deleted under one; the walk updates the table of scores it reads.
- **What makes it correct.** One sound provider is enough for a text to get its vector;
  the triples of a memory are those of its content, of one extraction, and gone with it;
  the walk yields the scores of the best walks.

### Steward (`internal/steward`)

- **State.** The inbox items, the policy in memory and in the file, the run in progress
  with the plan it has made, a flag for the run of the scheduler.
- **Operations.** `Run` (reconcile the inbox, scan, apply the safe actions, file the
  rest), `ResolveInbox`, `DeferInboxItem`, `SetPolicy`/`PatchPolicy`, `VerifyEntry`, the
  scheduler's ticks and triggers.
- **Hard behaviour.** A run acts on a reading of the cache that requests outdate; an item
  is read, carried out and closed in three steps; a patch publishes while a run copies
  the policy; triggers coalesce.
- **What makes it correct.** One outcome per item, and a verb only if it was carried out;
  no unattended action against a record that was canonical; no merge loses knowledge; no
  review is taken away that is still needed; every stored session is scanned.

### Vector store and RAG indexer (`internal/vectorstore`, `internal/rag`)

- **State.** Chunk rows, `indexed_files`, `index_metadata` (state, model, generation); per
  process the loaded vectors and the generation they are of.
- **Operations.** `IndexDocuments` under `indexMu`: mark dirty, remove, keep vectors that
  may be kept, clean, embed batch by batch, commit files and metadata, clean orphans;
  the watcher and its timer; `RefreshIfStale`, `loadVectors`; opening the file.
- **Hard behaviour.** Every step is a transaction of its own, and any of them may be the
  last; another process loads while one publishes; the model changes between runs.
- **What makes it correct.** A ready index is complete; no publication is overlooked; a
  search compares vectors of one model; a changed file gets indexed.

### Session tracker and session close (`internal/server/session_*.go`, `internal/sessionclose`, `internal/hooks`)

- **State.** The session in progress, its idle timer, the pool and the wait group of the
  checkpoint workers; per close, its plan and how far it is; the memories they write.
- **Operations.** Tool calls and notifications, idle flush, forced checkpoints, manual
  closes with their flags, `Close`; planning, applying, the terminal record, the review
  queue; hook processes that capture, checkpoint or accept a session.
- **Hard behaviour.** A timer that fired races with the next call; closes of one agent
  session run in several processes; a shutdown meets workers that are about to register;
  an update fails midway.
- **What makes it correct.** What is worth keeping of a session is applied, queued or in
  its record; one record per agent session; no checkpoint under a dead context; activity
  does not stay in the tracker.

### Server and configuration (`internal/server`, `internal/config`, `cmd/agent-memory-mcp/main.go`)

- **State.** The configuration in use and who read it, the watcher's memory of the file,
  `reloadMu` and `ragMu`, the RAG engine, the interval schedulers, the phase of shutdown.
- **Operations.** `Load`, `LoadFromFile`, `New`, `ApplyReload`, `ReloadFromFile`,
  `ReloadConfig`, the schedulers' loops and `Close`, `Shutdown`.
- **Hard behaviour.** Two reload paths of which one loads outside the lock; a reload
  stops one engine and starts another while the server goes down; jobs outlive the wait
  for them.
- **What makes it correct.** An edit ends up in effect; nothing is left at work that
  cannot be stopped any more.

### How they interact

Requests, background jobs and the steward call `memory.Store`; every write goes through
`writeMu`. `Recall` reads the cache and sends to `accessCh`; its worker is the one writer
of rows that publishes outside `writeMu`. A CLI interacts through the file only, and the
watcher brings its commits into the cache. The sediment cycle, the sweep, the steward, the
session close and the recount read first and write one record at a time later: their
interaction with requests is through rows that changed in between. Review items are
memories themselves, made by the cycle, the sweep and the tracker, and resolved or deleted
by requests; the steward's inbox is a table of its own. Every write embeds its text first
and leaves an extraction behind; the indexer uses the same embedder. A session close
triggers the steward's scheduler. The server owns all of them, and stops them in a fixed
order while its configuration may be reloaded.

## 2. The plan

Done, in order of how much of the system rests on it:

1. `DerivedView`, `MemoryStore`: the write path and what it promises.
2. `AccessStats`: where the flushed batches come from, and shutdown.
3. `KnowledgeRecord`, `KnowledgeLifecycle`: one record, the lifecycle operations as
   functions of the table, and cycles, recounts and reviews over them.
4. `ArchiveSweep`: the sweep composed with the same operations, and its callers.
5. `StewardScan`, `StewardInbox`, `ReviewInbox`: the steward over the same operations, and
   what an inbox promises.
6. `VectorIndex`: the document index with several processes.
7. `SessionClose`, `SessionTracker`: the tracker composed with the closes it starts.
8. `Config`, `Server`: a configuration from its files, and one process from start to exit.
9. `Embedder`, `GraphWalk`, `TripleGraph`, composed in `Ingest`.

10. The proofs: every invariant and every action property of the runs, for every value
    of the constants, and the two refinements.

Next:

11. An abstract specification for the index (a map from files to searchable chunks) and
    one for the session close (a session goes to one record), beside `DerivedView` and
    `ReviewInbox`.
12. The keyword backfill of the vector store, once something other than the rows depends
    on its order.

## 3. Modules and the code they model

**MemoryStore.** One row keeps what the properties tell apart: `ver` (which commit wrote
the row), `meta` (which one wrote its metadata), `body` (content), `vec` (the body its
vector was computed from), `tacc` (`targeted_access_count`). A write is a sequence of
steps, one per commit to the file and one per lock: `BeginStore`/`BeginUpdate`/`BeginPlain`
(up to `writeMu`, the embedding included), `LockStore`/`LockGet`/`LockPlain`,
`InsertRow`/`UpdateRow`/`DeleteRow`, `verifyMemoryPersisted`, `Publish`, and `WriteFails`.
`BeginCount`, `CountRow` and `CountDone` are `IncrementReferencedByCount` and the writes of
`RecountReferences`: one commit of metadata per record, none of which reaches the cached
metadata. `WalkStart` and `WalkEmbed` are the re-embed walk, whose write is an ordinary one
of kind "reembed". `flushCommit` and `flushPublish` are the two halves of
`flushAccessStats`. `WatchTick`, `ReloadQuery`, `ReloadSwap` and the two failures are the
watcher. `StartLoad`, `StartWatch`, `Crash` are the life of the daemon. `Cli...` are the
same row operations of another process, which keeps a row between its read and its write
for as long as it likes. Two ghosts say what the cache is not vouched for: `stale` holds
the ids another process has written since the last load, `counted` those whose metadata a
count has written since the cache last got the row.

**DerivedView** is what readers of the store are promised: durable before visible, one
write of the daemon at a time, a view that equals the file except for ids in doubt, and
a reload as the only way out of doubt. `MemoryStore` implements it under the mapping
`View` (rows without their counters; everything is in doubt while a reload is between
its query and its swap).

**AccessStats** takes the flush of `MemoryStore` as one step and models what leads up to
it. A request goes from `RequestArrives` through `RecallFinds` and `RecallRecords`, the two
ends of a recall, or to `RequestEnds`; `Worker...` and `flushOne` are the worker.
`transport` says whether the server listens or reads stdin. It stops by `StopListening`
(http), `StdinCloses`, or `AbandonLoop`, after which `front` goes on reading requests;
then come `ShutdownDrained` and `CloseReturns`. `late` holds the requests the shutdown has
given up waiting for, `strays` those an abandoned front has read since. `asked`, `accepted`
and `lost` are ghosts that count the recalls, those the channel took, and what a failed
transaction lost. `AccessInit`, `AccessNext` and `AccessSpec` are its specification.

**KnowledgeRecord** has one operator per store operation, from the row under `writeMu` to
the commit: a single step, since `MemoryStore` shows that no other writer of the daemon
comes in between (`UpdatesCurrentRow`). `Validate` is `normalizeEngineeringMetadata`, with
the derivation of `lifecycle_status` that every save goes through.

**KnowledgeLifecycle** adds who calls them: requests, sediment cycles in three stages
(snapshot with decisions, set of open proposals, one write per record), recounts in two
(scan without the lock, write of whole metadata under it), decisions in two calls, review
items that are resolved and deleted. Ages and access counters are free: any record may be
past the thresholds of the policy.

**ArchiveSweep** has one action per stage of `sweepSlug` (two listings with their
decisions, one apply per memory, its failure, cancellation, end) and the same requests.
`runArchiveSweepOnce`, `SweepByTool` and `SweepByCommand` are its callers: each gives a
sweep the flags it can give, and only the scheduler's sweep dies with the server. There
is no lock in it: the mutex belongs to a `Sweeper`, and every caller makes its own.

**StewardScan** has the scanners as operators on a reading: groups of duplicates and which
of them merge unattended, conflicts, contradictions, age, expiry, candidates for
promotion, and `reconcileReason`. A text is a set of facts, so that containment,
similarity and merging are what they are for sets. **StewardInbox** adds the run in its
stages (`RunBegins`, `RunLocks`, `reconcileInboxPage`, `RunScans`, `RunApplies`/`RunSkips`,
`RunFiles`), the resolution of an item in its three (`ResolveReads`, `ResolveExecutes` or
`ResolveDeletes`, `ResolveCloses`), policy patches (`PatchSaves`, `PatchPublishes`;
`CopiedPolicies` is the unlocked read of `steward.go:167`), and requests on the records,
which it takes from `KnowledgeRecord`. **ReviewInbox** is the promise: an item has one
outcome, and a verb is one only after it has been carried out.

**VectorIndex**. `rows`, `tracked` and `meta` are the three tables; `proc` is a process
with its map; `change` is a commit of its own that has not reached its map yet
(`MapFollows`). One action per commit of `IndexDocuments`, in its order, and the failures:
`IndexFails` ends a run, `SweepFails` only the sweep of orphans after it; `LoadBegins`,
`LoadReads`, `loadVectors` are the three steps of a load. A file is the sequence of its
chunks' texts, a vector the text and the model it was made from. The ghost `leftover`
says that an index which tracks no file has kept chunks (`CleanOrphans` returns at once
when there is nothing to compare with, or a sweep failed) and that no rebuild has been
finished since; `unswept` that the last sweep failed, with orphans to remove.

**SessionClose** is the service: `planActions` with `bestExistingMatch` and
`classifyActionHandling`, `executeActions`/`applyUpdateAction`, `LookUp` and
`SaveRawSummary`, `Check` and `SaveCheckpoint`; a job is one close or checkpoint with its
program counter. `Folded` is what becomes of a text whose session has a record already: it
replaces the text that was read, or is dropped. The ghosts `from` and `dropped` of a record
name the closes whose text it holds, and those it has only tags and metadata of. Every
text names a project. What words make of a line (an engineering type, noise, doubt,
replacement) is given by the constants. **SessionTracker** is the tracker: one action per
part under its mutex, the pool and the wait group in `AcquireWorker`/`RegisterWorker`, the
timer and its callback, `Close...` up to the end of the store, and who else closes:
requests with the flags of the tools (`Args`, `DryRun`, `sessionToolWrites`), hooks and
`accept-session`. `TrackerInit`, `TrackerNext` and `TrackerSpec` are its specification, and
`Unprompted` the part of it that needs no caller.

**Config** computes a configuration: `loadDotEnvFiles`, `readEnvValues`, `resolvePaths`,
`validateResolvedConfig`, the project's data path with its git repository, and
`ragFingerprintOf`. One variable of the environment stands for each way a setting is
used. **Server** runs a process on it: `Boot`, the watcher from `WatcherStarts` to
`WatcherStops`, `Hangup...`, `ReloadSwaps`/`ReloadStops`/`ReloadBuilds`, the interval
jobs, the steward's scheduler, and the `Phases` of `Shutdown`. `[file, by]` names a
configuration by the version of the file and by who read it, since a reload does not see
what the start saw.

**Embedder** has a call as candidates collected one breaker at a time, then tried
(`attempt`), then perhaps once more on a prefix (`exhausted`). The order of providers is
fixed, so that a list of them is a set and its next member `First` of it. **TripleGraph**
has a replacement as ask, delete and add, of the daemon's goroutines (`Job...`) and of
`index-triples` (`Cli...`), writes and deletions of memories, contents that are written and
not extracted (`RewriteContent`: merges and other processes), and the walk in its three
reads; `TripleExtractorCredentials`, `NewOpenAIExtractor` and `wireTripleExtractor` say
whether there is anything to extract with. **GraphWalk** is the arithmetic of the walk:
`SeedLevel` and `Level` per frontier, `visited` the levels one after the other, `Lifted`
the sum per memory. Beside it is what the walk is meant to find, `WorthOf`: the best of all
walks of up to `hops` hops (`WalksOf`), each worth its seed `Faded` hop by hop. **Ingest**
composes them: a write is `Embed`, then `WriteContent`.

The `MC...` modules add symmetry, the data of the instances and, where an instance is
split in independent parts, initial states for each. Operators whose comment starts with
"Mutant" or "A plausible slip" are wrong versions of the definition that follows them,
kept next to it; each names the bug it stands for, and each property listed by a passing
run is violated by one of them.

## 4. Runs

| run | question | instance |
|---|---|---|
| `store_faults` | With every fault there is, does the store lose an update, show what was not committed, go back in time, or take a step `DerivedView` has not? | 2 ids, 1 body, one writer, one walk, one CLI, 3 operations, 1 flush, 1 crash; 1 030 000 states |
| `store_converges` | Does every commit become visible, every deletion too, and is a reload due until then? Does an edit keep its vector? | 2 ids, 2 bodies, one writer, one CLI, refused embeddings, 3 operations, 1 crash, fairness; 148 000 states |
| `access` | Is anything over-counted or lost between recall and row, also when the server gives up on a request or leaves its loop behind? Does `Close` return? | 2 ids, 2 requests, channel of 1, batch of 2, both transports, a failing listener, failing flushes, fairness; 80 000 states |
| `curation` | Can callers, a stale cycle and a stale recount get round the provenance gate, revive a retired record or propose it twice? | 2 ids, one cycle, one recount, all requests, 6 operations; 125 000 states |
| `supersession` | Are links, counter and trust right after any sequence of supersession, merge, promotion, deletion and decision? | 3 ids, one decision at a time, 7 operations; 540 000 states |
| `consolidation` | What does a sweep of any caller leave behind when requests go on, calls fail and it is cancelled and run again? | 2 ids, one sweep at a time, 6 operations; 1 420 000 states |
| `upkeep` | Does an unattended run spare what is canonical, and does a merge keep what it merges, when requests and a policy patch come between scan and apply? | 2 ids, 2 facts, one run, one reviewer, all requests, 4 operations; 800 000 states |
| `review` | Does an item keep one outcome when two reviewers and a second run act on it, and is no needed review taken away? | 2 ids, 1 item, 2 runs, 2 reviewers, 3 operations; 2 980 000 states |
| `index` | Is a ready index complete, seen whole by every process and of one model, and do changed files get indexed? | 1 file of up to 2 chunks, 2 models or none, an indexing and a searching process, 1 edit, 1 call, 1 fault (failed sweeps included), fairness; 1 100 000 states |
| `sessions` | Is what a session carries dealt with once, whoever closes it, up to a shutdown? | 2 kinds of lines from the agent and 2 from others, 2 inputs, one worker, one hook session, one failed write, fairness; 580 000 states |
| `server` | Do edits, signals and session closes take effect, and is nothing left running? | 6 versions of the file, 2 edits, 1 signal, 2 closes, 1 fault, both interval jobs, fairness; 460 000 states |
| `ingest` | Does a text get its vector, do triples follow their memory, is the walk's shortcut right? | 3 memories, 4 contents, 2 writers, a hosted and a local provider, 3 recall scores, 2 hops; five budgets; 1 030 000 states |

The bounds leave room for the cases that matter. Two ids are enough for a property about
one record to be disturbed by an operation on another; supersession takes three, for chains
and for a second successor. One writer, one walk, one CLI, the flush and the watcher make
five processes on one row, and two of them are writers under `writeMu`; three operations
are a store, a change and a foreign change of the same row, in any order and with a crash
between any two steps. Two requests fill a channel of 1 and overflow it, and the second may
come in before, during or after the close that the first outlives. Six operations store two
records, and take each through two more with a cycle or a recount begun in between. In
`upkeep` two operations store a group of duplicates and two more rewrite, retire, promote
or delete its members between scan and apply; `review` resolves one item twice at once
while a second run reconciles it. One file in two versions, of which one has two chunks and
shares a text with the other, is enough for a run to have batches before and after any
fault and for vectors to be kept. Two inputs of the tracker, with the timer, the worker, a
failed write, the watcher's reload and a shutdown besides, are two closes of one text, a
close with a checkpoint, or a close with a deletion of what it updates. Two edits of the
config file and a signal overtake one another in every order. In `ingest` a behaviour
spends one of five budgets: on the breakers (four calls, three failures, a cancellation, a
cooldown), on extractions that overlap (two writes, the command, a failure), on one with a
content nobody extracts, on deletions and a crash, or on walks over a full graph; the parts
share no state beyond a call's result, so that their product adds nothing.

Three choices keep known disagreements (section 7) out of properties that would only
repeat them: `SearchWhileIndexing` and `FailOver` are off in `index`, `SameTick` in
`server`. `MaxFaults` crashes and failed writes are counted together.

Runs with liveness use no symmetry. Deadlock is checked in `server`, where a process that
is down is the only end; elsewhere a behaviour whose bounds are used up has nothing left to
do. Sequences of more operations, more processes of a kind and larger tables are covered by
the proofs where a property has one.

## 5. Fairness

`store_converges` assumes weak fairness of each step of a goroutine that has begun a write,
of the watcher's tick and swap, of a flush's second half and of startup: the Go scheduler
runs every runnable goroutine, the ticker ticks. It assumes strong fairness only of
`ReloadQuery`, the watcher's acquisition of `writeMu`: a Go mutex passes itself to a waiter
that has waited for a millisecond. Nothing is assumed of requests, CLIs or crashes. The
commit, load and swap may not fail in this run: the code does not retry a failed reload
(section 7).

`access` assumes weak fairness of the worker, of requests in flight and of `Close`, and
strong fairness of the two cases of the worker's `select`, which chooses at random among
ready cases. It does not assume that anybody shuts the server down.

`index` assumes weak fairness of the steps of a run and of a load that have begun, of the
watcher's tick and of its timer. It does not assume that a model answers or a process that
has died is started again; its liveness property speaks of behaviours without faults.

`sessions` assumes weak fairness of what goes on by itself: a timer fires, a callback gets
the mutex, a close that began goes on, `Close` proceeds. Calls, notifications and the start
of a shutdown are not assumed. There are finitely many inputs, so one condition on the
disjunction is enough.

`server` assumes weak fairness of start, watcher, reloads and the end of index runs as one
group, and of the steward's scheduler as another: every edit and signal gives the first
group finitely much to do, and the loop of the second ticks for ever. Edits, signals and
termination are not assumed, and neither is that a job ends or that `Shutdown` completes.

## 6. What is proved

All theorems hold for every value of the constants that satisfies the named assumptions
of the modules: any number of ids, bodies, processes, requests, providers and jobs, any
budget, and any subset of the faults. The assumptions say that ids, processes and `None`
are distinct, that a set is finite where it is counted, and that bounds are natural
numbers. A theorem that needs more says so in its ASSUME, given below: each of these is a
disagreement of section 7, shown to be the only reason why the property can fail.

**MemoryStoreProofs.**
`TypeCorrect`, `CacheFollowsFileHolds`, `UpdatesCurrentRowHolds`,
`TargetedNeverRollsBackHolds` and `StoreImplementsView` (initial state and every step; the
abstract specification is safety only). `CacheFollowsFile` is not inductive: it says
nothing while a write is in flight. The invariant `IInv` adds who owns `writeMu` at each
program counter (`LockOK`), what the local variables hold there (`OpOK`), that a fresh id
names no row (`FreshIds`), what a stopped daemon leaves (`DownOK`), and `Coherent`: for
every id not in doubt, the cache, the rows a reload has read, the row a writer has read
and the row it has committed all agree with the file. The proof has one step per action;
the argument is that whoever changes a row or the cache owns `writeMu`, or is foreign and
puts the id in doubt, or changes only counters, which `Agree` leaves out. The cache owes a
counted record everything but its metadata (`Shows`); what a reload or a writer has read
under `writeMu` has the metadata too, so that a save after a count loses nothing.
`CacheNeverRollsBackHolds` needs an order instead of an agreement, foreign writes being
allowed: `Ordered` says that no version is newer than the clock, and that what the cache
holds is at most what a reload has read, and that at most what the file holds; a writer's
version lies between the cache and the file.
`ForeignWriteIsPendingHolds` assumes the absence of three faults (the watcher does not
start, a reload fails, a commit falls between load and baseline): invariant `Noticed`,
for foreign writes and counts alike.
`VectorOfItsBodyHolds` assumes that there is no re-embed walk: `Paired` adds that what a
writer is about to write is a text with its own vector.

**KnowledgeRecordProofs** (lemmas). What each operation does to a row: it stays typed, its
flag and `lifecycle_status` agree, it becomes canonical only with trust, and leaves the
archive only by promotion. `Validate` is shown once to preserve these.

**KnowledgeLifecycleProofs.** `TypeCorrect`; `Invariance` (flag and status agree in every
row and in every metadata a recount is about to write back); `PromotionIsVerifiedHolds` and
`RetirementIsKeptHolds`, which follow from a classification of steps (an operation of
`KnowledgeRecord`, an insert, a removal of keys, a recount's write);
`CanonicalIsTrustedHolds`, provided callers cannot remove metadata keys (they can:
`update_memory` with an empty value), where the invariant is strengthened by the same
statement about the metadata a recount holds;
`OneReviewPerTargetHolds`, for at most one cycle at a time, with the invariant that a
running cycle's set contains every open proposal; `ReplacedIsSupersededHolds`, where
`PairInv` adds that links name ids that have been used, so that a new record is linked by
nobody; `RefsCoverLinksHolds`, for a store no recount is run on, by cardinalities of the
sets of superseded records before and after each operation.

**ArchiveSweepProofs.** `CohortIsConsolidatedHolds`, for sweeps that overlap as well:
`OnTheWay` says of a sweep that is still running what it has already settled, and that a
member it has not settled is in one of its lists. `OneReviewPerTargetHolds` assumes that
sweeps do not overlap: `Queued` says that a running sweep knows every review there is.
`SweepsPromoteVerifiedHolds` needs neither: what a sweep makes canonical had a trusted
provenance in the row it wrote, even if a request took the provenance away after the
listing. No run lists this property; on the instance of `consolidation` it was checked before
it was proved.

**StewardInboxProofs.** `ReconcileIsRightHolds`, `AutoSparesCanonicalHolds`,
`MergeKeepsFactsHolds`, and `ImplementsInboxHolds`: the inbox with its runs, reviewers
and requests implements `ReviewInbox`. The invariant holds that one run is under the
mutex (`OneRun`), that actions and items are about records that were stored
(`AboutStored`), that what reconciliation has listed stays moot until it closes it
(`ListedIsMoot`; nothing a request does makes a finding topical again), and that a
resolution between execution and close has its verb among those carried out (`Resolving`).

**ServerProofs** takes the components that run in the server's own goroutines one after the
other.
*Server*: `NothingLeftRunningHolds`. Besides types, the invariant says which reload may be
at which stage in which phase of the shutdown (`WatcherGone`, `ReloadAsked`), that at most
one engine runs and none while the next is built (`OneEngine`), and what is over when the
store is closed (`EnginesOver`, `JobsOver`).
*SessionTracker*: `CheckpointsDrainedHolds`, `OneSummaryPerSessionHolds` and
`CandidatesSettledHolds`, from `TrackerInvHolds`. None of the three is inductive: that a
session has one summary depends on what a close knew when it looked for one, several steps
before it saves. `RecordSound` says of each record which closes went into it, and that of
two summaries of one session the later one's close could not know the first. `CloseSound`
says of each close that its plan is about knowledge items it knows, and that at `save` the
record it has found, if any, is a summary of its session, and if none, that it knows none.
`AccountSound` says of a close of a tracked session that each applied candidate has gone
into its target, and each queued one has its review item. `Drained` is the wait for the
workers. `TextSound` carries the text: a summary contains each text it is said
to hold, and holds one at least, so that a text is dropped only for another. The proof
rests on two facts about every step: the bank only `Grows` (a record keeps its kind and
session, and the list of closes that went into it, the dropped texts included, only gets
longer: `Closes`), and a close keeps its session and its text, which is forgotten once it is
over (`Follow`); what an earlier step established of the bank is true of any later one.
*AccessStats*: its three safety properties. `Balance` counts: what a row has, what the
batches, the channel and the unfinished recalls hold for it, is together at most what was
asked. `Kept` says the same of what the channel accepted, without loss. `Sealed` ties the
closing of the channel to the stages of the shutdown: a request that is still busy after it
is one the shutdown gave up on, or was read by an abandoned front.

**VectorIndexProofs.** `ReadyIsCompleteHolds`, `CurrentIsWholeHolds`, `OneModelHolds`. What
the index promises between runs needs what a run has done at each of its commits, and a run
may end after any of them, by a fault or by a crash. `Planned` says of a run that what it
neither adds nor removes is tracked as it was read, with its chunks there, and that the
chunks it has written are those of the file it read; `Complete` adds that an index in which
something is missing is dirty from before the first removal to the last commit, and that
between runs a ready one has no orphans, unless the last sweep failed. `Behind` and
`UpToDate` compare generations: no process is ahead of the index, and a map of the index's
generation has the rows, but for the one commit that the process itself has made and not
taken over yet. `Uniform` says that the vectors of a ready index are of the model in its
metadata, and `ModelsKept` what a run may have kept, reused or written so far. All three
assume `OneIndexer`: `indexMu` is a lock within a process, and two processes that index one
file overwrite each other's plans. The second also assumes `~SearchWhileIndexing`, the
third `~FailOver` as well; both are of section 7. The number of files, chunks, models and
processes that search is free.

**IngestProofs.** `GraphFollowsContentHolds`: of a memory no write of which overlapped a
replacement of its triples, there is one replacement in flight at most, of its present
content (`Alone`), and the graph holds none, or exactly one extraction (`Faithful`), for
the daemon's goroutines and the command alike, contents that are never extracted included.
`TextIsEmbeddedHolds`: up to one dead call, the breaker of every provider that works is
closed; `Owes` bounds what that call has done to it and may still do (one failure, or two
for a long write that is tried again on its opening, and three would open the breaker), and
`Served` says that a living call has every such provider before it. The proof counts to
`providerFailureThreshold`, which is where the bound of two cancelled calls in the property
comes from.
`WalkIsBestHolds`, for up to the four hops the code allows, any recall scores and any
graph, finite or not: after h levels (`Walked`) every score is that of a walk of up to h
hops (`Earned`), no such walk is worth more (`Unbeaten`), and an entity that is not walked
on from has nothing better left for its neighbours (`Settled`). The last is why it is right
to leave the other entities out of the frontier. `VisitedIsBest` states the result for the
operators; it needs that `visited` and `Faded`, which are recursive functions, have the
values their equations give. No induction rule can be applied here, so each induction is
carried out as a descent: a set of counterexamples would have a least element (`Least`,
from the well-foundedness of the naturals), and that one is refuted. Maxima of sets that
need not be finite exist by the same lemma, scores being bounded (`Greatest`).

**Checked by TLC only.** Liveness, because the prover has neither `ENABLED` nor fairness:
`FileBecomesVisible`, `BatchIsFlushed`, `CloseTerminates`, `FilesGetIndexed`, `SessionEnds`,
`EditsAreApplied`, `WritesAreScanned`. No module declares a recursive operator.

## 7. Where the code and what it says part

Each of these is a behaviour of the models, reached by legal steps, that a run excludes by
its instance or a property by an exception. No run is kept for the sole purpose of showing
one.

Store:

- `NewStore` loads the cache, the watcher takes its baseline later (`foreignwrites.go:71`).
  A CLI commit in between is in the baseline and not in the cache, and is never loaded.
  Fault "startup_commit": add it to `store_converges`, and `ForeignWriteIsPending` fails.
- A reload that fails is not tried again until the next foreign write (`foreignwrites.go:100`):
  likewise with "reload_fails".
- The re-embed walk stores the vector of a text it read outside the lock without comparing;
  an update in between gets the vector of its old text, marked current (`write.go:889`). With
  a walk in `store_converges`, `VectorOfItsBody` fails.
- A reload between the halves of `flushAccessStats` makes the cache count a batch twice
  until the next reload (`read.go:647`). Only the cache: the stored counter is right.
- A reference count commits metadata and refreshes only the cached `updated_at`, because
  "Metadata is not cached" (`refcount.go:254`); it is (`memory.go:146`). Whoever reads the
  cache sees the old counter until the next reload, which the count's own commit makes due
  at the watcher's next tick, or until another write publishes the row. This is the
  exception in `CacheFollowsFile`. `RecountReferences` also stamps the cache with a second
  reading of the clock (`refcount.go:257`), which `helpers.go:40` warns against.
- A recall that outlives the shutdown wait sends on a closed channel and panics; the
  panic barrier turns its answer into an error (`read.go:416`). On a signal `RunStdio`
  abandons its loop (`server.go:131`), which reads and handles requests during
  `Shutdown` and after it: a recall among them meets the closed channel too, or, once the
  file is closed, fails before that unless it found nothing. The same goes for open
  connections when a failed listener ends `RunHTTP` (`server.go:247`). `NoSendOnClosed`
  states that it happens only to such requests: given up on, or read after the
  shutdown began.

Lifecycle and sweep:

- A merge sets `superseded_by` in metadata, recall looks at the column (`write.go:616`): a
  merged duplicate is still recalled.
- Resolving an item sets `review_required` to "false", which `Validate` deletes; the cycle
  takes an item without the key for an open one, and never proposes the record again.
- A record stored as "confirmed" stays "active" after `mark_outdated`
  (`engineering.go:508`). For the same reason a working memory stored as "draft" is retired
  by every sweep, and a canonical one promoted by every sweep.
- `mark_outdated(a, b)` and then `mark_outdated(b, a)` hide both records (`write.go:299`);
  promoting a superseded record leaves it hidden, since the column stays (`write.go:434`).
- A cycle that has taken its snapshot moves a record promoted meanwhile out of the
  character layer (`write.go:697`).
- A recount puts back metadata from before a `mark_outdated`, and loses it
  (`refcount.go:226`): the exception in `RetirementIsKept` and `PromotionIsVerified`. With
  an overlapping retirement, `referenced_by_count` falls behind too, which is why
  `supersession` has no recount.
- Two cycles, the scheduler's and the tool's, may propose one record twice
  (`sediment_cycle.go:238`); two sweeps may queue one candidate twice
  (`archive_sweep.go:179`).
- A sweep retires a memory that was promoted after it was listed, and promotes one that
  was retired (`archive_sweep.go:424`, `:433`).

Embedder and triples:

- A cancelled context counts as a failure of every provider in the chain
  (`embedder.go:371`), a cancelled long write twice: two or three cancelled calls open
  sound breakers (the exception `cancels >= 2` in `TextIsEmbedded`). A slow old success closes
  a breaker opened meanwhile (`embedder.go:475`). "Allowing one retry" (`embedder.go:436`):
  after the cooldown the counter is zero, so three failures are allowed.
- A merge that changes the text of its primary extracts nothing (`write.go:578`), and
  neither do other processes, which have no extractor: the memory keeps the triples of its
  old text until it is written again or forced through `index-triples` (`RewriteContent`).
- Extractions of two versions finish in any order, and one of a memory deleted meanwhile
  adds triples without a memory (`extractor.go:90`): the ghost `torn`. A content the model
  finds nothing in, or whose extraction fails, keeps the triples of the old one
  (`extractor.go:83`), and `index-triples --resume` passes it over for ever: the ghost `behind`.
- A walk loads the best memories after it ranked them; one deleted in between is left out
  and not made up for (`multihop.go:306`).

Steward:

- Every run files its findings again, whether or not the inbox has them already
  (`steward.go:258`). Two reviewers of one item both carry out their verbs
  (`steward.go:499`); one of several deletions may fail with the others done
  (`steward.go:580`). `ReviewInbox` promises nothing of either.
- The scan reads the policy without its lock (`steward.go:167`): a mix of the old and the
  new one. A run acts on a record that was retired, promoted by another request, or given
  new content since the scan, apart from what `AutoSparesCanonical` and `MergeKeepsFacts` say.

Index:

- An index that tracks no file keeps the chunks of a run that failed (`orphan.go:26`). When
  the model has changed and the file comes back, an ordinary run takes their vectors over
  (`indexer.go:141`), although its comment rules that out: "Skipped on a full rebuild: the
  model or chunker may have changed, so old vectors are not reusable" (`indexer.go:139`). The
  index is then ready, with vectors of a model it does not name. It takes a first run
  that fails, a deletion, a new model and the file again, more edits than the instance of
  `index` has: the attempt to prove `OneModel` showed it. `leftover` is the
  exception in `OneModel`. A
  forced rebuild that is interrupted leaves files tracked whose chunks are gone, and
  `needsIndexing` does not look at the dirty stamp (`indexer.go:506`).
- A sweep of orphans that fails after a run is a warning (`indexer.go:310`), and so is one
  at the start (`vectorstore.go:194`). The index is ready by then: an orphan that a failed
  deletion left stays in it, and is searched, until a later sweep succeeds. `unswept` is the
  exception in `ReadyIsComplete`; the vector of such an orphan may be kept by a later run like
  those above, and `leftover` covers both in `OneModel`.
- A watch interval that is no longer than the debounce stops and re-arms the timer on every
  tick (`indexer.go:460`), so that nothing is indexed while a change is pending. The
  defaults are far apart, but the configuration is not checked for it. In the model the
  timer fires, once armed.
- A load that overlaps a run of its own process may swap in rows of before a commit after
  the map took it, and the publication is then adopted as seen (`vectorstore.go:297`, `:371`):
  `SearchWhileIndexing`. A start of another process takes the chunks of a running indexer
  for orphans (`orphan.go:34`). A provider that takes over in the middle of a run, or only
  answers for what is not kept, mixes models (`indexer.go:190`): `FailOver`.

Sessions:

- A close whose session has a record already folds into it: tags and metadata are merged,
  but the text is dropped unless it extends the one that is there (`sessionclose.go:281`).
  The comment at `sessionclose.go:313` describes the loss for two sessions of one project
  and takes it to be cured by the session id. Sessions the daemon tracks carry no id, so
  the second of them within six hours still folds into the first, and its text is lost.
  `CandidatesSettled` states what is kept: the text itself, or a record of the session that
  holds another.
- The text is compared with one that was listed before the update (`sessionclose.go:273`,
  `:281`), so that of two closes that fold at once the later may overwrite the text of the
  earlier. Tags are merged with those read before and replace what is there now.
- Two closes of one agent session that overlap make two records (`sessionclose.go:272`),
  the exception in `OneSummaryPerSession`. A close that updates lays metadata read earlier
  over the record (`apply.go:110`). Merges are never applied unattended: they are planned
  below a score that the classification asks for (`plan.go:109`, `classify.go:75`).
- A forced checkpoint is not waited for by `Close` (`session_tracker.go:336`) and is stored
  without a vector. An idle flush is not waited for either. An idle callback that fired
  takes the session that began since (`session_tracker.go:275`). `close_session` with
  `dry_run` false and no other flag writes nothing and resets the tracked session.
- A raw text that cannot be saved ends the close with all that was planned for review
  (`apply.go:30`); a queue item that cannot be stored ends the loop (`session_tracker.go:562`).

Server and configuration:

- A reload sees neither the command line nor the later files of the chain
  (`watcher.go:96`). The watcher knows nothing of what SIGHUP or the start applied
  (`watcher.go:79`), does not retry a read that failed (`watcher.go:71`), and misses an edit
  that leaves the modification time (`SameTick`) or that falls between the load at the start
  and its own first look (`watcher.go:48`). A file that is missing while it is replaced is
  read as an empty one (`dotenv.go:130`). Edits of archive roots or of the ranking alone are
  not applied, although `watcher.go:108` says so.
- `MCP_STEWARD_MODE` in the config file is not looked up (`bootstrap.go:222`).
- A SIGHUP during `Shutdown` may bring up an engine that nobody stops (`server.go:540`):
  the exception in `NothingLeftRunning`. `Stop` of the steward's scheduler does not wait for
  its run, and `Close` of an interval scheduler gives up after two seconds.

## 8. What is not modelled

- Title, tags, context, importance as a number, and the contents of texts: no property
  depends on them. "touch" stands for edits of these.
- `PromoteSediment` and `DemoteSediment` save one column and patch it in the cache:
  in `MemoryStore` they are a "touch" of the row.
- `Close` also waits for extraction goroutines and for the re-embedding of the start
  (`read.go:1024`); `CloseTerminates` is about the worker of the access counts.
- `access_count` in `MemoryStore` (the sweep's batches change only it), ages and scores.
- SQLite itself: a statement or transaction outside any other is one step, and a commit is
  durable. Busy timeouts appear as failed writes.
- Providers of embeddings and of triples: an answer is a vector, a refusal or an error; a
  provider's own retries are part of its answer. Relations of triples, weights other than
  one, hops and paths of a walk.
- In `Embedder` a text is "short", and taken by every provider in order, or "long": longer
  than the prefix a refused text is retried with, and perhaps refused. A text within that
  length that a provider refuses all the same (`embedwrite.go:45`) is not retried by the code
  and is outside what the model calls a sound provider.
- The embedding of a merged text (under `writeMu`, `write.go:592`) and of other processes in
  `Ingest`; a deletion by another process beside an extraction.
- The words of texts: what the scanners of the steward and the session close find in them
  is given by constants or by sets of facts. Thresholds of similarity are containment and
  overlap.
- The steward's reports, drift scan and audit log, which decide nothing; its dry runs, and
  those of the sweep and the session close, which write nothing.
- In the index: the FTS table (filled by triggers and a backfill that is waited for), the
  check of the index root and of the vectors' dimension, the reranker, strict retrieval.
- The HTTP listener and single requests; schemas, dispatch and formatting of tools; the
  project-bank views; scoring in floating point; the evaluation harness; helper packages.
  `PROJECT.json` lists each with its reason.
- A session timeout of 0, with which the tracker has no timer; a close without a project,
  which never folds (`sessionclose.go:321`).
- `applyMergeAction` of the session close and `SetTemporalFields`, which nothing reaches.
