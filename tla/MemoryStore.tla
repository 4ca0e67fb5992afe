---------------------------- MODULE MemoryStore ----------------------------
(***************************************************************************)
(* The write path of memory.Store: a SQLite file (db) shared by one daemon *)
(* and short-lived CLI processes, and the daemon's in-memory view of it    *)
(* (cache).  A write embeds its text outside writeMu, then takes writeMu,  *)
(* reads the row, writes it, and publishes it to the cache; the            *)
(* foreign-write watcher reloads the whole cache under writeMu when the    *)
(* file's data_version moved; the access-stats worker commits a batch of   *)
(* counters and then bumps the cached ones WITHOUT writeMu; the re-embed   *)
(* walker is one more writer.  Each commit to the file is one step, so     *)
(* every interleaving of the processes around those commits is explored.   *)
(*                                                                         *)
(* A row keeps the fields the properties tell apart: ver (the number of    *)
(* the commit that last wrote the whole row; it stands for title, tags,    *)
(* context, importance and the like, which a "touch" changes), meta (the   *)
(* number of the commit that last wrote the metadata), body (content), vec *)
(* (the body the stored embedding was computed from; None when the row has *)
(* no vector of the current model), tacc (targeted_access_count).          *)
(* Two writers save part of a row.  A "count" (IncrementReferencedByCount, *)
(* RecountReferences) commits metadata and updated_at and refreshes only   *)
(* the cached updated_at, which is not kept here: meta moves in the file   *)
(* and not in the cache.  PromoteSediment and DemoteSediment save one      *)
(* column and patch it in the cache entry: a touch, but for rows another   *)
(* process wrote or a count left behind.                                   *)
(***************************************************************************)
EXTENDS Integers, FiniteSets

CONSTANTS
    Ids,        \* memory ids the generator can hand out
    Bodies,     \* contents
    Writers,    \* request goroutines of the daemon
    Walkers,    \* re-embed walks (startup pass, reembed tool)
    Clis,       \* CLI and hook processes
    Watcher,    \* the foreign-write watcher as an owner of writeMu
    None,       \* no row, no vector, no owner, nothing staged
    Kinds,      \* what Writers may do: subset of WriterKinds
    Faults,     \* environment faults admitted: subset of FaultKinds
    MaxOps,     \* bound on operations begun (Writers, Walkers and Clis)
    MaxFlushes, \* bound on access-stats batches committed
    MaxCrashes  \* bound on daemon crashes

WriterKinds == {"store", "update", "touch", "delete", "count"}

FaultKinds == {"embed_fails", "write_fails", "reload_fails", "watch_fails",
               "startup_commit"}

Procs == Writers \cup Walkers

Row == [ver : Nat, meta : Nat, body : Bodies, vec : Bodies \cup {None},
        tacc : Nat]

Table == [Ids -> Row \cup {None}]

Op == [kind : WriterKinds \cup {"reembed"}, id : Ids \cup {None},
       body : Bodies \cup {None}, vec : Bodies \cup {None},
       row : Row \cup {None}]

ASSUME ProcAssumption ==
    /\ Writers \cap Walkers = {}
    /\ Watcher \notin Procs
    /\ None \notin Procs \cup {Watcher}

ASSUME DataAssumption == None \notin Ids \cup Bodies \cup Row \cup Op

ASSUME BoundAssumption ==
    /\ Kinds \subseteq WriterKinds /\ Faults \subseteq FaultKinds
    /\ MaxOps \in Nat /\ MaxFlushes \in Nat /\ MaxCrashes \in Nat

VARIABLES
    db,       \* the memories table of the SQLite file
    used,     \* ids ever drawn: uuid.New never repeats one
    clock,    \* commits of rows so far, the source of ver and meta
    cache,    \* ms.memories
    writeMu,  \* owner of ms.writeMu, or None
    pc,       \* program counter of each process that writes rows
    op,       \* what it is writing: its local variables
    todo,     \* ids a re-embed walk or a recount has still to visit
    flush,    \* batch whose counters are committed but not yet in the cache
    daemon,   \* "down", "loaded" (NewStore returned), "up" (serving)
    watch,    \* the watcher: "off", "idle", "lock", "swap"
    snap,     \* rows its SELECT returned
    changed,  \* PRAGMA data_version # last
    cli,      \* row each CLI process has read and not yet written back
    stale,    \* ghost: ids whose row a foreign process wrote since the last load
    counted,  \* ghost: ids a count wrote since the cache last got their row
    begun, flushes, crashes   \* counters for the bounds

vars == <<db, used, clock, cache, writeMu, pc, op, todo, flush, daemon, watch,
          snap, changed, cli, stale, counted, begun, flushes, crashes>>

fileVars == <<db, used, clock>>
procVars == <<writeMu, pc, op, todo>>
watchVars == <<daemon, watch, snap>>
ghostVars == <<stale, counted>>
boundVars == <<begun, flushes, crashes>>

NoRows == [i \in Ids |-> None]

Live(t) == {i \in Ids : t[i] # None}

Init ==
    /\ db = NoRows /\ used = {} /\ clock = 0
    /\ cache = NoRows
    /\ writeMu = None
    /\ pc = [p \in Procs |-> "idle"]
    /\ op = [p \in Procs |-> None]
    /\ todo = [p \in Procs |-> {}]
    /\ flush = None
    /\ daemon = "down" /\ watch = "off" /\ snap = NoRows /\ changed = FALSE
    /\ cli = [c \in Clis |-> None]
    /\ stale = {} /\ counted = {}
    /\ begun = 0 /\ flushes = 0 /\ crashes = 0

-----------------------------------------------------------------------------
(* Rows.                                                                   *)

\* embedForWrite: the vector of the whole text, or none when the provider
\* refuses it.  The truncated retry is a vector of the same text.
embedForWrite(b) == {b} \cup (IF "embed_fails" \in Faults THEN {None} ELSE {})

\* Mutant: an edit whose embedding failed keeps the vector of the old text.
Staged_keepsVector(o) ==
    [ver  |-> clock + 1,
     meta |-> clock + 1,
     body |-> IF o.kind \in {"store", "update"} THEN o.body ELSE o.row.body,
     vec  |-> IF o.kind = "touch" \/ (o.kind = "update" /\ o.vec = None)
              THEN o.row.vec ELSE o.vec,
     tacc |-> IF o.kind = "store" THEN 0 ELSE o.row.tacc]

\* The row an operation builds from the row it read (toCachedMemory keeps
\* every modelled field, so this is also the cache entry).
Staged(o) ==
    [ver  |-> clock + 1,
     meta |-> clock + 1,
     body |-> IF o.kind \in {"store", "update"} THEN o.body ELSE o.row.body,
     vec  |-> IF o.kind = "touch" THEN o.row.vec ELSE o.vec,
     tacc |-> IF o.kind = "store" THEN 0 ELSE o.row.tacc]

\* Mutant: the SET list names targeted_access_count too.
updateMemoryRow_all(t, i, r) == IF t[i] = None THEN t ELSE [t EXCEPT ![i] = r]

\* UPDATE ... WHERE id = ?: nothing when the row is gone, and the SET list
\* leaves targeted_access_count to flushAccessStats.
updateMemoryRow(t, i, r) ==
    IF t[i] = None THEN t ELSE [t EXCEPT ![i] = [r EXCEPT !.tacc = t[i].tacc]]

insertMemoryRow(t, i, r) == [t EXCEPT ![i] = r]

\* targeted_access_count + 1 for the ids of a batch that still have an entry.
bumpTargeted(t, S, targeted) ==
    [i \in Ids |-> IF targeted /\ i \in S /\ t[i] # None
                   THEN [t[i] EXCEPT !.tacc = @ + 1] ELSE t[i]]

-----------------------------------------------------------------------------
(* Writers.  idle -> lock -> write -> (verify) -> publish -> idle          *)

Begin(p, o) ==
    /\ pc[p] = "idle" /\ begun < MaxOps
    /\ pc' = [pc EXCEPT ![p] = "lock"]
    /\ op' = [op EXCEPT ![p] = o]
    /\ begun' = begun + 1

\* Store, up to writeMu: the embedding is computed before the lock.
BeginStore(w, b) ==
    /\ daemon = "up" /\ "store" \in Kinds
    /\ \E v \in embedForWrite(b) :
         Begin(w, [kind |-> "store", id |-> None, body |-> b, vec |-> v,
                   row |-> None])
    /\ UNCHANGED <<fileVars, cache, writeMu, todo, flush, watchVars, changed,
                   cli, ghostVars, flushes, crashes>>

\* Update with new content, up to writeMu: embedded = {content, embedding}.
BeginUpdate(w, i, b) ==
    /\ daemon = "up" /\ "update" \in Kinds /\ i \in used
    /\ \E v \in embedForWrite(b) :
         Begin(w, [kind |-> "update", id |-> i, body |-> b, vec |-> v,
                   row |-> None])
    /\ UNCHANGED <<fileVars, cache, writeMu, todo, flush, watchVars, changed,
                   cli, ghostVars, flushes, crashes>>

\* Update without content, and Delete: nothing is embedded.
BeginPlain(w, i, k) ==
    /\ daemon = "up" /\ k \in Kinds \cap {"touch", "delete"} /\ i \in used
    /\ Begin(w, [kind |-> k, id |-> i, body |-> None, vec |-> None,
                 row |-> None])
    /\ UNCHANGED <<fileVars, cache, writeMu, todo, flush, watchVars, changed,
                   cli, ghostVars, flushes, crashes>>

\* IncrementReferencedByCount of one id, or RecountReferences with the ids
\* whose counter its scan, outside writeMu, found wrong.
BeginCount(w, S) ==
    /\ daemon = "up" /\ "count" \in Kinds /\ S \subseteq used /\ S # {}
    /\ Begin(w, [kind |-> "count", id |-> None, body |-> None, vec |-> None,
                 row |-> None])
    /\ todo' = [todo EXCEPT ![w] = S]
    /\ UNCHANGED <<fileVars, cache, writeMu, flush, watchVars, changed, cli,
                   ghostVars, flushes, crashes>>

\* Store takes writeMu and draws a fresh id.
LockStore(p) ==
    /\ pc[p] = "lock" /\ op[p].kind = "store" /\ writeMu = None
    /\ \E i \in Ids \ used :
         /\ op' = [op EXCEPT ![p].id = i]
         /\ used' = used \cup {i}
    /\ writeMu' = p
    /\ pc' = [pc EXCEPT ![p] = "write"]
    /\ UNCHANGED <<db, clock, cache, todo, flush, watchVars, changed, cli,
                   ghostVars, boundVars>>

\* Mutant: the Get comes before the Lock.
LockGet_unlocked(p) ==
    /\ pc[p] = "lock" /\ op[p].kind \in {"update", "touch", "reembed"}
    /\ db[op[p].id] # None
    /\ pc' = [pc EXCEPT ![p] = "write"]
    /\ op' = [op EXCEPT ![p].row = db[op[p].id]]
    /\ writeMu' = p
    /\ UNCHANGED <<fileVars, cache, todo, flush, watchVars, changed, cli,
                   ghostVars, boundVars>>

\* updateLocked and updateStoredEmbedding take writeMu and Get the row under
\* it; ErrNotFound gives the lock back.
LockGet(p) ==
    /\ pc[p] = "lock" /\ op[p].kind \in {"update", "touch", "reembed"}
    /\ writeMu = None
    /\ IF db[op[p].id] = None
       THEN /\ pc' = [pc EXCEPT ![p] = "idle"]
            /\ op' = [op EXCEPT ![p] = None]
            /\ UNCHANGED writeMu
       ELSE /\ pc' = [pc EXCEPT ![p] = "write"]
            /\ op' = [op EXCEPT ![p].row = db[op[p].id]]
            /\ writeMu' = p
    /\ UNCHANGED <<fileVars, cache, todo, flush, watchVars, changed, cli,
                   ghostVars, boundVars>>

\* Mutant: Delete without the writer lock.
LockPlain_unlocked(p) ==
    /\ pc[p] = "lock" /\ op[p].kind = "delete"
    /\ pc' = [pc EXCEPT ![p] = "write"]
    /\ UNCHANGED <<fileVars, cache, writeMu, op, todo, flush, watchVars,
                   changed, cli, ghostVars, boundVars>>

\* Delete and the two counts take writeMu and read nothing they keep.
LockPlain(p) ==
    /\ pc[p] = "lock" /\ op[p].kind \in {"delete", "count"} /\ writeMu = None
    /\ writeMu' = p
    /\ pc' = [pc EXCEPT ![p] = "write"]
    /\ UNCHANGED <<fileVars, cache, op, todo, flush, watchVars, changed, cli,
                   ghostVars, boundVars>>

\* The row commit.  The daemon's own commits move data_version too.
InsertRow(p) ==
    /\ pc[p] = "write" /\ op[p].kind = "store"
    /\ db' = insertMemoryRow(db, op[p].id, Staged(op[p]))
    /\ op' = [op EXCEPT ![p].row = Staged(op[p])]
    /\ clock' = clock + 1
    /\ changed' = TRUE
    /\ pc' = [pc EXCEPT ![p] = "verify"]
    /\ UNCHANGED <<used, cache, writeMu, todo, flush, watchVars, cli, ghostVars,
                   boundVars>>

\* Mutant: the lock is given back before the cache is set.
UpdateRow_unlocks(p) ==
    /\ pc[p] = "write" /\ op[p].kind \in {"update", "touch", "reembed"}
    /\ db' = updateMemoryRow(db, op[p].id, Staged(op[p]))
    /\ op' = [op EXCEPT ![p].row = Staged(op[p])]
    /\ clock' = clock + 1
    /\ changed' = (changed \/ db[op[p].id] # None)
    /\ pc' = [pc EXCEPT ![p] = "publish"]
    /\ writeMu' = None
    /\ UNCHANGED <<used, cache, todo, flush, watchVars, cli, ghostVars, boundVars>>

UpdateRow(p) ==
    /\ pc[p] = "write" /\ op[p].kind \in {"update", "touch", "reembed"}
    /\ db' = updateMemoryRow(db, op[p].id, Staged(op[p]))
    /\ op' = [op EXCEPT ![p].row = Staged(op[p])]
    /\ clock' = clock + 1
    /\ changed' = (changed \/ db[op[p].id] # None)
    /\ pc' = [pc EXCEPT ![p] = "publish"]
    /\ UNCHANGED <<used, cache, writeMu, todo, flush, watchVars, cli, ghostVars,
                   boundVars>>

DeleteRow(p) ==
    /\ pc[p] = "write" /\ op[p].kind = "delete"
    /\ db' = [db EXCEPT ![op[p].id] = None]
    /\ changed' = (changed \/ db[op[p].id] # None)
    /\ pc' = [pc EXCEPT ![p] = "publish"]
    /\ UNCHANGED <<used, clock, cache, writeMu, op, todo, flush, watchVars,
                   cli, ghostVars, boundVars>>

\* The counter of one record: metadata and updated_at of a row that is still
\* there; a recount skips a row whose UPDATE fails.  The cache keeps the
\* metadata it had.
CountRow(p) ==
    /\ pc[p] = "write" /\ op[p].kind = "count"
    /\ \E i \in todo[p] :
         /\ todo' = [todo EXCEPT ![p] = @ \ {i}]
         /\ \/ /\ db[i] # None
               /\ db' = [db EXCEPT ![i].meta = clock + 1]
               /\ clock' = clock + 1
               /\ changed' = TRUE
               /\ counted' = counted \cup {i}
            \/ /\ db[i] # None => "write_fails" \in Faults
               /\ UNCHANGED <<db, clock, changed, counted>>
    /\ UNCHANGED <<used, cache, writeMu, pc, op, flush, watchVars, cli, stale,
                   boundVars>>

Unlock(p) ==
    /\ writeMu' = None
    /\ pc' = [pc EXCEPT ![p] = "idle"]
    /\ op' = [op EXCEPT ![p] = None]

\* The cached updated_at of the rows counted, then the deferred Unlock.
CountDone(p) ==
    /\ pc[p] = "write" /\ op[p].kind = "count" /\ todo[p] = {}
    /\ Unlock(p)
    /\ UNCHANGED <<fileVars, cache, todo, flush, watchVars, changed, cli,
                   ghostVars, boundVars>>

\* Mutant: the error of the commit is ignored and the cache is set.
WriteFails_ignored(p) ==
    /\ "write_fails" \in Faults
    /\ pc[p] = "write" /\ op[p].kind # "count"
    /\ op' = IF op[p].kind = "delete" THEN op
             ELSE [op EXCEPT ![p].row = Staged(op[p])]
    /\ pc' = [pc EXCEPT ![p] = "publish"]
    /\ UNCHANGED <<fileVars, cache, writeMu, todo, flush, watchVars, changed,
                   cli, ghostVars, boundVars>>

\* The commit fails: the error returns before the cache is touched.
WriteFails(p) ==
    /\ "write_fails" \in Faults
    /\ pc[p] = "write" /\ op[p].kind # "count"
    /\ Unlock(p)
    /\ UNCHANGED <<fileVars, cache, todo, flush, watchVars, changed, cli,
                   ghostVars, boundVars>>

\* The read-after-write veto: a row already gone is an error, not a cache
\* entry.
verifyMemoryPersisted(p) ==
    /\ pc[p] = "verify"
    /\ IF db[op[p].id] = None
       THEN Unlock(p)
       ELSE pc' = [pc EXCEPT ![p] = "publish"] /\ UNCHANGED <<writeMu, op>>
    /\ UNCHANGED <<fileVars, cache, todo, flush, watchVars, changed, cli,
                   ghostVars, boundVars>>

\* cacheSetLocked or cacheDeleteLocked under mu, then the deferred Unlock.
Publish(p) ==
    /\ pc[p] = "publish"
    /\ cache' = [cache EXCEPT ![op[p].id] =
                   IF op[p].kind = "delete" THEN None ELSE op[p].row]
    /\ counted' = counted \ {op[p].id}
    /\ Unlock(p)
    /\ UNCHANGED <<fileVars, todo, flush, watchVars, changed, cli, stale,
                   boundVars>>

-----------------------------------------------------------------------------
(* The re-embed walk: a cache snapshot, then one row at a time.            *)

WalkStart(k) ==
    /\ daemon # "down" /\ pc[k] = "idle" /\ todo[k] = {}
    /\ \E i \in Live(cache) : cache[i].vec = None
    /\ todo' = [todo EXCEPT ![k] = {i \in Live(cache) : cache[i].vec = None}]
    /\ UNCHANGED <<fileVars, cache, writeMu, pc, op, flush, watchVars, changed,
                   cli, ghostVars, boundVars>>

\* Get and embed one row outside writeMu; a row that is gone or refused is
\* counted as failed and skipped.
WalkEmbed(k) ==
    /\ daemon # "down" /\ pc[k] = "idle"
    /\ \E i \in todo[k] :
         /\ todo' = [todo EXCEPT ![k] = @ \ {i}]
         /\ \/ /\ db[i] # None
               /\ Begin(k, [kind |-> "reembed", id |-> i, body |-> None,
                            vec |-> db[i].body, row |-> None])
            \/ /\ db[i] # None => "embed_fails" \in Faults
               /\ UNCHANGED <<pc, op, begun>>
    /\ UNCHANGED <<fileVars, cache, writeMu, flush, watchVars, changed, cli,
                   ghostVars, flushes, crashes>>

-----------------------------------------------------------------------------
(* The access-stats worker: commit the batch, then the cache, not atomic   *)
(* and not under writeMu.  AccessStats models where the batches come from. *)

flushCommit(S, targeted) ==
    /\ daemon # "down" /\ flush = None /\ flushes < MaxFlushes
    /\ db' = bumpTargeted(db, S, targeted)
    /\ changed' = (changed \/ S \cap Live(db) # {})
    /\ flush' = [ids |-> S, targeted |-> targeted]
    /\ flushes' = flushes + 1
    /\ UNCHANGED <<used, clock, cache, procVars, watchVars, cli, ghostVars, begun,
                   crashes>>

flushPublish ==
    /\ flush # None
    /\ cache' = bumpTargeted(cache, flush.ids, flush.targeted)
    /\ flush' = None
    /\ UNCHANGED <<fileVars, procVars, watchVars, changed, cli, ghostVars,
                   boundVars>>

-----------------------------------------------------------------------------
(* The foreign-write watcher.                                              *)

\* The ticker reads data_version; last = current comes BEFORE the reload.
WatchTick ==
    /\ watch = "idle" /\ changed
    /\ changed' = FALSE
    /\ watch' = "lock"
    /\ UNCHANGED <<fileVars, cache, procVars, flush, daemon, snap, cli, ghostVars,
                   boundVars>>

\* Mutant: the reload without writeMu.
ReloadQuery_unlocked ==
    /\ watch = "lock"
    /\ snap' = db
    /\ stale' = {} /\ counted' = {}
    /\ watch' = "swap"
    /\ UNCHANGED <<fileVars, cache, procVars, flush, daemon, changed, cli,
                   boundVars>>

\* reloadForForeignWrite takes writeMu; the SELECT fixes the rows.
ReloadQuery ==
    /\ watch = "lock" /\ writeMu = None
    /\ writeMu' = Watcher
    /\ snap' = db
    /\ stale' = {} /\ counted' = {}
    /\ watch' = "swap"
    /\ UNCHANGED <<fileVars, cache, pc, op, todo, flush, daemon, changed, cli,
                   boundVars>>

\* Mutant: the baseline is read again after the reload.
ReloadSwap_rebaselines ==
    /\ watch = "swap"
    /\ cache' = snap
    /\ snap' = NoRows
    /\ writeMu' = None
    /\ watch' = "idle"
    /\ changed' = FALSE
    /\ UNCHANGED <<fileVars, pc, op, todo, flush, daemon, cli, ghostVars,
                   boundVars>>

\* Mutant: an entry the cache already has is left as it is.
ReloadSwap_addsMissing ==
    /\ watch = "swap"
    /\ cache' = [i \in Ids |-> IF snap[i] # None /\ cache[i] # None
                              THEN cache[i] ELSE snap[i]]
    /\ snap' = NoRows
    /\ writeMu' = None
    /\ watch' = "idle"
    /\ UNCHANGED <<fileVars, pc, op, todo, flush, daemon, changed, cli, ghostVars,
                   boundVars>>

ReloadSwap ==
    /\ watch = "swap"
    /\ cache' = snap
    /\ snap' = NoRows
    /\ writeMu' = None
    /\ watch' = "idle"
    /\ UNCHANGED <<fileVars, pc, op, todo, flush, daemon, changed, cli, ghostVars,
                   boundVars>>

\* The SELECT fails: the cache keeps what it had.
ReloadFailsQuery ==
    /\ "reload_fails" \in Faults
    /\ watch = "lock" /\ writeMu = None
    /\ watch' = "idle"
    /\ UNCHANGED <<fileVars, cache, procVars, flush, daemon, snap, changed,
                   cli, ghostVars, boundVars>>

\* rows.Next fails part-way: the maps were already replaced.
ReloadFailsScan ==
    /\ "reload_fails" \in Faults
    /\ watch = "swap"
    /\ \E S \in SUBSET Live(snap) :
         cache' = [i \in Ids |-> IF i \in S THEN snap[i] ELSE None]
    /\ stale' = Ids /\ UNCHANGED counted
    /\ snap' = NoRows
    /\ writeMu' = None
    /\ watch' = "idle"
    /\ UNCHANGED <<fileVars, pc, op, todo, flush, daemon, changed, cli,
                   boundVars>>

-----------------------------------------------------------------------------
(* Daemon start and crash.                                                 *)

\* NewStore: loadMemoriesToCache.
StartLoad ==
    /\ daemon = "down"
    /\ cache' = db
    /\ stale' = {} /\ counted' = {}
    /\ daemon' = "loaded"
    /\ UNCHANGED <<fileVars, procVars, flush, watch, snap, changed, cli,
                   boundVars>>

\* WatchForeignWrites reads the baseline data_version.
StartWatch ==
    /\ daemon = "loaded"
    /\ watch' = "idle"
    /\ changed' = FALSE
    /\ daemon' = "up"
    /\ UNCHANGED <<fileVars, cache, procVars, flush, snap, cli, ghostVars,
                   boundVars>>

\* "Failure here is not fatal": the daemon serves without convergence.
StartWatchFails ==
    /\ "watch_fails" \in Faults
    /\ daemon = "loaded"
    /\ daemon' = "up"
    /\ UNCHANGED <<fileVars, cache, procVars, flush, watch, snap, changed, cli,
                   ghostVars, boundVars>>

\* The process dies at any point; only the file survives.
Crash ==
    /\ daemon # "down" /\ crashes < MaxCrashes
    /\ crashes' = crashes + 1
    /\ cache' = NoRows
    /\ writeMu' = None
    /\ pc' = [p \in Procs |-> "idle"]
    /\ op' = [p \in Procs |-> None]
    /\ todo' = [p \in Procs |-> {}]
    /\ flush' = None
    /\ daemon' = "down" /\ watch' = "off" /\ snap' = NoRows
    /\ changed' = FALSE
    /\ stale' = {} /\ counted' = {}
    /\ UNCHANGED <<fileVars, cli, begun, flushes>>

-----------------------------------------------------------------------------
(* CLI processes: the same Store code in another process, so the same row  *)
(* operations without this daemon's writeMu or cache.                      *)

\* A foreign commit to the rows in S.
Foreign(S) ==
    /\ "startup_commit" \in Faults \/ daemon # "loaded"
    /\ changed' = TRUE
    /\ stale' = stale \cup S
    /\ UNCHANGED <<counted, cache, procVars, flush, watchVars, crashes>>

CliStore(c, b) ==
    /\ cli[c] = None /\ begun < MaxOps
    /\ begun' = begun + 1
    /\ \E i \in Ids \ used, v \in embedForWrite(b) :
         /\ db' = insertMemoryRow(db, i, [ver |-> clock + 1,
                                          meta |-> clock + 1, body |-> b,
                                          vec |-> v, tacc |-> 0])
         /\ used' = used \cup {i}
         /\ Foreign({i})
    /\ clock' = clock + 1
    /\ UNCHANGED <<cli, flushes>>

CliGet(c, i) ==
    /\ cli[c] = None /\ begun < MaxOps /\ db[i] # None
    /\ begun' = begun + 1
    /\ cli' = [cli EXCEPT ![c] = [id |-> i, row |-> db[i]]]
    /\ UNCHANGED <<fileVars, cache, procVars, flush, watchVars, changed, ghostVars,
                   flushes, crashes>>

CliUpdate(c, b) ==
    /\ cli[c] # None
    /\ LET i == cli[c].id IN
       \E v \in embedForWrite(b) :
         /\ db' = updateMemoryRow(db, i, [ver |-> clock + 1, meta |-> clock + 1,
                                body |-> b, vec |-> v,
                                tacc |-> cli[c].row.tacc])
         /\ IF db[i] = None
            THEN UNCHANGED <<cache, procVars, flush, watchVars, crashes,
                             changed, ghostVars>>
            ELSE Foreign({i})
    /\ clock' = clock + 1
    /\ cli' = [cli EXCEPT ![c] = None]
    /\ UNCHANGED <<used, begun, flushes>>

CliDelete(c, i) ==
    /\ cli[c] = None /\ begun < MaxOps /\ db[i] # None
    /\ begun' = begun + 1
    /\ db' = [db EXCEPT ![i] = None]
    /\ Foreign({i})
    /\ UNCHANGED <<used, clock, cli, flushes>>

\* The access-stats worker of a CLI recall, drained by its Close.
CliFlush(c, S) ==
    /\ cli[c] = None /\ flushes < MaxFlushes /\ S \cap Live(db) # {}
    /\ flushes' = flushes + 1
    /\ db' = bumpTargeted(db, S, TRUE)
    /\ Foreign({})
    /\ UNCHANGED <<used, clock, cli, begun>>

-----------------------------------------------------------------------------
Write(p) == \/ LockStore(p) \/ LockGet(p) \/ LockPlain(p)
            \/ InsertRow(p) \/ UpdateRow(p) \/ DeleteRow(p)
            \/ CountRow(p) \/ CountDone(p)
            \/ WriteFails(p) \/ verifyMemoryPersisted(p) \/ Publish(p)

Request(w) == \/ \E b \in Bodies : BeginStore(w, b)
              \/ \E i \in Ids, b \in Bodies : BeginUpdate(w, i, b)
              \/ \E i \in Ids, k \in {"touch", "delete"} : BeginPlain(w, i, k)
              \/ \E S \in SUBSET used : BeginCount(w, S)

Walk(k) == WalkStart(k) \/ WalkEmbed(k)

FlushStep == \/ \E S \in SUBSET used, targeted \in BOOLEAN :
                  S # {} /\ flushCommit(S, targeted)
             \/ flushPublish

Watch == \/ WatchTick \/ ReloadQuery \/ ReloadSwap
         \/ ReloadFailsQuery \/ ReloadFailsScan

Daemon == StartLoad \/ StartWatch \/ StartWatchFails \/ Crash

CliStep(c) == \/ \E b \in Bodies : CliStore(c, b) \/ CliUpdate(c, b)
              \/ \E i \in Ids : CliGet(c, i) \/ CliDelete(c, i)
              \/ \E S \in SUBSET used : CliFlush(c, S)

Next == \/ \E w \in Writers : Request(w)
        \/ \E k \in Walkers : Walk(k)
        \/ \E p \in Procs : Write(p)
        \/ FlushStep \/ Watch \/ Daemon
        \/ \E c \in Clis : CliStep(c)

Spec == Init /\ [][Next]_vars

\* Go's sync.Mutex hands itself to a waiter that has starved for 1 ms, so the
\* watcher is not locked out of writeMu for ever; every other step only needs
\* the scheduler to keep running the goroutine it belongs to.
Fairness ==
    /\ \A p \in Procs : WF_vars(Write(p))
    /\ SF_vars(ReloadQuery)
    /\ WF_vars(WatchTick) /\ WF_vars(ReloadSwap)
    /\ WF_vars(StartLoad) /\ WF_vars(StartWatch)
    /\ WF_vars(flushPublish)

FairSpec == Spec /\ Fairness

-----------------------------------------------------------------------------
(* Properties.                                                             *)

TypeOK ==
    /\ db \in Table /\ cache \in Table /\ snap \in Table
    /\ used \subseteq Ids
    /\ clock \in Nat
    /\ writeMu \in Procs \cup {Watcher, None}
    /\ pc \in [Procs -> {"idle", "lock", "write", "verify", "publish"}]
    /\ op \in [Procs -> Op \cup {None}]
    /\ todo \in [Procs -> SUBSET Ids]
    /\ flush \in [ids : SUBSET Ids, targeted : BOOLEAN] \cup {None}
    /\ daemon \in {"down", "loaded", "up"}
    /\ watch \in {"off", "idle", "lock", "swap"}
    /\ changed \in BOOLEAN
    /\ cli \in [Clis -> [id : Ids, row : Row] \cup {None}]
    /\ stale \subseteq Ids /\ counted \subseteq Ids
    /\ begun \in Nat /\ flushes \in Nat /\ crashes \in Nat

\* Two entries for one id show the same record, but for its metadata; the
\* counters of accesses are apart.
Alike(a, b) ==
    /\ a = None <=> b = None
    /\ a # None => a.ver = b.ver /\ a.body = b.body /\ a.vec = b.vec

\* The metadata included.
Agree(a, b) == Alike(a, b) /\ (a # None => a.meta = b.meta)

\* What the entry a for id i owes the row b, where C holds the ids counted.
Shows(C, i, a, b) == Alike(a, b) /\ (i \notin C => Agree(a, b))

\* Whenever no write is in flight, list, recall and the sweeps, which read
\* the cache, see exactly the records of the file, except those a foreign
\* process wrote since the last reload; and their metadata too, except where
\* a reference count was saved since the cache last got the whole row.
CacheFollowsFile ==
    daemon # "down" /\ writeMu = None =>
        \A i \in Ids \ stale : Shows(counted, i, cache[i], db[i])

\* No lost update inside the daemon: between the Get of updateLocked or
\* updateStoredEmbedding and its UPDATE nobody but a foreign process wrote
\* the row, so the whole-row UPDATE erases no one's change.
UpdatesCurrentRow ==
    \A p \in Procs :
        pc[p] = "write" /\ op[p].kind \in {"update", "touch", "reembed"}
          /\ op[p].id \notin stale
        => Agree(op[p].row, db[op[p].id])

\* What the cache does not show yet, a foreign commit or a count of the
\* daemon's own, is always going to be noticed: data_version differs from
\* last, or the reload is on its way.
ForeignWriteIsPending ==
    daemon = "up" /\ stale \cup counted # {} => changed \/ watch = "lock"

\* A record's vector is the vector of its body: the embedding computed
\* outside writeMu is only stored with the text it was computed from.
VectorOfItsBody ==
    \A i \in Live(db) : db[i].vec \in {None, db[i].body}

\* targeted_access_count belongs to flushAccessStats: no edit, re-embed or
\* CLI save, from however old a struct, ever rolls it back.
TargetedNeverRollsBack ==
    [][\A i \in Ids : db[i] # None /\ db'[i] # None
                        => db'[i].tacc >= db[i].tacc]_vars

\* What the daemon serves for an id never goes back to an older version,
\* whatever commits between a reload's SELECT and the swap.
CacheNeverRollsBack ==
    [][daemon # "down" /\ daemon' # "down" =>
         \A i \in Ids : cache[i] # None /\ cache'[i] # None
                          => cache'[i].ver >= cache[i].ver]_vars

\* A committed version, the daemon's or a CLI's, metadata saved by a count
\* included, is eventually served, or overwritten, or deleted; a record
\* deleted in the file eventually leaves the cache.
FileBecomesVisible ==
    /\ \A i \in Ids, n \in 1..(MaxOps * Cardinality(Ids)) :
         db[i] # None /\ db[i].meta = n
           ~> \/ db[i] = None
              \/ cache[i] # None /\ cache[i].meta >= n
    /\ \A i \in Ids :
         i \in used /\ db[i] = None ~> db[i] # None \/ cache[i] = None

-----------------------------------------------------------------------------
(* The inductive invariant behind CacheFollowsFile and UpdatesCurrentRow.  *)

Critical == {"write", "verify", "publish"}

\* Local variables of a process at each point of its operation.
OpOK ==
    \A p \in Procs :
      /\ pc[p] # "idle" => op[p] \in Op
      /\ pc[p] # "idle" /\ op[p].kind \in {"store", "update"}
           => op[p].body \in Bodies
      /\ pc[p] # "idle" /\ op[p].kind \notin {"store", "count"}
           => op[p].id \in Ids
      /\ pc[p] \in Critical /\ op[p].kind # "count" => op[p].id \in Ids
      /\ pc[p] \in Critical /\ op[p].kind \in {"update", "touch", "reembed"}
           => op[p].row \in Row
      /\ pc[p] \in {"verify", "publish"} /\ op[p].kind = "store"
           => op[p].row \in Row
      /\ pc[p] = "verify" => op[p].kind = "store"
      /\ pc[p] = "publish" => op[p].kind # "count"

\* writeMu is owned exactly by who is between its Lock and its Unlock.
LockOK ==
    /\ \A p \in Procs : pc[p] \in Critical <=> writeMu = p
    /\ watch = "swap" <=> writeMu = Watcher

\* Nothing runs in a daemon that is down, and the watcher starts last.
DownOK ==
    /\ daemon = "down" => /\ \A p \in Procs : pc[p] = "idle"
                          /\ cache = NoRows /\ flush = None
    /\ daemon # "up" => watch = "off"

\* The id whose row is committed and not yet published, if any.
InFlight(i) == \E p \in Procs : pc[p] \in {"verify", "publish"} /\ op[p].id = i

\* What the cache, a reload and each writer show of a row not in doubt.
CoherentAt(i) ==
    /\ watch # "swap" /\ ~InFlight(i) =>
         Shows(counted, i, cache[i], db[i])
    /\ watch = "swap" => Agree(snap[i], db[i])
    /\ \A p \in Procs :
         /\ pc[p] = "write" /\ op[p].id = i
              /\ op[p].kind \in {"update", "touch", "reembed"}
              => Agree(op[p].row, db[i])
         /\ pc[p] \in {"verify", "publish"} /\ op[p].id = i =>
              IF op[p].kind = "delete" THEN db[i] = None
                                       ELSE Agree(op[p].row, db[i])

Coherent == daemon # "down" => \A i \in Ids \ stale : CoherentAt(i)

\* uuid.New: the id of a record about to be inserted names no row.
FreshIds ==
    /\ Live(db) \subseteq used
    /\ \A p \in Procs : pc[p] = "write" /\ op[p].kind = "store"
                        => op[p].id \in used /\ db[op[p].id] = None

IInv == TypeOK /\ OpOK /\ LockOK /\ DownOK /\ Coherent /\ FreshIds

-----------------------------------------------------------------------------
(* The store implements DerivedView.                                       *)

\* A row without its counters: the version of the record it shows.
Strip(r) == IF r = None THEN None
            ELSE [ver |-> r.ver, body |-> r.body, vec |-> r.vec]

Versions == [ver : Nat, body : Bodies, vec : Bodies \cup {None}]

viewFile == [i \in Ids |-> Strip(db[i])]

viewCache == [i \in Ids |-> Strip(cache[i])]

viewDoubt == IF watch = "swap" THEN Ids ELSE stale

viewInflight == IF writeMu \in Procs /\ pc[writeMu] \in {"verify", "publish"}
                THEN op[writeMu].id ELSE None

View == INSTANCE DerivedView WITH
    Absent <- None, NoId <- None,
    file <- viewFile, view <- viewCache, doubt <- viewDoubt,
    inflight <- viewInflight, serving <- daemon # "down"

\* Every step of the store is a step of the view it promises, or invisible.
ImplementsView == View!Spec
=============================================================================
