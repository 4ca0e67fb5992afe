------------------------- MODULE MemoryStoreProofs -------------------------
(***************************************************************************)
(* Proofs about MemoryStore, for every set of ids, bodies, writers, walks  *)
(* and CLI processes, every set of faults and every bound.                 *)
(***************************************************************************)
EXTENDS MemoryStore, TLAPS

-----------------------------------------------------------------------------
(* Rows and tables.                                                        *)

\* The row an operation writes is a row: NewRow in updateLocked, Store and
\* updateStoredEmbedding.
LEMMA StagedType ==
    ASSUME TypeOK, OpOK, NEW p \in Procs, pc[p] = "write",
           op[p].kind \notin {"delete", "count"}
    PROVE  Staged(op[p]) \in Row
  <1>1. op[p] \in Op
    BY DEF OpOK
  <1>2. CASE op[p].kind = "store"
    BY <1>1, <1>2 DEF Staged, Row, Op, OpOK, TypeOK
  <1>3. CASE op[p].kind \in {"update", "touch", "reembed"}
    <2>1. op[p].row \in Row
      BY <1>3 DEF OpOK, Critical
    <2> QED
      BY <1>1, <1>3, <2>1 DEF Staged, Row, Op, OpOK, TypeOK
  <1> QED
    BY <1>1, <1>2, <1>3 DEF Op, WriterKinds

\* updateMemoryRow keeps the table a table.
LEMMA UpdateType ==
    ASSUME NEW t \in Table, NEW i \in Ids, NEW r \in Row
    PROVE  updateMemoryRow(t, i, r) \in Table
  BY DataAssumption DEF Table, Row, updateMemoryRow

\* A flush keeps the table a table.
LEMMA BumpType ==
    ASSUME NEW t \in Table, NEW S, NEW b
    PROVE  bumpTargeted(t, S, b) \in Table
  BY DataAssumption DEF Table, Row, bumpTargeted

-----------------------------------------------------------------------------
(* Type correctness.                                                       *)

\* An empty file and a daemon that is down satisfy TypeOK and OpOK.
LEMMA InitType == Init => TypeOK /\ OpOK
  <1> SUFFICES ASSUME Init PROVE TypeOK /\ OpOK
    OBVIOUS
  <1>1. db \in Table /\ cache \in Table /\ snap \in Table
    BY DEF Init, Table, NoRows
  <1>2. /\ used \subseteq Ids /\ stale \subseteq Ids /\ counted \subseteq Ids
        /\ clock \in Nat /\ begun \in Nat /\ flushes \in Nat /\ crashes \in Nat
    BY DEF Init
  <1>3. /\ pc \in [Procs -> {"idle", "lock", "write", "verify", "publish"}]
        /\ op \in [Procs -> Op \cup {None}]
        /\ todo \in [Procs -> SUBSET Ids]
        /\ cli \in [Clis -> [id : Ids, row : Row] \cup {None}]
    BY DEF Init
  <1>4. OpOK
    BY DEF Init, OpOK, Critical
  <1> QED
    BY <1>1, <1>2, <1>3, <1>4 DEF Init, TypeOK

\* Every step keeps every variable in its type and gives each operation the
\* local variables its program counter says it has: Store, updateLocked,
\* Delete, the re-embed walk, the flush, the watcher and the CLI alike.
LEMMA TypeStep ==
    ASSUME TypeOK, OpOK, [Next]_vars
    PROVE  TypeOK' /\ OpOK'
  <1> USE DEF fileVars, procVars, watchVars, boundVars, ghostVars
  <1>1. ASSUME NEW w \in Writers, NEW b \in Bodies, BeginStore(w, b)
        PROVE  TypeOK' /\ OpOK'
    BY <1>1 DEF BeginStore, Begin, embedForWrite, TypeOK, OpOK, Op, Procs,
                WriterKinds, Critical
  <1>2. ASSUME NEW w \in Writers, NEW i \in Ids, NEW b \in Bodies,
               BeginUpdate(w, i, b)
        PROVE  TypeOK' /\ OpOK'
    BY <1>2 DEF BeginUpdate, Begin, embedForWrite, TypeOK, OpOK, Op, Procs,
                WriterKinds, Critical
  <1>3. ASSUME NEW w \in Writers, NEW i \in Ids, NEW k \in {"touch", "delete"},
               BeginPlain(w, i, k)
        PROVE  TypeOK' /\ OpOK'
    BY <1>3 DEF BeginPlain, Begin, TypeOK, OpOK, Op, Procs, WriterKinds,
                Critical
  <1>4. ASSUME NEW p \in Procs, LockStore(p)
        PROVE  TypeOK' /\ OpOK'
    BY <1>4 DEF LockStore, TypeOK, OpOK, Op, Critical
  <1>5. ASSUME NEW p \in Procs, LockGet(p)
        PROVE  TypeOK' /\ OpOK'
    BY <1>5 DEF LockGet, TypeOK, OpOK, Op, Critical, Table
  <1>6. ASSUME NEW p \in Procs, LockPlain(p)
        PROVE  TypeOK' /\ OpOK'
    BY <1>6 DEF LockPlain, TypeOK, OpOK, Op, Critical
  <1>7. ASSUME NEW p \in Procs, InsertRow(p)
        PROVE  TypeOK' /\ OpOK'
    <2>1. Staged(op[p]) \in Row
      BY <1>7, StagedType DEF InsertRow
    <2>2. op[p] \in Op /\ op[p].id \in Ids
      BY <1>7 DEF InsertRow, OpOK, Critical
    <2> QED
      BY <1>7, <2>1, <2>2 DEF InsertRow, insertMemoryRow, TypeOK, OpOK, Op,
                              Critical, Table
  <1>8. ASSUME NEW p \in Procs, UpdateRow(p)
        PROVE  TypeOK' /\ OpOK'
    <2>1. Staged(op[p]) \in Row
      BY <1>8, StagedType DEF UpdateRow
    <2>2. op[p] \in Op /\ op[p].id \in Ids
      BY <1>8 DEF UpdateRow, OpOK, Critical
    <2>3. db' \in Table
      BY <1>8, <2>1, <2>2, UpdateType DEF UpdateRow, TypeOK
    <2> QED
      BY <1>8, <2>1, <2>2, <2>3 DEF UpdateRow, TypeOK, OpOK, Op, Critical
  <1>9. ASSUME NEW p \in Procs, DeleteRow(p)
        PROVE  TypeOK' /\ OpOK'
    BY <1>9 DEF DeleteRow, TypeOK, OpOK, Op, Critical, Table
  <1>10. ASSUME NEW p \in Procs, WriteFails(p)
        PROVE  TypeOK' /\ OpOK'
    BY <1>10 DEF WriteFails, Unlock, TypeOK, OpOK, Op, Critical
  <1>11. ASSUME NEW p \in Procs, verifyMemoryPersisted(p)
        PROVE  TypeOK' /\ OpOK'
    BY <1>11 DEF verifyMemoryPersisted, Unlock, TypeOK, OpOK, Op, Critical
  <1>12. ASSUME NEW p \in Procs, Publish(p)
        PROVE  TypeOK' /\ OpOK'
    BY <1>12 DEF Publish, Unlock, TypeOK, OpOK, Op, Critical, Table
  <1>13. ASSUME NEW k \in Walkers, Walk(k)
        PROVE  TypeOK' /\ OpOK'
    <2>1. CASE WalkStart(k)
      BY <1>13, <2>1 DEF WalkStart, Live, TypeOK, OpOK
    <2>2. CASE WalkEmbed(k)
      <3>1. PICK i \in todo[k] :
              /\ todo' = [todo EXCEPT ![k] = @ \ {i}]
              /\ \/ /\ db[i] # None
                    /\ Begin(k, [kind |-> "reembed", id |-> i, body |-> None,
                                 vec |-> db[i].body, row |-> None])
                 \/ UNCHANGED <<pc, op, begun>>
        BY <2>2 DEF WalkEmbed
      <3>2. i \in Ids /\ (db[i] # None => db[i].body \in Bodies)
        BY <3>1 DEF TypeOK, Table, Row, Procs
      <3>3. CASE UNCHANGED <<pc, op, begun>>
        BY <2>2, <3>1, <3>3 DEF WalkEmbed, TypeOK, OpOK, Procs
      <3>4. CASE db[i] # None
                 /\ Begin(k, [kind |-> "reembed", id |-> i, body |-> None,
                              vec |-> db[i].body, row |-> None])
        BY <2>2, <3>1, <3>2, <3>4
        DEF WalkEmbed, Begin, TypeOK, OpOK, Op, Procs, Critical
      <3> QED
        BY <3>1, <3>3, <3>4
    <2> QED
      BY <1>13, <2>1, <2>2 DEF Walk
  <1>14. ASSUME FlushStep
        PROVE  TypeOK' /\ OpOK'
    <2>1. ASSUME NEW S \in SUBSET used, NEW t \in BOOLEAN, flushCommit(S, t)
          PROVE  TypeOK' /\ OpOK'
      <3>1. db' \in Table
        BY <2>1, BumpType DEF flushCommit, TypeOK
      <3>2. flush' \in [ids : SUBSET Ids, targeted : BOOLEAN]
        BY <2>1 DEF flushCommit, TypeOK
      <3> QED
        BY <2>1, <3>1, <3>2 DEF flushCommit, TypeOK, OpOK
    <2>2. CASE flushPublish
      <3>1. cache' \in Table
        BY <2>2, BumpType DEF flushPublish, TypeOK
      <3> QED
        BY <2>2, <3>1 DEF flushPublish, TypeOK, OpOK
    <2> QED
      BY <1>14, <2>1, <2>2 DEF FlushStep
  <1>15. ASSUME Watch
        PROVE  TypeOK' /\ OpOK'
    BY <1>15 DEF Watch, WatchTick, ReloadQuery, ReloadSwap, ReloadFailsQuery,
                 ReloadFailsScan, TypeOK, OpOK, Table, NoRows
  <1>16. ASSUME Daemon
        PROVE  TypeOK' /\ OpOK'
    <2>1. CASE StartLoad
      BY <2>1 DEF StartLoad, TypeOK, OpOK
    <2>2. CASE StartWatch \/ StartWatchFails
      BY <2>2 DEF StartWatch, StartWatchFails, TypeOK, OpOK
    <2>3. CASE Crash
      <3>1. cache' \in Table /\ snap' \in Table
        BY <2>3 DEF Crash, Table, NoRows
      <3>2. OpOK'
        BY <2>3 DEF Crash, OpOK, Critical
      <3>3. /\ pc' \in [Procs -> {"idle", "lock", "write", "verify", "publish"}]
            /\ op' \in [Procs -> Op \cup {None}]
            /\ todo' \in [Procs -> SUBSET Ids]
        BY <2>3 DEF Crash
      <3>4. /\ UNCHANGED <<fileVars, cli, begun, flushes>>
            /\ writeMu' = None /\ flush' = None /\ stale' = {} /\ counted' = {}
            /\ daemon' = "down" /\ watch' = "off" /\ changed' = FALSE
            /\ crashes' = crashes + 1
        BY <2>3 DEF Crash
      <3>5. crashes' \in Nat
        BY <3>4 DEF TypeOK
      <3>6. flush' \in [ids : SUBSET Ids, targeted : BOOLEAN] \cup {None}
        BY <3>4
      <3>7. writeMu' \in Procs \cup {Watcher, None}
        BY <3>4
      <3>8. /\ stale' \subseteq Ids /\ counted' \subseteq Ids
            /\ changed' \in BOOLEAN
        BY <3>4
      <3> QED
        BY <3>1, <3>2, <3>3, <3>4, <3>5, <3>6, <3>7, <3>8 DEF TypeOK
    <2> QED
      BY <1>16, <2>1, <2>2, <2>3 DEF Daemon
  <1>17. ASSUME NEW c \in Clis, CliStep(c)
        PROVE  TypeOK' /\ OpOK'
    <2>1. ASSUME NEW b \in Bodies, CliStore(c, b)
          PROVE  TypeOK' /\ OpOK'
      BY <2>1 DEF CliStore, Foreign, insertMemoryRow, embedForWrite, TypeOK,
                  OpOK, Table, Row
    <2>2. ASSUME NEW b \in Bodies, CliUpdate(c, b)
          PROVE  TypeOK' /\ OpOK'
      <3>1. cli[c].id \in Ids /\ cli[c].row \in Row
        BY <2>2 DEF CliUpdate, TypeOK
      <3>2. PICK v \in embedForWrite(b) :
              db' = updateMemoryRow(db, cli[c].id, [ver |-> clock + 1, meta |-> clock + 1, body |-> b,
                                  vec |-> v, tacc |-> cli[c].row.tacc])
        BY <2>2 DEF CliUpdate
      <3>3. [ver |-> clock + 1, meta |-> clock + 1, body |-> b, vec |-> v,
              tacc |-> cli[c].row.tacc] \in Row
        BY <3>1 DEF Row, TypeOK, embedForWrite
      <3>4. db' \in Table
        BY <3>1, <3>2, <3>3, UpdateType DEF TypeOK
      <3>5. TypeOK' /\ OpOK'
        <4>1. stale' \subseteq Ids /\ changed' \in BOOLEAN
          BY <2>2, <3>1 DEF CliUpdate, Foreign, TypeOK
        <4>2. cli' \in [Clis -> [id : Ids, row : Row] \cup {None}]
          BY <2>2 DEF CliUpdate, TypeOK
        <4>3. UNCHANGED <<cache, procVars, flush, watchVars, crashes, counted>>
          BY <2>2 DEF CliUpdate, Foreign
        <4> QED
          BY <2>2, <3>4, <4>1, <4>2, <4>3 DEF CliUpdate, TypeOK, OpOK
      <3> QED
        BY <3>5
    <2>3. ASSUME NEW i \in Ids, CliGet(c, i)
          PROVE  TypeOK' /\ OpOK'
      BY <2>3 DEF CliGet, TypeOK, OpOK, Table
    <2>4. ASSUME NEW i \in Ids, CliDelete(c, i)
          PROVE  TypeOK' /\ OpOK'
      BY <2>4 DEF CliDelete, Foreign, TypeOK, OpOK, Table
    <2>5. ASSUME NEW S \in SUBSET used, CliFlush(c, S)
          PROVE  TypeOK' /\ OpOK'
      <3>1. db' \in Table
        BY <2>5, BumpType DEF CliFlush, TypeOK
      <3>2. /\ UNCHANGED <<used, clock, cli, begun>>
            /\ UNCHANGED <<cache, procVars, flush, watchVars, crashes>>
            /\ changed' = TRUE /\ stale' = stale /\ counted' = counted
            /\ flushes' = flushes + 1
        BY <2>5 DEF CliFlush, Foreign
      <3> QED
        BY <3>1, <3>2 DEF TypeOK, OpOK
    <2> QED
      BY <1>17, <2>1, <2>2, <2>3, <2>4, <2>5 DEF CliStep
  <1>18. ASSUME NEW w \in Writers, NEW S \in SUBSET used, BeginCount(w, S)
         PROVE  TypeOK' /\ OpOK'
    BY <1>18 DEF BeginCount, Begin, TypeOK, OpOK, Op, Procs, WriterKinds,
                 Critical
  <1>19. ASSUME NEW p \in Procs, CountRow(p)
         PROVE  TypeOK' /\ OpOK'
    <2>1. PICK i \in todo[p] :
            /\ todo' = [todo EXCEPT ![p] = @ \ {i}]
            /\ \/ /\ db[i] # None
                  /\ db' = [db EXCEPT ![i].meta = clock + 1]
                  /\ clock' = clock + 1
                  /\ changed' = TRUE
                  /\ counted' = counted \cup {i}
               \/ UNCHANGED <<db, clock, changed, counted>>
      BY <1>19 DEF CountRow
    <2>2. i \in Ids /\ todo' \in [Procs -> SUBSET Ids]
      BY <2>1 DEF TypeOK
    <2>3. UNCHANGED <<used, cache, writeMu, pc, op, flush, watchVars, cli,
                      stale, boundVars>>
      BY <1>19 DEF CountRow
    <2>4. CASE UNCHANGED <<db, clock, changed, counted>>
      BY <2>2, <2>3, <2>4 DEF TypeOK, OpOK
    <2>5. CASE ~UNCHANGED <<db, clock, changed, counted>>
      <3>1. /\ db[i] # None
            /\ db' = [db EXCEPT ![i].meta = clock + 1]
            /\ clock' = clock + 1 /\ clock' \in Nat
            /\ changed' = TRUE
            /\ counted' = counted \cup {i}
        BY <2>1, <2>5 DEF TypeOK
      <3>2. db[i] \in Row
        BY <2>2, <3>1 DEF TypeOK, Table
      <3>3. [db[i] EXCEPT !.meta = clock + 1] \in Row
        BY <3>1, <3>2 DEF TypeOK, Row
      <3>4. db' \in Table
        BY <2>2, <3>1, <3>3 DEF TypeOK, Table
      <3>5. counted' \subseteq Ids
        BY <2>2, <3>1 DEF TypeOK
      <3> QED
        BY <2>2, <2>3, <3>1, <3>4, <3>5 DEF TypeOK, OpOK
    <2> QED
      BY <2>4, <2>5
  <1>20. ASSUME NEW p \in Procs, CountDone(p)
         PROVE  TypeOK' /\ OpOK'
    BY <1>20 DEF CountDone, Unlock, TypeOK, OpOK, Op, Critical
  <1>21. CASE UNCHANGED vars
    BY <1>21 DEF vars, TypeOK, OpOK
  <1> QED
    BY <1>1, <1>2, <1>3, <1>4, <1>5, <1>6, <1>7, <1>8, <1>9, <1>10, <1>11,
       <1>12, <1>13, <1>14, <1>15, <1>16, <1>17, <1>18, <1>19, <1>20, <1>21
    DEF Next, Request, Write, vars

\* TypeOK holds in every reachable state.
THEOREM TypeCorrect == Spec => []TypeOK
  <1>1. TypeOK /\ OpOK /\ [Next]_vars => TypeOK' /\ OpOK'
    BY TypeStep
  <1> QED
    BY <1>1, InitType, PTL DEF Spec

-----------------------------------------------------------------------------
(* Mutual exclusion.                                                       *)

\* writeMu changes hands only at the Lock and Unlock of Store, updateLocked,
\* Delete, updateStoredEmbedding and reloadForForeignWrite; a crash frees it.
LEMMA LockStep ==
    ASSUME TypeOK, OpOK, LockOK, DownOK, [Next]_vars
    PROVE  LockOK' /\ DownOK'
  <1> USE ProcAssumption DEF fileVars, procVars, watchVars, boundVars, ghostVars
  <1>1. ASSUME NEW w \in Writers, Request(w)
        PROVE  LockOK' /\ DownOK'
    BY <1>1 DEF Request, BeginStore, BeginUpdate, BeginPlain, BeginCount, Begin, TypeOK,
                LockOK, DownOK, Critical, Procs
  <1>2. ASSUME NEW p \in Procs, LockStore(p) \/ LockGet(p) \/ LockPlain(p)
        PROVE  LockOK' /\ DownOK'
    BY <1>2 DEF LockStore, LockGet, LockPlain, TypeOK, LockOK, DownOK, Critical
  <1>3. ASSUME NEW p \in Procs,
               \/ InsertRow(p) \/ UpdateRow(p) \/ DeleteRow(p)
               \/ CountRow(p) \/ CountDone(p)
        PROVE  LockOK' /\ DownOK'
    BY <1>3 DEF InsertRow, UpdateRow, DeleteRow, CountRow, CountDone, Unlock,
                TypeOK, LockOK, DownOK, Critical
  <1>4. ASSUME NEW p \in Procs,
               WriteFails(p) \/ verifyMemoryPersisted(p) \/ Publish(p)
        PROVE  LockOK' /\ DownOK'
    BY <1>4 DEF WriteFails, verifyMemoryPersisted, Publish, Unlock, TypeOK,
                LockOK, DownOK, Critical
  <1>5. ASSUME NEW k \in Walkers, Walk(k)
        PROVE  LockOK' /\ DownOK'
    BY <1>5 DEF Walk, WalkStart, WalkEmbed, Begin, TypeOK, LockOK, DownOK,
                Critical, Procs
  <1>6. ASSUME FlushStep
        PROVE  LockOK' /\ DownOK'
    BY <1>6 DEF FlushStep, flushCommit, flushPublish, LockOK, DownOK
  <1>7. ASSUME Watch
        PROVE  LockOK' /\ DownOK'
    BY <1>7 DEF Watch, WatchTick, ReloadQuery, ReloadSwap, ReloadFailsQuery,
                ReloadFailsScan, TypeOK, LockOK, DownOK
  <1>8. ASSUME Daemon
        PROVE  LockOK' /\ DownOK'
    BY <1>8 DEF Daemon, StartLoad, StartWatch, StartWatchFails, Crash, TypeOK,
                LockOK, DownOK, Critical
  <1>9. ASSUME NEW c \in Clis, CliStep(c)
        PROVE  LockOK' /\ DownOK'
    BY <1>9 DEF CliStep, CliStore, CliGet, CliUpdate, CliDelete, CliFlush,
                Foreign, LockOK, DownOK
  <1>10. CASE UNCHANGED vars
    BY <1>10 DEF vars, LockOK, DownOK
  <1> QED
    BY <1>1, <1>2, <1>3, <1>4, <1>5, <1>6, <1>7, <1>8, <1>9, <1>10
    DEF Next, Write

-----------------------------------------------------------------------------
(* Coherence of the cache.                                                 *)

\* The counters do not matter to Agree and Alike, so a flush preserves it.
LEMMA AgreeBump ==
    ASSUME NEW t \in Table, NEW S, NEW b, NEW i \in Ids
    PROVE  /\ bumpTargeted(t, S, b)[i] = None <=> t[i] = None
           /\ \A r : Agree(r, t[i]) => Agree(r, bumpTargeted(t, S, b)[i])
           /\ \A r : Agree(t[i], r) => Agree(bumpTargeted(t, S, b)[i], r)
           /\ \A r : Alike(r, t[i]) => Alike(r, bumpTargeted(t, S, b)[i])
           /\ \A r : Alike(t[i], r) => Alike(bumpTargeted(t, S, b)[i], r)
  <1>1. CASE t[i] = None
    BY <1>1 DEF bumpTargeted
  <1>2. CASE t[i] \in Row
    <2>1. bumpTargeted(t, S, b)[i] = t[i]
          \/ bumpTargeted(t, S, b)[i] = [t[i] EXCEPT !.tacc = @ + 1]
      BY DEF bumpTargeted
    <2>2. [t[i] EXCEPT !.tacc = @ + 1] \in Row
      BY <1>2 DEF Row
    <2>3. [t[i] EXCEPT !.tacc = @ + 1] # None /\ t[i] # None
      BY <1>2, <2>2, DataAssumption
    <2> QED
      BY <1>2, <2>1, <2>3 DEF Agree, Alike, Shows, Row
  <1> QED
    BY <1>1, <1>2 DEF Table

\* At most one process is between Lock and Unlock, and none during a reload.
LEMMA OneHolder ==
    ASSUME LockOK, NEW p \in Procs, pc[p] \in Critical
    PROVE  /\ watch # "swap"
           /\ \A q \in Procs : pc[q] \in Critical => q = p
  BY ProcAssumption DEF LockOK

\* A row committed by InsertRow, UpdateRow or DeleteRow: the writer knows it,
\* and every other row is as before.
LEMMA CommitCoherent ==
    ASSUME TypeOK, OpOK, LockOK, DownOK, Coherent,
           NEW p \in Procs, InsertRow(p) \/ UpdateRow(p) \/ DeleteRow(p)
    PROVE  Coherent'
  <1> USE DEF fileVars, procVars, watchVars, boundVars, ghostVars
  <1> DEFINE d == op[p].id
  <1>1. /\ pc[p] = "write" /\ d \in Ids /\ op[p] \in Op
        /\ pc' = [pc EXCEPT ![p] = IF op[p].kind = "store" THEN "verify"
                                                            ELSE "publish"]
        /\ \A q \in Procs : op'[q].id = op[q].id /\ op'[q].kind = op[q].kind
        /\ UNCHANGED <<cache, snap, watch, stale, counted, daemon>>
        /\ \A q \in Procs \ {p} : op'[q] = op[q]
    BY DEF InsertRow, UpdateRow, DeleteRow, OpOK, Critical, TypeOK, Op
  <1>2. watch # "swap" /\ \A q \in Procs : pc[q] \in Critical => q = p
    BY <1>1, OneHolder DEF Critical
  <1>3. \A j \in Ids \ {d} : db'[j] = db[j]
    BY <1>1 DEF InsertRow, UpdateRow, DeleteRow, insertMemoryRow,
                updateMemoryRow, TypeOK, Table
  <1>4. ASSUME NEW j \in Ids \ stale, daemon # "down", j # d
        PROVE  CoherentAt(j)'
    <2>1. ~InFlight(j)
      BY <1>1, <1>2 DEF InFlight, Critical
    <2>2. Shows(counted, j, cache[j], db[j])
      BY <1>2, <1>4, <2>1 DEF Coherent, CoherentAt
    <2>3. \A q \in Procs : pc'[q] \in Critical => op'[q].id # j
      BY <1>1, <1>2, <1>4 DEF Critical, TypeOK
    <2> QED
      BY <1>1, <1>2, <1>3, <1>4, <2>2, <2>3 DEF CoherentAt, Agree, Alike, Shows, Critical
  <1>5. ASSUME d \notin stale, daemon # "down"
        PROVE  IF op[p].kind = "delete" THEN db'[d] = None
                                        ELSE Agree(op'[p].row, db'[d])
    <2>1. CASE op[p].kind = "delete"
      BY <1>1, <2>1 DEF InsertRow, UpdateRow, DeleteRow, TypeOK, Table
    <2>2. CASE op[p].kind = "store"
      <3>1. op'[p].row = Staged(op[p])
        BY <1>1, <2>2 DEF InsertRow, UpdateRow, DeleteRow, Op, TypeOK
      <3>2. db'[d] = Staged(op[p])
        BY <1>1, <2>2 DEF InsertRow, UpdateRow, DeleteRow, insertMemoryRow,
                          TypeOK, Table
      <3> QED
        BY <2>2, <3>1, <3>2 DEF Agree, Alike, Shows
    <2>3. CASE op[p].kind \in {"update", "touch", "reembed"}
      <3>1. Agree(op[p].row, db[d]) /\ op[p].row \in Row
        BY <1>1, <1>5, <2>3 DEF Coherent, CoherentAt, OpOK, Critical
      <3>2. db[d] # None
        BY <3>1, DataAssumption DEF Agree, Alike, Shows
      <3>3. Staged(op[p]) \in Row
        BY <1>1, <2>3, StagedType
      <3>4. db'[d] = [Staged(op[p]) EXCEPT !.tacc = db[d].tacc]
        BY <1>1, <2>3, <3>2 DEF InsertRow, UpdateRow, DeleteRow,
                                updateMemoryRow, TypeOK, Table
      <3>5. op'[p].row = Staged(op[p])
        BY <1>1, <2>3 DEF InsertRow, UpdateRow, DeleteRow, Op, TypeOK
      <3>6. db'[d] \in Row
        BY <1>1, <3>2, <3>3, <3>4 DEF Row, TypeOK, Table
      <3> QED
        BY <2>3, <3>3, <3>4, <3>5, <3>6, DataAssumption DEF Agree, Alike, Shows, Row
    <2> QED
      BY <1>1, <2>1, <2>2, <2>3 DEF Op, WriterKinds, InsertRow, UpdateRow,
                                    DeleteRow
  <1>6. ASSUME d \notin stale, daemon # "down"
        PROVE  CoherentAt(d)'
    <2>1. InFlight(d)'
      BY <1>1 DEF InFlight, TypeOK
    <2>2. \A q \in Procs : pc'[q] \in Critical => q = p /\ pc'[p] # "write"
      BY <1>1, <1>2 DEF Critical, TypeOK
    <2> QED
      BY <1>1, <1>2, <1>5, <1>6, <2>1, <2>2 DEF CoherentAt, Critical
  <1> QED
    BY <1>1, <1>4, <1>6 DEF Coherent

\* The central step: outside the ids in doubt, every action leaves the cache,
\* the rows a reload has read and the rows the writers hold in agreement with
\* the file.
LEMMA CoherentStep ==
    ASSUME IInv, [Next]_vars
    PROVE  Coherent'
  <1> USE DEF fileVars, procVars, watchVars, boundVars, ghostVars
  <1> USE DEF IInv
  \* A step that leaves the rows, the view and the writers in their critical
  \* sections alone, but may let p begin, wait or enter with a fresh row.
  <1>1. ASSUME NEW p \in Procs,
               pc[p] \in {"idle", "lock"},
               UNCHANGED <<db, cache, snap, watch, stale, counted, daemon>>,
               \A q \in Procs \ {p} : pc'[q] = pc[q] /\ op'[q] = op[q],
               \/ pc'[p] \in {"idle", "lock"}
               \/ pc'[p] = "write" /\ op'[p].kind \in {"store", "delete", "count"}
               \/ pc'[p] = "write" /\ op'[p].row = db[op'[p].id]
        PROVE  Coherent'
    <2> SUFFICES ASSUME daemon # "down", NEW i \in Ids \ stale
                 PROVE  CoherentAt(i)'
      BY <1>1 DEF Coherent
    <2>1. CoherentAt(i)
      BY DEF Coherent
    <2>2. InFlight(i)' <=> InFlight(i)
      BY <1>1 DEF InFlight
    <2>3. \A q \in Procs \ {p} : pc'[q] = pc[q] /\ op'[q] = op[q]
      BY <1>1
    <2> QED
      BY <1>1, <2>1, <2>2, <2>3 DEF CoherentAt, Agree, Alike, Shows
  <1>2. ASSUME NEW w \in Writers, Request(w)
        PROVE  Coherent'
    BY <1>1, <1>2 DEF Request, BeginStore, BeginUpdate, BeginPlain, BeginCount, Begin,
                      TypeOK, Procs
  <1>3. ASSUME NEW p \in Procs, LockStore(p) \/ LockGet(p) \/ LockPlain(p)
        PROVE  Coherent'
    <2>1. CASE LockStore(p)
      BY <1>1, <2>1 DEF LockStore, TypeOK, OpOK, Op
    <2>2. CASE LockGet(p)
      BY <1>1, <2>2 DEF LockGet, TypeOK, OpOK, Op
    <2>3. CASE LockPlain(p)
      BY <1>1, <2>3 DEF LockPlain, TypeOK, OpOK, Op
    <2> QED
      BY <1>3, <2>1, <2>2, <2>3
  <1>4. ASSUME NEW p \in Procs, InsertRow(p) \/ UpdateRow(p) \/ DeleteRow(p)
        PROVE  Coherent'
    BY <1>4, CommitCoherent
  \* A process leaves its critical section: nobody is in one afterwards.
  <1>5. ASSUME NEW p \in Procs, pc[p] \in Critical, Unlock(p),
               UNCHANGED <<db, snap, watch, stale, daemon>>,
               \A i \in Ids \ stale :
                 daemon # "down" => Shows(counted', i, cache'[i], db[i])
        PROVE  Coherent'
    <2>1. watch # "swap" /\ \A q \in Procs : pc'[q] \notin Critical
      BY <1>5, OneHolder DEF Unlock, TypeOK, Critical
    <2> QED
      BY <1>5, <2>1 DEF Coherent, CoherentAt, Critical, Agree, Alike, Shows
  <1>6. ASSUME NEW p \in Procs, WriteFails(p)
        PROVE  Coherent'
    <2>1. \A i \in Ids : ~InFlight(i)
      BY <1>6, OneHolder DEF WriteFails, InFlight, Critical
    <2>2. watch # "swap"
      BY <1>6, OneHolder DEF WriteFails, Critical
    <2> QED
      BY <1>5, <1>6, <2>1, <2>2 DEF WriteFails, Coherent, CoherentAt, Critical
  <1>7. ASSUME NEW p \in Procs, verifyMemoryPersisted(p)
        PROVE  Coherent'
    <2>1. CASE db[op[p].id] # None
      <3>1. /\ pc[p] = "verify" /\ pc' = [pc EXCEPT ![p] = "publish"]
            /\ UNCHANGED <<db, cache, snap, watch, stale, counted, daemon, op>>
        BY <1>7, <2>1 DEF verifyMemoryPersisted
      <3>2. \A i : InFlight(i)' <=> InFlight(i)
        BY <3>1 DEF InFlight, TypeOK
      <3> QED
        BY <3>1, <3>2 DEF Coherent, CoherentAt, Agree, Alike, Shows, TypeOK
    <2>2. CASE db[op[p].id] = None
      <3>1. /\ pc[p] = "verify" /\ Unlock(p) /\ op[p].id \in Ids
            /\ op[p].kind = "store" /\ op[p].row \in Row
            /\ UNCHANGED <<db, cache, snap, watch, stale, counted, daemon>>
        BY <1>7, <2>2 DEF verifyMemoryPersisted, OpOK, Critical
      <3>2. daemon # "down" => op[p].id \in stale
        BY <2>2, <3>1, DataAssumption DEF Coherent, CoherentAt, Agree, Alike, Shows
      <3>3. \A i \in Ids : InFlight(i) => i = op[p].id
        BY <3>1, OneHolder DEF InFlight, Critical
      <3>4. watch # "swap"
        BY <3>1, OneHolder DEF Critical
      <3>5. \A i \in Ids \ stale :
              daemon # "down" => Shows(counted', i, cache'[i], db[i])
        BY <3>1, <3>2, <3>3, <3>4 DEF Coherent, CoherentAt
      <3> QED
        BY <1>5, <3>1, <3>5 DEF Critical
    <2> QED
      BY <2>1, <2>2
  <1>8. ASSUME NEW p \in Procs, Publish(p)
        PROVE  Coherent'
    <2>1. /\ pc[p] = "publish" /\ Unlock(p) /\ op[p].id \in Ids
          /\ UNCHANGED <<db, snap, watch, stale, daemon>>
          /\ cache' = [cache EXCEPT ![op[p].id] =
                         IF op[p].kind = "delete" THEN None ELSE op[p].row]
          /\ counted' = counted \ {op[p].id} /\ op[p].kind # "count"
      BY <1>8 DEF Publish, OpOK, Critical
    <2>2. watch # "swap" /\ \A i \in Ids : InFlight(i) => i = op[p].id
      BY <2>1, OneHolder DEF InFlight, Critical
    <2>3. ASSUME NEW i \in Ids \ stale, daemon # "down"
          PROVE  Shows(counted', i, cache'[i], db[i])
      <3>1. CoherentAt(i)
        BY <2>3 DEF Coherent
      <3>2. CASE i = op[p].id
        BY <2>1, <3>1, <3>2 DEF CoherentAt, Agree, Alike, Shows, TypeOK, Table
      <3>3. CASE i # op[p].id
        BY <2>1, <2>2, <3>1, <3>3 DEF CoherentAt, TypeOK, Table, Shows
      <3> QED
        BY <3>2, <3>3
    <2> QED
      BY <1>5, <2>1, <2>3 DEF Critical
  <1>9. ASSUME NEW k \in Walkers, Walk(k)
        PROVE  Coherent'
    <2>1. CASE WalkStart(k)
      BY <1>1, <2>1 DEF WalkStart, Procs
    <2>2. CASE WalkEmbed(k)
      BY <1>1, <2>2 DEF WalkEmbed, Begin, TypeOK, Procs
    <2> QED
      BY <1>9, <2>1, <2>2 DEF Walk
  <1>10. ASSUME FlushStep
         PROVE  Coherent'
    <2>1. ASSUME NEW S \in SUBSET used, NEW t \in BOOLEAN, flushCommit(S, t)
          PROVE  Coherent'
      <3>1. /\ db' = bumpTargeted(db, S, t) /\ db \in Table
            /\ UNCHANGED <<cache, snap, watch, stale, counted, daemon, pc, op>>
        BY <2>1 DEF flushCommit, TypeOK
      <3>2. \A i : InFlight(i)' <=> InFlight(i)
        BY <3>1 DEF InFlight
      <3>3. \A i \in Ids : /\ db'[i] = None <=> db[i] = None
                           /\ \A r : Agree(r, db[i]) => Agree(r, db'[i])
                           /\ \A r : Alike(r, db[i]) => Alike(r, db'[i])
        BY <3>1, AgreeBump
      <3> QED
        BY <3>1, <3>2, <3>3 DEF Coherent, CoherentAt, Shows
    <2>2. CASE flushPublish
      <3>1. /\ cache' = bumpTargeted(cache, flush.ids, flush.targeted)
            /\ cache \in Table
            /\ UNCHANGED <<db, snap, watch, stale, counted, daemon, pc, op>>
        BY <2>2 DEF flushPublish, TypeOK
      <3>2. \A i : InFlight(i)' <=> InFlight(i)
        BY <3>1 DEF InFlight
      <3> QED
        BY <3>1, <3>2, AgreeBump DEF Coherent, CoherentAt, Agree, Alike, Shows
    <2> QED
      BY <1>10, <2>1, <2>2 DEF FlushStep
  <1>11. ASSUME Watch
         PROVE  Coherent'
    <2>1. CASE WatchTick \/ ReloadFailsQuery
      <3>1. /\ watch # "swap" /\ watch' # "swap"
            /\ UNCHANGED <<db, cache, stale, counted, daemon, pc, op>>
        BY <2>1 DEF WatchTick, ReloadFailsQuery
      <3>2. \A i : InFlight(i)' <=> InFlight(i)
        BY <3>1 DEF InFlight
      <3> QED
        BY <3>1, <3>2 DEF Coherent, CoherentAt, Agree, Alike, Shows
    <2>2. CASE ReloadQuery
      BY <2>2, ProcAssumption DEF ReloadQuery, Coherent, CoherentAt, InFlight,
                                  Agree, Alike, Shows, LockOK, Critical
    <2>3. CASE ReloadSwap
      BY <2>3, ProcAssumption DEF ReloadSwap, Coherent, CoherentAt, InFlight,
                                  Agree, Alike, Shows, LockOK, Critical
    <2>4. CASE ReloadFailsScan
      BY <2>4 DEF ReloadFailsScan, Coherent
    <2> QED
      BY <1>11, <2>1, <2>2, <2>3, <2>4 DEF Watch
  <1>12. ASSUME Daemon
         PROVE  Coherent'
    <2>1. CASE StartLoad
      BY <2>1 DEF StartLoad, Coherent, CoherentAt, Agree, Alike, Shows, DownOK
    <2>2. CASE StartWatch \/ StartWatchFails
      <3>1. /\ watch # "swap" /\ watch' # "swap" /\ daemon # "down"
            /\ UNCHANGED <<db, cache, stale, counted, pc, op>>
        BY <2>2 DEF StartWatch, StartWatchFails, DownOK
      <3>2. \A i : InFlight(i)' <=> InFlight(i)
        BY <3>1 DEF InFlight
      <3> QED
        BY <3>1, <3>2 DEF Coherent, CoherentAt, Agree, Alike, Shows
    <2>3. CASE Crash
      BY <2>3 DEF Crash, Coherent
    <2> QED
      BY <1>12, <2>1, <2>2, <2>3 DEF Daemon
  \* A foreign commit only touches ids it puts in doubt.
  <1>13. ASSUME stale \subseteq stale',
                UNCHANGED <<counted, cache, snap, watch, daemon, pc, op>>,
                \A i \in Ids \ stale' : db'[i] = db[i]
         PROVE  Coherent'
    <2>1. \A i : InFlight(i)' <=> InFlight(i)
      BY <1>13 DEF InFlight
    <2> QED
      BY <1>13, <2>1 DEF Coherent, CoherentAt, Agree, Alike, Shows
  <1>14. ASSUME NEW c \in Clis, CliStep(c)
         PROVE  Coherent'
    <2>1. ASSUME NEW b \in Bodies, CliStore(c, b)
          PROVE  Coherent'
      BY <1>13, <2>1 DEF CliStore, Foreign, insertMemoryRow, TypeOK, Table
    <2>2. ASSUME NEW b \in Bodies, CliUpdate(c, b)
          PROVE  Coherent'
      BY <1>13, <2>2 DEF CliUpdate, Foreign, updateMemoryRow, TypeOK, Table
    <2>3. ASSUME NEW i \in Ids, CliGet(c, i)
          PROVE  Coherent'
      BY <1>13, <2>3 DEF CliGet
    <2>4. ASSUME NEW i \in Ids, CliDelete(c, i)
          PROVE  Coherent'
      BY <1>13, <2>4 DEF CliDelete, Foreign, TypeOK, Table
    <2>5. ASSUME NEW S \in SUBSET used, CliFlush(c, S)
          PROVE  Coherent'
      <3>1. /\ db' = bumpTargeted(db, S, TRUE) /\ db \in Table
            /\ UNCHANGED <<cache, snap, watch, stale, counted, daemon, pc, op>>
        BY <2>5 DEF CliFlush, Foreign, TypeOK
      <3>2. \A i : InFlight(i)' <=> InFlight(i)
        BY <3>1 DEF InFlight
      <3>3. \A i \in Ids : /\ db'[i] = None <=> db[i] = None
                           /\ \A r : Agree(r, db[i]) => Agree(r, db'[i])
                           /\ \A r : Alike(r, db[i]) => Alike(r, db'[i])
        BY <3>1, AgreeBump
      <3> QED
        BY <3>1, <3>2, <3>3 DEF Coherent, CoherentAt, Shows
    <2> QED
      BY <1>14, <2>1, <2>2, <2>3, <2>4, <2>5 DEF CliStep
  <1>15. CASE UNCHANGED vars
    <2>1. \A i : InFlight(i)' <=> InFlight(i)
      BY <1>15 DEF InFlight, vars
    <2> QED
      BY <1>15, <2>1 DEF vars, Coherent, CoherentAt, Agree, Alike, Shows
  \* A count moves the metadata of one row, under writeMu.
  <1>16. ASSUME NEW p \in Procs, CountRow(p)
         PROVE  Coherent'
    <2>1. /\ pc[p] = "write" /\ op[p].kind = "count"
          /\ UNCHANGED <<cache, snap, watch, stale, daemon, pc, op>>
      BY <1>16 DEF CountRow
    <2>2. /\ \/ UNCHANGED <<db, counted>>
             \/ \E i \in Ids : /\ db[i] # None
                              /\ db' = [db EXCEPT ![i].meta = clock + 1]
                              /\ counted' = counted \cup {i}
          /\ db \in Table
      BY <1>16 DEF CountRow, TypeOK
    <2>3. watch # "swap" /\ \A q \in Procs : pc[q] \in Critical => q = p
      BY <2>1, OneHolder DEF Critical
    <2>4. \A i : InFlight(i)' <=> InFlight(i)
      BY <2>1 DEF InFlight
    <2>5. ASSUME NEW i \in Ids \ stale, daemon # "down"
          PROVE  CoherentAt(i)'
      <3>1. ~InFlight(i) /\ Shows(counted, i, cache[i], db[i])
        <4>1. ~InFlight(i)
          BY <2>1, <2>3 DEF InFlight, Critical
        <4> QED
          BY <2>3, <2>5, <4>1 DEF Coherent, CoherentAt
      <3>2. Shows(counted', i, cache'[i], db'[i])
        <4>1. CASE UNCHANGED <<db, counted>>
          BY <2>1, <3>1, <4>1
        <4>2. ASSUME NEW j \in Ids, db[j] # None,
                     db' = [db EXCEPT ![j].meta = clock + 1],
                     counted' = counted \cup {j}
              PROVE  Shows(counted', i, cache'[i], db'[i])
          <5>1. CASE i # j
            BY <2>1, <2>2, <3>1, <4>2, <5>1 DEF Shows, Table
          <5>2. CASE i = j
            <6>1. db[i] \in Row
              BY <2>2, <4>2, <5>2 DEF Table
            <6>2. db'[i] = [db[i] EXCEPT !.meta = clock + 1]
              BY <2>2, <4>2, <5>2 DEF Table
            <6>3. db'[i] \in Row
              BY <6>1, <6>2 DEF Row, TypeOK
            <6>4. /\ db'[i] # None /\ db'[i].ver = db[i].ver
                  /\ db'[i].body = db[i].body /\ db'[i].vec = db[i].vec
              BY <6>1, <6>2, <6>3, DataAssumption DEF Row
            <6> QED
              BY <2>1, <3>1, <4>2, <5>2, <6>4 DEF Shows, Alike
          <5> QED
            BY <5>1, <5>2
        <4> QED
          BY <2>2, <4>1, <4>2
      <3> QED
        BY <2>1, <2>3, <2>4, <3>1, <3>2 DEF CoherentAt, Critical
    <2> QED
      BY <2>1, <2>5 DEF Coherent
  <1>17. ASSUME NEW p \in Procs, CountDone(p)
         PROVE  Coherent'
    <2>1. \A i \in Ids : ~InFlight(i)
      BY <1>17, OneHolder DEF CountDone, InFlight, Critical
    <2>2. watch # "swap"
      BY <1>17, OneHolder DEF CountDone, Critical
    <2> QED
      BY <1>5, <1>17, <2>1, <2>2 DEF CountDone, Coherent, CoherentAt, Critical
  <1> QED
    BY <1>2, <1>3, <1>4, <1>6, <1>7, <1>8, <1>9, <1>10, <1>11, <1>12, <1>14,
       <1>15, <1>16, <1>17
    DEF Next, Write

-----------------------------------------------------------------------------
(* Fresh ids.                                                              *)

\* A row exists only under an id that was drawn, and the id Store draws is new.
LEMMA FreshStep ==
    ASSUME TypeOK, OpOK, LockOK, FreshIds, [Next]_vars
    PROVE  FreshIds'
  <1> USE DEF fileVars, procVars, watchVars, boundVars, ghostVars
  <1>1. ASSUME NEW w \in Writers, Request(w)
        PROVE  FreshIds'
    BY <1>1 DEF Request, BeginStore, BeginUpdate, BeginPlain, BeginCount, Begin, TypeOK,
                FreshIds, Live, Procs
  <1>2. ASSUME NEW p \in Procs, LockStore(p) \/ LockGet(p) \/ LockPlain(p)
        PROVE  FreshIds'
    BY <1>2 DEF LockStore, LockGet, LockPlain, TypeOK, OpOK, Op, FreshIds, Live
  <1>3. ASSUME NEW p \in Procs, InsertRow(p) \/ UpdateRow(p) \/ DeleteRow(p)
        PROVE  FreshIds'
    <2>1. \A q \in Procs : pc'[q] # "write"
      BY <1>3, OneHolder DEF InsertRow, UpdateRow, DeleteRow, Critical, TypeOK
    <2>2. Live(db') \subseteq used'
      BY <1>3 DEF InsertRow, UpdateRow, DeleteRow, insertMemoryRow,
                  updateMemoryRow, FreshIds, Live, TypeOK, Table
    <2> QED
      BY <2>1, <2>2 DEF FreshIds, Live
  <1>4. ASSUME NEW p \in Procs,
               WriteFails(p) \/ verifyMemoryPersisted(p) \/ Publish(p)
        PROVE  FreshIds'
    BY <1>4 DEF WriteFails, verifyMemoryPersisted, Publish, Unlock, TypeOK,
                FreshIds, Live
  <1>5. ASSUME NEW k \in Walkers, Walk(k)
        PROVE  FreshIds'
    BY <1>5 DEF Walk, WalkStart, WalkEmbed, Begin, TypeOK, FreshIds, Live, Procs
  <1>6. ASSUME FlushStep
        PROVE  FreshIds'
    <2>1. /\ UNCHANGED <<used, pc, op>>
          /\ db' = db \/ \E S, t : db' = bumpTargeted(db, S, t)
      BY <1>6 DEF FlushStep, flushCommit, flushPublish
    <2>2. \A i \in Ids : db'[i] = None <=> db[i] = None
      BY <2>1, AgreeBump DEF TypeOK
    <2> QED
      BY <2>1, <2>2 DEF FreshIds, Live, OpOK, Critical
  <1>7. ASSUME Watch \/ Daemon
        PROVE  FreshIds'
    BY <1>7 DEF Watch, WatchTick, ReloadQuery, ReloadSwap, ReloadFailsQuery,
                ReloadFailsScan, Daemon, StartLoad, StartWatch,
                StartWatchFails, Crash, FreshIds, Live
  <1>8. ASSUME NEW c \in Clis, CliStep(c)
        PROVE  FreshIds'
    <2>1. ASSUME NEW S, CliFlush(c, S)
          PROVE  FreshIds'
      <3>1. /\ db' = bumpTargeted(db, S, TRUE) /\ db \in Table
            /\ UNCHANGED <<used, pc, op>>
        BY <2>1 DEF CliFlush, Foreign, TypeOK
      <3>2. \A i \in Ids : db'[i] = None <=> db[i] = None
        BY <3>1, AgreeBump
      <3> QED
        BY <3>1, <3>2 DEF FreshIds, Live, OpOK, Critical
    <2>2. CASE \E b \in Bodies : CliStore(c, b)
      BY <2>2 DEF CliStore, Foreign, insertMemoryRow, FreshIds, Live, TypeOK,
                  Table
    <2>3. CASE \E b \in Bodies : CliUpdate(c, b)
      BY <2>3 DEF CliUpdate, Foreign, updateMemoryRow, FreshIds, Live, TypeOK,
                  Table
    <2>4. CASE \E i \in Ids : CliGet(c, i) \/ CliDelete(c, i)
      BY <2>4 DEF CliGet, CliDelete, Foreign, FreshIds, Live, TypeOK, Table
    <2> QED
      BY <1>8, <2>1, <2>2, <2>3, <2>4 DEF CliStep
  <1>9. CASE UNCHANGED vars
    BY <1>9 DEF vars, FreshIds, Live
  <1>10. ASSUME NEW p \in Procs, CountRow(p) \/ CountDone(p)
         PROVE  FreshIds'
    <2>1. CASE CountRow(p)
      <3>1. \A q \in Procs : pc'[q] = "write" => op'[q].kind = "count"
        BY <2>1, OneHolder DEF CountRow, Critical
      <3>2. Live(db') \subseteq used'
        BY <2>1 DEF CountRow, FreshIds, Live, TypeOK, Table
      <3> QED
        BY <3>1, <3>2 DEF FreshIds, Live
    <2>2. CASE CountDone(p)
      BY <2>2 DEF CountDone, Unlock, TypeOK, FreshIds, Live
    <2> QED
      BY <1>10, <2>1, <2>2
  <1> QED
    BY <1>1, <1>2, <1>3, <1>4, <1>5, <1>6, <1>7, <1>8, <1>9, <1>10
    DEF Next, Write

-----------------------------------------------------------------------------
(* Safety.                                                                 *)

\* IInv is inductive: the strengthening the theorems below rest on.
THEOREM Invariance == Spec => []IInv
  <1>1. Init => IInv
    BY InitType, ProcAssumption
    DEF Init, IInv, LockOK, DownOK, Coherent, FreshIds, Live, NoRows, Critical
  <1>2. IInv /\ [Next]_vars => IInv'
    BY TypeStep, LockStep, CoherentStep, FreshStep DEF IInv
  <1> QED
    BY <1>1, <1>2, PTL DEF Spec

\* With no write in flight the cache shows the file, outside the ids another
\* process wrote since the last reload, and but for the metadata of those
\* whose references were counted: what reloadForForeignWrite takes writeMu for.
THEOREM CacheFollowsFileHolds == Spec => []CacheFollowsFile
  <1>1. IInv => CacheFollowsFile
    <2> SUFFICES ASSUME IInv, daemon # "down", writeMu = None,
                        NEW i \in Ids \ stale
                 PROVE  Shows(counted, i, cache[i], db[i])
      BY DEF CacheFollowsFile
    <2>1. watch # "swap" /\ ~InFlight(i)
      BY ProcAssumption DEF IInv, LockOK, InFlight, Critical
    <2> QED
      BY <2>1 DEF IInv, Coherent, CoherentAt
  <1> QED
    BY <1>1, Invariance, PTL

\* The whole-row UPDATE of updateLocked and updateStoredEmbedding starts from
\* the row it replaces: inside the daemon no update is lost.
THEOREM UpdatesCurrentRowHolds == Spec => []UpdatesCurrentRow
  <1>1. IInv => UpdatesCurrentRow
    <2> SUFFICES ASSUME IInv, NEW p \in Procs, pc[p] = "write",
                        op[p].kind \in {"update", "touch", "reembed"},
                        op[p].id \notin stale
                 PROVE  Agree(op[p].row, db[op[p].id])
      BY DEF UpdatesCurrentRow
    <2>1. op[p].id \in Ids \ stale /\ daemon # "down"
      BY DEF IInv, OpOK, DownOK, Critical
    <2> QED
      BY <2>1 DEF IInv, Coherent, CoherentAt
  <1> QED
    BY <1>1, Invariance, PTL

-----------------------------------------------------------------------------
(* The targeted counter.                                                   *)

\* A flush never lowers a counter.
LEMMA BumpGrows ==
    ASSUME NEW t \in Table, NEW S, NEW b, NEW i \in Ids, t[i] # None
    PROVE  bumpTargeted(t, S, b)[i].tacc >= t[i].tacc
  BY DEF bumpTargeted, Table, Row

\* An UPDATE, from whatever struct, keeps the counter of the row.
LEMMA UpdateKeepsTargeted ==
    ASSUME NEW t \in Table, NEW j \in Ids, NEW r \in Row, NEW i \in Ids,
           t[i] # None
    PROVE  updateMemoryRow(t, j, r)[i].tacc = t[i].tacc
  BY DEF updateMemoryRow, Table, Row

\* targeted_access_count never rolls back: updateMemoryRow leaves it to
\* flushAccessStats, whoever saves the row and however old the struct.
THEOREM TargetedNeverRollsBackHolds == Spec => TargetedNeverRollsBack
  <1> USE DEF fileVars
  <1> DEFINE Grows == \A i \in Ids : db[i] # None /\ db'[i] # None
                                       => db'[i].tacc >= db[i].tacc
  <1>1. ASSUME IInv, [Next]_vars
        PROVE  Grows
    <2> SUFFICES ASSUME NEW i \in Ids, db[i] # None, db'[i] # None
                 PROVE  db'[i].tacc >= db[i].tacc
      OBVIOUS
    <2>1. db \in Table /\ db[i] \in Row /\ db[i].tacc \in Nat
      BY <1>1 DEF IInv, TypeOK, Table, Row
    <2>2. CASE db'[i] = db[i]
      BY <2>1, <2>2
    <2>3. CASE \E S, t : db' = bumpTargeted(db, S, t)
      BY <2>1, <2>3, BumpGrows
    <2>4. CASE \E j \in Ids, r \in Row : db' = updateMemoryRow(db, j, r)
      BY <2>1, <2>4, UpdateKeepsTargeted
    <2>5. ASSUME NEW p \in Procs, InsertRow(p)
          PROVE  db'[i] = db[i]
      BY <1>1, <2>1, <2>5 DEF InsertRow, insertMemoryRow, IInv, FreshIds, Table
    <2>6. ASSUME NEW p \in Procs, UpdateRow(p)
          PROVE  \E j \in Ids, r \in Row : db' = updateMemoryRow(db, j, r)
      BY <1>1, <2>6, StagedType DEF UpdateRow, IInv, OpOK, Critical
    <2>7. ASSUME NEW p \in Procs, DeleteRow(p)
          PROVE  db'[i] = db[i]
      BY <2>1, <2>7 DEF DeleteRow, Table
    <2>8. ASSUME NEW p \in Procs, Write(p),
                 ~(InsertRow(p) \/ UpdateRow(p) \/ DeleteRow(p) \/ CountRow(p))
          PROVE  db'[i] = db[i]
      BY <2>8 DEF Write, LockStore, LockGet, LockPlain, WriteFails,
                  verifyMemoryPersisted, Publish, CountDone
    <2>9. ASSUME NEW c \in Clis, CliStep(c)
          PROVE  \/ db'[i] = db[i]
                 \/ \E S, t : db' = bumpTargeted(db, S, t)
                 \/ \E j \in Ids, r \in Row : db' = updateMemoryRow(db, j, r)
      <3>1. ASSUME NEW b \in Bodies, CliStore(c, b)
            PROVE  db'[i] = db[i]
        BY <1>1, <2>1, <3>1 DEF CliStore, insertMemoryRow, IInv, FreshIds,
                                Live, Table
      <3>2. ASSUME NEW b \in Bodies, CliUpdate(c, b)
            PROVE  \E j \in Ids, r \in Row : db' = updateMemoryRow(db, j, r)
        <4>1. cli[c].id \in Ids /\ cli[c].row \in Row /\ clock \in Nat
          BY <1>1, <3>2 DEF CliUpdate, IInv, TypeOK
        <4>2. PICK v \in embedForWrite(b) :
                db' = updateMemoryRow(db, cli[c].id,
                        [ver |-> clock + 1, meta |-> clock + 1, body |-> b, vec |-> v,
                         tacc |-> cli[c].row.tacc])
          BY <3>2 DEF CliUpdate
        <4>3. [ver |-> clock + 1, meta |-> clock + 1, body |-> b, vec |-> v,
               tacc |-> cli[c].row.tacc] \in Row
          BY <4>1 DEF Row, embedForWrite
        <4> QED
          BY <4>1, <4>2, <4>3
      <3>3. ASSUME NEW j \in Ids, CliGet(c, j) \/ CliDelete(c, j)
            PROVE  db'[i] = db[i]
        BY <2>1, <3>3 DEF CliGet, CliDelete, Table
      <3>4. ASSUME NEW S, CliFlush(c, S)
            PROVE  \E R, t : db' = bumpTargeted(db, R, t)
        BY <3>4 DEF CliFlush
      <3> QED
        BY <2>9, <3>1, <3>2, <3>3, <3>4 DEF CliStep
    <2>10. ASSUME FlushStep
           PROVE  db'[i] = db[i] \/ \E S, t : db' = bumpTargeted(db, S, t)
      BY <2>10 DEF FlushStep, flushCommit, flushPublish
    <2>11. ASSUME \/ \E w \in Writers : Request(w)
                  \/ \E k \in Walkers : Walk(k)
                  \/ Watch \/ Daemon \/ UNCHANGED vars
           PROVE  db' = db
      BY <2>11 DEF Request, BeginStore, BeginUpdate, BeginPlain, BeginCount, Walk,
                   WalkStart, WalkEmbed, Watch, WatchTick, ReloadQuery,
                   ReloadSwap, ReloadFailsQuery, ReloadFailsScan, Daemon,
                   StartLoad, StartWatch, StartWatchFails, Crash, vars
    <2>12. ASSUME NEW p \in Procs, CountRow(p)
           PROVE  db'[i].tacc = db[i].tacc
      <3>1. db' = db \/ \E j \in Ids : db' = [db EXCEPT ![j].meta = clock + 1]
        BY <1>1, <2>12 DEF CountRow, IInv, TypeOK
      <3> QED
        BY <2>1, <3>1 DEF Table, Row
    <2>13. CASE db'[i].tacc = db[i].tacc
      BY <2>1, <2>13
    <2> QED
      BY <1>1, <2>2, <2>3, <2>4, <2>5, <2>6, <2>7, <2>8, <2>9, <2>10, <2>11,
         <2>12, <2>13
      DEF Next
  <1>2. ASSUME IInv, [Next]_vars
        PROVE  [Grows]_vars
    BY <1>1, <1>2
  <1> QED
    BY <1>2, Invariance, PTL DEF Spec, TargetedNeverRollsBack

-----------------------------------------------------------------------------
(* MemoryStore implements DerivedView.                                     *)

\* Entries that agree show the same version; the counters do not show.
LEMMA StripAgree ==
    ASSUME NEW a, NEW b, Alike(a, b)
    PROVE  Strip(a) = Strip(b)
  BY DEF Alike, Strip

\* The version a row shows is a version.
LEMMA StripType ==
    ASSUME NEW r \in Row \cup {None}
    PROVE  Strip(r) \in Versions \cup {None}
  BY DataAssumption DEF Strip, Row, Versions

\* A table that differs from t at most at i shows a view that does so too.
LEMMA ViewChange ==
    ASSUME NEW t, NEW u \in Table, NEW i,
           \A j \in Ids \ {i} : u[j] = t[j]
    PROVE  View!ChangesOnly(i, [j \in Ids |-> Strip(t[j])],
                               [j \in Ids |-> Strip(u[j])])
  <1>1. \A j \in Ids : Strip(u[j]) \in Versions \cup {None}
    BY StripType DEF Table
  <1> QED
    BY <1>1 DEF View!ChangesOnly, View!Version

\* What writeMu says about the commit in flight.
LEMMA InflightIs ==
    ASSUME LockOK, NEW p \in Procs, pc[p] \in Critical
    PROVE  /\ writeMu = p /\ watch # "swap"
           /\ viewInflight = IF pc[p] \in {"verify", "publish"} THEN op[p].id
                                                               ELSE None
           /\ viewDoubt = stale
  BY OneHolder DEF LockOK, viewInflight, viewDoubt, Critical

\* InsertRow, UpdateRow and DeleteRow, under writeMu, are Commit of the view.
LEMMA CommitRefines ==
    ASSUME IInv, IInv', NEW p \in Procs,
           InsertRow(p) \/ UpdateRow(p) \/ DeleteRow(p)
    PROVE  View!Commit(op[p].id)
  <1> USE DEF fileVars, procVars, watchVars, boundVars, ghostVars
  <1>1. /\ pc[p] = "write" /\ op[p].id \in Ids /\ op[p] \in Op
        /\ pc'[p] \in {"verify", "publish"} /\ op'[p].id = op[p].id
        /\ UNCHANGED <<cache, watch, stale, daemon>>
    BY DEF InsertRow, UpdateRow, DeleteRow, IInv, OpOK, Critical, TypeOK, Op
  <1>2. viewInflight = None /\ viewDoubt = stale
    BY <1>1, InflightIs DEF IInv, Critical
  <1>3. viewInflight' = op[p].id /\ viewDoubt' = stale'
    <2>1. writeMu' = p
      BY <1>1 DEF IInv, LockOK, Critical
    <2>2. watch # "swap"
      BY <1>1, OneHolder DEF IInv, Critical
    <2> QED
      BY <1>1, <2>1, <2>2 DEF viewInflight, viewDoubt
  <1>4. View!ChangesOnly(op[p].id, viewFile, viewFile')
    <2>1. \A j \in Ids \ {op[p].id} : db'[j] = db[j]
      BY <1>1 DEF InsertRow, UpdateRow, DeleteRow, insertMemoryRow,
                  updateMemoryRow, IInv, TypeOK, Table
    <2> QED
      BY <2>1, ViewChange DEF viewFile, IInv, TypeOK
  <1>5. daemon # "down"
    BY <1>1 DEF IInv, DownOK
  <1> QED
    BY <1>1, <1>2, <1>3, <1>4, <1>5 DEF View!Commit, viewCache

\* The view of a table does not change when a flush bumps its counters.
LEMMA BumpInvisible ==
    ASSUME NEW t \in Table, NEW S, NEW b
    PROVE  [i \in Ids |-> Strip(bumpTargeted(t, S, b)[i])]
             = [i \in Ids |-> Strip(t[i])]
  <1>1. ASSUME NEW i \in Ids
        PROVE  Strip(bumpTargeted(t, S, b)[i]) = Strip(t[i])
    <2>1. Alike(t[i], t[i])
      BY DEF Alike
    <2> QED
      BY <2>1, AgreeBump, StripAgree
  <1> QED
    BY <1>1

\* cacheSetLocked and cacheDeleteLocked, under writeMu, are Publish of the view.
LEMMA PublishRefines ==
    ASSUME IInv, IInv', NEW p \in Procs, verifyMemoryPersisted(p) \/ Publish(p)
    PROVE  View!Publish \/ UNCHANGED View!vars
  <1> USE DEF fileVars, procVars, watchVars, boundVars, ghostVars
  <1>1. /\ pc[p] \in {"verify", "publish"} /\ op[p].id \in Ids
        /\ UNCHANGED <<db, watch, stale, daemon>>
    BY DEF verifyMemoryPersisted, Publish, IInv, OpOK, Critical
  <1>2. /\ viewInflight = op[p].id /\ viewDoubt = stale
        /\ watch # "swap" /\ daemon # "down" /\ writeMu = p
    BY <1>1, InflightIs DEF IInv, Critical, DownOK
  <1>3. viewDoubt' = viewDoubt /\ viewFile' = viewFile
    BY <1>1 DEF viewDoubt, viewFile
  <1>4. viewInflight # None
    BY <1>1, <1>2, DataAssumption
  <1>5. CASE Publish(p)
    <2>1. /\ viewInflight' = None
          /\ cache' = [cache EXCEPT ![op[p].id] =
                         IF op[p].kind = "delete" THEN None ELSE op[p].row]
      BY <1>5, ProcAssumption DEF Publish, Unlock, viewInflight
    <2>2. View!ChangesOnly(op[p].id, viewCache, viewCache')
      <3>1. \A j \in Ids \ {op[p].id} : cache'[j] = cache[j]
        BY <2>1 DEF IInv, TypeOK, Table
      <3> QED
        BY <3>1, ViewChange DEF viewCache, IInv, TypeOK
    <2>3. ASSUME op[p].id \notin stale
          PROVE  viewCache'[op[p].id] = viewFile[op[p].id]
      <3>1. /\ op[p].kind = "delete" => db[op[p].id] = None
            /\ op[p].kind # "delete" => Agree(op[p].row, db[op[p].id])
        BY <1>1, <1>2, <1>5, <2>3 DEF Publish, IInv, Coherent, CoherentAt
      <3>2. Agree(cache'[op[p].id], db[op[p].id])
        BY <1>1, <2>1, <3>1 DEF Agree, Alike, Shows, IInv, TypeOK, Table
      <3> QED
        BY <1>1, <3>2, StripAgree DEF viewCache, viewFile, Agree
    <2> QED
      BY <1>1, <1>2, <1>3, <1>4, <2>1, <2>2, <2>3 DEF View!Publish
  <1>6. CASE verifyMemoryPersisted(p) /\ db[op[p].id] # None
    <2>1. viewInflight' = viewInflight /\ viewCache' = viewCache
      BY <1>1, <1>2, <1>6 DEF verifyMemoryPersisted, viewInflight, viewCache,
                              IInv, TypeOK
    <2> QED
      BY <1>1, <1>3, <2>1 DEF View!vars
  <1>7. CASE verifyMemoryPersisted(p) /\ db[op[p].id] = None
    <2>1. viewInflight' = None /\ viewCache' = viewCache /\ pc[p] = "verify"
      BY <1>7, ProcAssumption DEF verifyMemoryPersisted, Unlock, viewInflight,
                                  viewCache
    <2>2. View!ChangesOnly(op[p].id, viewCache, viewCache')
      <3>1. \A j \in Ids \ {op[p].id} : cache'[j] = cache[j]
        BY <1>7 DEF verifyMemoryPersisted
      <3> QED
        BY <3>1, ViewChange DEF viewCache, IInv, TypeOK
    <2>3. op[p].id \in stale
      <3>1. op[p].kind = "store" /\ op[p].row \in Row
        BY <2>1 DEF IInv, OpOK
      <3> QED
        BY <1>1, <1>2, <1>7, <3>1, DataAssumption DEF IInv, Coherent,
                                                      CoherentAt, Agree, Alike
    <2> QED
      BY <1>1, <1>2, <1>3, <1>4, <2>1, <2>2, <2>3 DEF View!Publish
  <1> QED
    BY <1>5, <1>6, <1>7

\* The SELECT of a reload is Suspect, its swap is Reload, whole or cut short.
LEMMA WatchRefines ==
    ASSUME IInv, IInv', Watch
    PROVE  View!Next \/ UNCHANGED View!vars
  <1> USE DEF fileVars, procVars, watchVars, boundVars, ghostVars
  <1>1. CASE WatchTick \/ ReloadFailsQuery
    BY <1>1 DEF WatchTick, ReloadFailsQuery, View!vars, viewFile, viewCache,
                viewDoubt, viewInflight
  <1>2. ASSUME watch = "lock" \/ watch = "swap"
        PROVE  daemon # "down"
    BY <1>2 DEF IInv, DownOK
  <1>3. CASE ReloadQuery
    <2>1. viewInflight = None /\ viewInflight' = None
      BY <1>3, ProcAssumption DEF ReloadQuery, viewInflight
    <2>2. viewDoubt' = Ids /\ viewFile' = viewFile /\ viewCache' = viewCache
      BY <1>3 DEF ReloadQuery, viewDoubt, viewFile, viewCache
    <2> QED
      BY <1>2, <1>3, <2>1, <2>2 DEF ReloadQuery, View!Suspect, View!Next
  <1>4. CASE ReloadSwap \/ ReloadFailsScan
    <2>1. watch = "swap" /\ watch' = "idle" /\ UNCHANGED <<db, daemon>>
      BY <1>4 DEF ReloadSwap, ReloadFailsScan
    <2>2. viewInflight = None /\ viewInflight' = None
      BY <1>4, <2>1, ProcAssumption DEF ReloadSwap, ReloadFailsScan,
                                        viewInflight, IInv, LockOK
    <2>3. viewDoubt' = stale' /\ viewFile' = viewFile
      BY <2>1 DEF viewDoubt, viewFile
    <2>4. viewCache' \in [Ids -> View!Version]
      <3>1. cache' \in Table
        BY DEF IInv, TypeOK
      <3> QED
        BY <3>1, StripType DEF viewCache, View!Version, Table
    <2>5. ASSUME NEW i \in Ids \ stale'
          PROVE  viewCache'[i] = viewFile[i]
      <3>1. ReloadSwap
        BY <1>4, <2>5 DEF ReloadFailsScan
      <3>2. Agree(cache'[i], db[i])
        BY <1>2, <2>1, <2>5, <3>1 DEF ReloadSwap, IInv, Coherent, CoherentAt
      <3> QED
        BY <3>2, StripAgree DEF viewCache, viewFile, Agree
    <2>6. stale' \in SUBSET Ids
      BY DEF IInv, TypeOK
    <2>7. View!Reload(stale')
      BY <1>2, <2>1, <2>2, <2>3, <2>4, <2>5 DEF View!Reload
    <2> QED
      BY <2>6, <2>7 DEF View!Next
  <1> QED
    BY <1>1, <1>3, <1>4 DEF Watch

\* A commit of a CLI process is Foreign, or invisible when it changes no row.
LEMMA CliRefines ==
    ASSUME IInv, IInv', NEW c \in Clis, CliStep(c)
    PROVE  View!Next \/ UNCHANGED View!vars
  <1> USE DEF fileVars, procVars, watchVars, boundVars, ghostVars
  <1>1. UNCHANGED <<cache, writeMu, pc, op, watch, daemon>>
    BY DEF CliStep, CliStore, CliGet, CliUpdate, CliDelete, CliFlush, Foreign
  <1>2. /\ viewCache' = viewCache /\ viewInflight' = viewInflight
    BY <1>1 DEF viewCache, viewInflight
  <1>3. ASSUME NEW i \in Ids, stale' = stale \cup {i},
               \A j \in Ids \ {i} : db'[j] = db[j]
        PROVE  View!Foreign(i)
    <2>1. viewDoubt' = viewDoubt \cup {i}
      BY <1>1, <1>3 DEF viewDoubt
    <2>2. View!ChangesOnly(i, viewFile, viewFile')
      BY <1>3, ViewChange DEF viewFile, IInv, TypeOK
    <2> QED
      BY <1>1, <1>2, <2>1, <2>2 DEF View!Foreign
  <1>4. ASSUME viewFile' = viewFile, stale' = stale
        PROVE  UNCHANGED View!vars
    BY <1>1, <1>2, <1>4 DEF View!vars, viewDoubt
  <1>5. ASSUME NEW b \in Bodies, CliStore(c, b)
        PROVE  View!Next
    <2>1. PICK i \in Ids : stale' = stale \cup {i} /\ \A j \in Ids \ {i} : db'[j] = db[j]
      BY <1>5 DEF CliStore, Foreign, insertMemoryRow, IInv, TypeOK, Table
    <2> QED
      BY <1>3, <2>1 DEF View!Next
  <1>6. ASSUME NEW b \in Bodies, CliUpdate(c, b)
        PROVE  View!Next \/ UNCHANGED View!vars
    <2>1. cli[c].id \in Ids
      BY <1>6 DEF CliUpdate, IInv, TypeOK
    <2>2. CASE db[cli[c].id] = None
      BY <1>4, <1>6, <2>2 DEF CliUpdate, updateMemoryRow, viewFile
    <2>3. CASE db[cli[c].id] # None
      <3>1. /\ stale' = stale \cup {cli[c].id}
            /\ \A j \in Ids \ {cli[c].id} : db'[j] = db[j]
        BY <1>6, <2>3 DEF CliUpdate, Foreign, updateMemoryRow, IInv, TypeOK,
                          Table
      <3> QED
        BY <1>3, <2>1, <3>1 DEF View!Next
    <2> QED
      BY <2>2, <2>3
  <1>7. ASSUME NEW i \in Ids, CliGet(c, i)
        PROVE  UNCHANGED View!vars
    BY <1>4, <1>7 DEF CliGet, viewFile
  <1>8. ASSUME NEW i \in Ids, CliDelete(c, i)
        PROVE  View!Next
    <2>1. stale' = stale \cup {i} /\ \A j \in Ids \ {i} : db'[j] = db[j]
      BY <1>8 DEF CliDelete, Foreign, IInv, TypeOK, Table
    <2> QED
      BY <1>3, <2>1 DEF View!Next
  <1>9. ASSUME NEW S, CliFlush(c, S)
        PROVE  UNCHANGED View!vars
    <2>1. db' = bumpTargeted(db, S, TRUE) /\ db \in Table /\ stale' = stale
      BY <1>9 DEF CliFlush, Foreign, IInv, TypeOK
    <2>2. ASSUME NEW i \in Ids
          PROVE  Strip(db'[i]) = Strip(db[i])
      <3>1. Alike(db[i], db[i])
        BY DEF Alike
      <3>2. Alike(db[i], db'[i])
        BY <2>1, <3>1, AgreeBump
      <3> QED
        BY <3>2, StripAgree
    <2>3. viewFile' = viewFile
      BY <2>2 DEF viewFile
    <2> QED
      BY <1>4, <2>1, <2>3
  <1> QED
    BY <1>5, <1>6, <1>7, <1>8, <1>9 DEF CliStep

\* What happens before a commit, outside writeMu or in the counters is
\* invisible in the view.
LEMMA QuietRefines ==
    ASSUME IInv, IInv',
           \/ \E w \in Writers : Request(w)
           \/ \E k \in Walkers : Walk(k)
           \/ \E p \in Procs : \/ LockStore(p) \/ LockGet(p) \/ LockPlain(p)
                               \/ WriteFails(p)
                               \/ CountRow(p) \/ CountDone(p)
           \/ FlushStep
           \/ StartWatch \/ StartWatchFails
           \/ UNCHANGED vars
    PROVE  UNCHANGED View!vars
  <1> USE DEF fileVars, procVars, watchVars, boundVars, ghostVars
  <1>1. UNCHANGED <<stale, daemon # "down">> /\ viewDoubt' = viewDoubt
    BY DEF Request, BeginStore, BeginUpdate, BeginPlain, BeginCount, Walk, WalkStart,
           WalkEmbed, LockStore, LockGet, LockPlain, WriteFails, CountRow,
           CountDone, FlushStep, flushCommit, flushPublish, StartWatch,
           StartWatchFails, vars, viewDoubt, IInv, DownOK
  <1>2. viewFile' = viewFile /\ viewCache' = viewCache
    <2>1. CASE FlushStep
      BY <2>1, BumpInvisible DEF FlushStep, flushCommit, flushPublish,
                                 viewFile, viewCache, IInv, TypeOK
    <2>2. CASE UNCHANGED <<db, cache>>
      BY <2>2 DEF viewFile, viewCache
    <2>3. ASSUME NEW p \in Procs, CountRow(p)
          PROVE  viewFile' = viewFile /\ viewCache' = viewCache
      <3>1. cache' = cache /\ db \in Table
        BY <2>3 DEF CountRow, IInv, TypeOK
      <3>2. db' = db \/ \E j \in Ids : /\ db[j] # None
                                       /\ db' = [db EXCEPT ![j].meta = clock + 1]
        BY <2>3 DEF CountRow, IInv, TypeOK
      <3>3. ASSUME NEW i \in Ids
            PROVE  Strip(db'[i]) = Strip(db[i])
        <4>1. CASE db'[i] = db[i]
          BY <4>1
        <4>2. CASE db'[i] # db[i]
          <5>1. db[i] # None /\ db'[i] = [db[i] EXCEPT !.meta = clock + 1]
            BY <3>1, <3>2, <4>2 DEF Table
          <5>2. db[i] \in Row /\ clock \in Nat
            BY <3>1, <5>1 DEF Table, IInv, TypeOK
          <5>3. /\ db'[i] \in Row /\ db'[i].ver = db[i].ver
                /\ db'[i].body = db[i].body /\ db'[i].vec = db[i].vec
            BY <5>1, <5>2 DEF Row
          <5> QED
            BY <5>1, <5>3, DataAssumption DEF Strip
        <4> QED
          BY <4>1, <4>2
      <3> QED
        BY <3>1, <3>3 DEF viewFile, viewCache
    <2>4. ASSUME NEW p \in Procs, CountDone(p)
          PROVE  UNCHANGED <<db, cache>>
      BY <2>4 DEF CountDone
    <2> QED
      BY <2>1, <2>2, <2>3, <2>4 DEF Request, BeginStore, BeginUpdate, BeginPlain,
           BeginCount, Walk,
           WalkStart, WalkEmbed, LockStore, LockGet, LockPlain, WriteFails,
           StartWatch, StartWatchFails, vars
  <1>3. viewInflight' = viewInflight
    <2>1. ASSUME NEW p \in Procs,
                 LockStore(p) \/ LockGet(p) \/ LockPlain(p) \/ WriteFails(p)
          PROVE  viewInflight = None /\ viewInflight' = None
      BY <2>1, ProcAssumption DEF LockStore, LockGet, LockPlain, WriteFails,
                                  Unlock, viewInflight, IInv, LockOK, TypeOK,
                                  Critical
    <2>2. ASSUME NEW p \in Procs, pc[p] = "idle",
                 \A q \in Procs \ {p} : pc'[q] = pc[q] /\ op'[q] = op[q],
                 pc'[p] \in {"idle", "lock"}, UNCHANGED writeMu
          PROVE  viewInflight' = viewInflight
      BY <2>2 DEF viewInflight
    <2>3. ASSUME NEW w \in Writers, Request(w)
          PROVE  viewInflight' = viewInflight
      BY <2>2, <2>3 DEF Request, BeginStore, BeginUpdate, BeginPlain, BeginCount, Begin,
                        Procs, IInv, TypeOK
    <2>4. ASSUME NEW k \in Walkers, Walk(k)
          PROVE  viewInflight' = viewInflight
      BY <2>2, <2>4 DEF Walk, WalkStart, WalkEmbed, Begin, Procs, IInv, TypeOK
    <2>5. CASE FlushStep \/ StartWatch \/ StartWatchFails \/ UNCHANGED vars
      BY <2>5 DEF FlushStep, flushCommit, flushPublish, StartWatch,
                  StartWatchFails, vars, viewInflight
    <2>6. ASSUME NEW p \in Procs, CountRow(p)
          PROVE  viewInflight' = viewInflight
      BY <2>6 DEF CountRow, viewInflight
    <2>7. ASSUME NEW p \in Procs, CountDone(p)
          PROVE  viewInflight = None /\ viewInflight' = None
      BY <2>7, ProcAssumption DEF CountDone, Unlock, viewInflight, IInv, LockOK,
                                  TypeOK, Critical
    <2> QED
      BY <2>1, <2>3, <2>4, <2>5, <2>6, <2>7
  <1> QED
    BY <1>1, <1>2, <1>3 DEF View!vars

\* NewStore is Start, the start of the watcher is invisible, a crash is Stop.
LEMMA StartStopRefines ==
    ASSUME IInv, IInv', StartLoad \/ Crash
    PROVE  View!Next
  <1> USE DEF fileVars, procVars, watchVars, boundVars, ghostVars
  <1>1. CASE StartLoad
    <2>1. /\ daemon = "down" /\ daemon' # "down"
          /\ viewCache' = viewFile /\ viewFile' = viewFile
          /\ viewInflight' = viewInflight
      BY <1>1 DEF StartLoad, viewCache, viewFile, viewInflight
    <2>2. viewDoubt' = {}
      BY <1>1 DEF StartLoad, viewDoubt, IInv, DownOK
    <2> QED
      BY <2>1, <2>2 DEF View!Start, View!Next
  <1>2. CASE Crash
    <2>1. /\ daemon # "down" /\ daemon' = "down" /\ viewFile' = viewFile
          /\ viewDoubt' = {}
      BY <1>2 DEF Crash, viewFile, viewDoubt
    <2>2. viewInflight' = None
      BY <1>2, ProcAssumption DEF Crash, viewInflight
    <2>3. viewCache' = View!Empty
      <3>1. \A i \in Ids : Strip(cache'[i]) = None
        BY <1>2 DEF Crash, NoRows, Strip
      <3> QED
        BY <3>1 DEF viewCache, View!Empty
    <2> QED
      BY <2>1, <2>2, <2>3 DEF View!Stop, View!Next
  <1> QED
    BY <1>1, <1>2

\* The store implements the view it promises: a write is durable before it is
\* visible, one at a time, and only ids another process wrote are in doubt.
THEOREM StoreImplementsView == Spec => ImplementsView
  <1>1. Init => View!Init
    BY ProcAssumption
    DEF Init, View!Init, viewFile, viewCache, viewDoubt, viewInflight,
        View!Empty, NoRows, Strip
  <1>2. IInv /\ IInv' /\ [Next]_vars => [View!Next]_(View!vars)
    <2> SUFFICES ASSUME IInv, IInv', [Next]_vars
                 PROVE  View!Next \/ UNCHANGED View!vars
      OBVIOUS
    <2>1. ASSUME NEW p \in Procs, InsertRow(p) \/ UpdateRow(p) \/ DeleteRow(p)
          PROVE  View!Next
      <3>1. op[p].id \in Ids
        BY <2>1 DEF InsertRow, UpdateRow, DeleteRow, IInv, OpOK, Critical
      <3> QED
        BY <2>1, <3>1, CommitRefines DEF View!Next
    <2>2. ASSUME NEW p \in Procs, verifyMemoryPersisted(p) \/ Publish(p)
          PROVE  View!Next \/ UNCHANGED View!vars
      BY <2>2, PublishRefines DEF View!Next
    <2> QED
      BY <2>1, <2>2, QuietRefines, WatchRefines, CliRefines, StartStopRefines
      DEF Next, Write, Daemon
  <1> QED
    BY <1>1, <1>2, Invariance, PTL DEF Spec, ImplementsView, View!Spec


-----------------------------------------------------------------------------
(* Foreign writes and vectors: what holds where a fault, or the re-embed   *)
(* walk, is left out.                                                      *)

\* A daemon that has loaded and not yet read its baseline doubts nothing and
\* counts nothing, and afterwards a doubt is always accompanied by a sign of
\* the commit.
Noticed ==
    /\ ForeignWriteIsPending
    /\ daemon = "loaded" => stale = {} /\ counted = {}
    /\ \A p \in Procs : pc[p] # "idle" /\ op[p].kind = "count" => daemon = "up"

\* As long as the watcher starts, no reload fails and nothing is committed
\* between load and baseline, every foreign commit the cache does not show is
\* noticed: exactly the three faults WatchForeignWrites does not provide for.
THEOREM ForeignWriteIsPendingHolds ==
    ASSUME Faults \cap {"watch_fails", "reload_fails", "startup_commit"} = {}
    PROVE  Spec => []ForeignWriteIsPending
  <1> USE DEF fileVars, procVars, watchVars, boundVars, ghostVars
  <1>1. Init => Noticed
    BY DEF Init, Noticed, ForeignWriteIsPending
  <1>2. ASSUME IInv, Noticed, [Next]_vars
        PROVE  Noticed'
    <2> USE DEF Noticed, ForeignWriteIsPending
    <2>1. ASSUME NEW w \in Writers, Request(w)
          PROVE  Noticed'
      <3>1. /\ UNCHANGED <<daemon, watch, stale, counted, changed>>
            /\ daemon = "up"
        <4>1. ASSUME NEW b \in Bodies, BeginStore(w, b)
              PROVE  UNCHANGED <<daemon, watch, stale, counted, changed>>
                     /\ daemon = "up"
          BY <4>1 DEF BeginStore
        <4>2. ASSUME NEW i \in Ids, NEW b \in Bodies, BeginUpdate(w, i, b)
              PROVE  UNCHANGED <<daemon, watch, stale, counted, changed>>
                     /\ daemon = "up"
          BY <4>2 DEF BeginUpdate
        <4>3. ASSUME NEW i \in Ids, NEW k, BeginPlain(w, i, k)
              PROVE  UNCHANGED <<daemon, watch, stale, counted, changed>>
                     /\ daemon = "up"
          BY <4>3 DEF BeginPlain
        <4>4. ASSUME NEW S, BeginCount(w, S)
              PROVE  UNCHANGED <<daemon, watch, stale, counted, changed>>
                     /\ daemon = "up"
          BY <4>4 DEF BeginCount
        <4> QED
          BY <2>1, <4>1, <4>2, <4>3, <4>4 DEF Request
      <3> QED
        BY <1>2, <3>1
    <2>2. ASSUME NEW k \in Walkers, Walk(k)
          PROVE  Noticed'
      <3>1. UNCHANGED <<daemon, watch, stale, counted, changed>>
        BY <2>2 DEF Walk, WalkStart, WalkEmbed
      <3>2. \A p \in Procs : \/ pc'[p] = pc[p] /\ op'[p] = op[p]
                            \/ op'[p].kind = "reembed"
        BY <1>2, <2>2 DEF Walk, WalkStart, WalkEmbed, Begin, IInv, TypeOK
      <3> QED
        BY <1>2, <3>1, <3>2
    <2>3. ASSUME NEW p \in Procs, Write(p)
          PROVE  Noticed'
      <3>0. /\ pc \in [Procs -> {"idle", "lock", "write", "verify", "publish"}]
            /\ op \in [Procs -> Op \cup {None}]
            /\ pc[p] # "idle" /\ op[p] \in Op
        BY <1>2, <2>3 DEF Write, LockStore, LockGet, LockPlain, InsertRow,
                          UpdateRow, DeleteRow, CountRow, CountDone, WriteFails,
                          verifyMemoryPersisted, Publish, IInv, TypeOK, OpOK
      <3>1. CASE CountRow(p)
        <4>1. daemon = "up"
          BY <1>2, <3>0, <3>1 DEF CountRow
        <4>2. UNCHANGED <<pc, op, daemon, watch, stale>>
          BY <3>1 DEF CountRow
        <4>3. UNCHANGED <<changed, counted>> \/ changed' = TRUE
          BY <3>1 DEF CountRow
        <4> QED
          BY <1>2, <4>1, <4>2, <4>3
      <3>2. CASE LockStore(p) \/ LockGet(p) \/ InsertRow(p) \/ UpdateRow(p)
        <4>1. /\ UNCHANGED <<daemon, watch, stale, counted>>
              /\ changed => changed'
          BY <1>2, <3>2 DEF LockStore, LockGet, InsertRow, UpdateRow, IInv, TypeOK
        <4>2. \A q \in Procs \ {p} : pc'[q] = pc[q] /\ op'[q] = op[q]
          BY <3>0, <3>2 DEF LockStore, LockGet, InsertRow, UpdateRow
        <4>3. pc'[p] = "idle" \/ op'[p].kind = op[p].kind
          BY <3>0, <3>2 DEF LockStore, LockGet, InsertRow, UpdateRow, Op
        <4>4. ASSUME NEW q \in Procs, pc'[q] # "idle", op'[q].kind = "count"
              PROVE  daemon' = "up"
          BY <1>2, <3>0, <4>1, <4>2, <4>3, <4>4
        <4> QED
          BY <1>2, <4>1, <4>4
      <3>3. CASE \/ LockPlain(p) \/ DeleteRow(p) \/ CountDone(p)
                 \/ WriteFails(p) \/ verifyMemoryPersisted(p) \/ Publish(p)
        <4>1. /\ UNCHANGED <<daemon, watch, stale>> /\ counted' \subseteq counted
              /\ changed => changed'
          BY <1>2, <3>3 DEF LockPlain, DeleteRow, CountDone, WriteFails,
                            verifyMemoryPersisted, Publish, IInv, TypeOK
        <4>2. \A q \in Procs \ {p} : pc'[q] = pc[q] /\ op'[q] = op[q]
          BY <3>0, <3>3 DEF LockPlain, DeleteRow, CountDone, WriteFails,
                            verifyMemoryPersisted, Publish, Unlock
        <4>3. pc'[p] = "idle" \/ op' = op
          BY <3>0, <3>3 DEF LockPlain, DeleteRow, CountDone, WriteFails,
                            verifyMemoryPersisted, Publish, Unlock
        <4>4. ASSUME NEW q \in Procs, pc'[q] # "idle", op'[q].kind = "count"
              PROVE  daemon' = "up"
          BY <1>2, <3>0, <4>1, <4>2, <4>3, <4>4
        <4> QED
          BY <1>2, <4>1, <4>4
      <3> QED
        BY <2>3, <3>1, <3>2, <3>3 DEF Write
    <2>4. CASE FlushStep
      BY <1>2, <2>4 DEF FlushStep, flushCommit, flushPublish
    <2>5. CASE Watch
      BY <1>2, <2>5 DEF Watch, WatchTick, ReloadQuery, ReloadSwap,
                        ReloadFailsQuery, ReloadFailsScan
    <2>6. CASE Daemon
      <3>1. CASE StartLoad \/ Crash
        BY <1>2, <3>1 DEF StartLoad, Crash, IInv, DownOK
      <3>2. CASE StartWatch \/ StartWatchFails
        BY <1>2, <3>2 DEF StartWatch, StartWatchFails
      <3> QED
        BY <2>6, <3>1, <3>2 DEF Daemon
    <2>7. ASSUME NEW c \in Clis, CliStep(c)
          PROVE  Noticed'
      <3>1. ASSUME NEW S, Foreign(S)
            PROVE  Noticed'
        BY <1>2, <3>1 DEF Foreign
      <3>2. CASE \E b \in Bodies : CliStore(c, b)
        BY <3>1, <3>2 DEF CliStore
      <3>3. CASE \E b \in Bodies : CliUpdate(c, b)
        BY <1>2, <3>1, <3>3 DEF CliUpdate
      <3>4. CASE \E i \in Ids : CliGet(c, i) \/ CliDelete(c, i)
        BY <1>2, <3>1, <3>4 DEF CliGet, CliDelete
      <3>5. CASE \E S \in SUBSET used : CliFlush(c, S)
        BY <3>1, <3>5 DEF CliFlush
      <3> QED
        BY <2>7, <3>2, <3>3, <3>4, <3>5 DEF CliStep
    <2>8. CASE UNCHANGED vars
      BY <1>2, <2>8 DEF vars
    <2> QED
      BY <1>2, <2>1, <2>2, <2>3, <2>4, <2>5, <2>6, <2>7, <2>8 DEF Next
  <1>3. Noticed => ForeignWriteIsPending
    BY DEF Noticed
  <1> QED
    BY <1>1, <1>2, <1>3, Invariance, PTL DEF Spec

\* The row r carries no vector but that of its body.
OwnVector(r) == r = None \/ r.vec \in {None, r.body}

\* The text and vector a write has embedded, and the row it has read or built,
\* belong together; nothing is re-embedded.
Embedded ==
    \A p \in Procs : pc[p] # "idle" =>
      /\ op[p].kind \in WriterKinds
      /\ op[p].kind \in {"store", "update"} => op[p].vec \in {None, op[p].body}
      /\ OwnVector(op[p].row)

Paired == VectorOfItsBody /\ Embedded

\* The row a write builds carries the vector of its body.
LEMMA StagedPaired ==
    ASSUME TypeOK, OpOK, Paired, NEW p \in Procs, pc[p] = "write",
           op[p].kind \notin {"delete", "count"}
    PROVE  Staged(op[p]).vec \in {None, Staged(op[p]).body}
  <1>1. CASE op[p].kind \in {"store", "update"}
    BY <1>1 DEF Staged, Paired, Embedded
  <1>2. CASE op[p].kind = "touch"
    <2>1. op[p].row # None /\ OwnVector(op[p].row)
      BY <1>2, DataAssumption DEF OpOK, Paired, Embedded, Critical
    <2> QED
      BY <1>2, <2>1 DEF Staged, OwnVector
  <1> QED
    BY <1>1, <1>2 DEF Paired, Embedded, WriterKinds

\* Tables whose rows carry their own vectors keep doing so.
LEMMA PairedTables ==
    ASSUME NEW t \in Table, \A i \in Ids : OwnVector(t[i])
    PROVE  /\ \A S, b : \A i \in Ids : OwnVector(bumpTargeted(t, S, b)[i])
           /\ \A r \in Row, j \in Ids : OwnVector(r) =>
                \A i \in Ids : /\ OwnVector(updateMemoryRow(t, j, r)[i])
                               /\ OwnVector(insertMemoryRow(t, j, r)[i])
  <1>1. ASSUME NEW S, NEW b, NEW i \in Ids
        PROVE  OwnVector(bumpTargeted(t, S, b)[i])
    <2>1. t[i] = None \/ t[i] \in Row
      BY DEF Table
    <2>2. CASE bumpTargeted(t, S, b)[i] = t[i]
      BY <2>2
    <2>3. CASE /\ t[i] \in Row
               /\ bumpTargeted(t, S, b)[i] = [t[i] EXCEPT !.tacc = @ + 1]
      <3>1. t[i].vec \in {None, t[i].body}
        BY <2>3, DataAssumption DEF OwnVector
      <3> QED
        BY <2>3, <3>1 DEF Row, OwnVector
    <2> QED
      BY <2>1, <2>2, <2>3 DEF bumpTargeted
  <1>2. ASSUME NEW r \in Row, NEW j \in Ids, OwnVector(r), NEW i \in Ids
        PROVE  /\ OwnVector(updateMemoryRow(t, j, r)[i])
               /\ OwnVector(insertMemoryRow(t, j, r)[i])
    <2>1. r.vec \in {None, r.body}
      BY <1>2, DataAssumption DEF OwnVector
    <2>2. OwnVector([r EXCEPT !.tacc = t[j].tacc])
      BY <2>1 DEF Row, OwnVector
    <2>3. updateMemoryRow(t, j, r)[i] \in {t[i], [r EXCEPT !.tacc = t[j].tacc]}
      BY DEF updateMemoryRow, Table
    <2>4. insertMemoryRow(t, j, r)[i] \in {t[i], r}
      BY DEF insertMemoryRow, Table
    <2> QED
      BY <1>2, <2>2, <2>3, <2>4
  <1> QED
    BY <1>1, <1>2

\* Without a re-embed walk a stored vector is the vector of the text beside it:
\* Store, Update and a CLI's save embed the content they write, and an edit
\* that embeds nothing keeps body and vector of the row it read under writeMu.
THEOREM VectorOfItsBodyHolds ==
    ASSUME Walkers = {}
    PROVE  Spec => []VectorOfItsBody
  <1> USE DEF fileVars, procVars, watchVars, boundVars, ghostVars
  <1>1. Init => Paired
    BY DEF Init, Paired, VectorOfItsBody, Embedded, Live, NoRows
  <1>2. ASSUME IInv, Paired, [Next]_vars
        PROVE  Paired'
    <2> DEFINE Own == \A i \in Ids : OwnVector(db[i])
    <2>1. TypeOK /\ OpOK /\ db \in Table /\ Own
      BY <1>2 DEF IInv, TypeOK, Paired, VectorOfItsBody, Live, OwnVector
    <2>2. Own' => VectorOfItsBody'
      BY DEF VectorOfItsBody, Live, OwnVector
    <2> HIDE DEF Own
    <2>3. CASE UNCHANGED <<db, pc, op>>
      BY <1>2, <2>3 DEF Paired, VectorOfItsBody, Embedded, Live
    <2>4. ASSUME NEW w \in Writers, Request(w)
          PROVE  Paired'
      <3>1. PICK o : /\ Begin(w, o) /\ db' = db
                     /\ o.kind \in WriterKinds /\ o.row = None
                     /\ o.kind \in {"store", "update"} => o.vec \in {None, o.body}
        <4> DEFINE Begun(o) ==
              /\ Begin(w, o) /\ db' = db
              /\ o.kind \in WriterKinds /\ o.row = None
              /\ o.kind \in {"store", "update"} => o.vec \in {None, o.body}
        <4>1. ASSUME NEW b \in Bodies, BeginStore(w, b)
              PROVE  \E o : Begun(o)
          <5>1. PICK v \in {b, None} :
                  /\ Begin(w, [kind |-> "store", id |-> None, body |-> b,
                               vec |-> v, row |-> None])
                  /\ db' = db
            BY <4>1 DEF BeginStore, embedForWrite
          <5>2. Begun([kind |-> "store", id |-> None, body |-> b,
                       vec |-> v, row |-> None])
            BY <5>1 DEF WriterKinds
          <5> QED
            BY <5>2
        <4>2. ASSUME NEW i \in Ids, NEW b \in Bodies, BeginUpdate(w, i, b)
              PROVE  \E o : Begun(o)
          <5>1. PICK v \in {b, None} :
                  /\ Begin(w, [kind |-> "update", id |-> i, body |-> b,
                               vec |-> v, row |-> None])
                  /\ db' = db
            BY <4>2 DEF BeginUpdate, embedForWrite
          <5>2. Begun([kind |-> "update", id |-> i, body |-> b,
                       vec |-> v, row |-> None])
            BY <5>1 DEF WriterKinds
          <5> QED
            BY <5>2
        <4>3. ASSUME NEW i \in Ids, NEW k \in {"touch", "delete"},
                     BeginPlain(w, i, k)
              PROVE  \E o : Begun(o)
          <5>1. /\ Begin(w, [kind |-> k, id |-> i, body |-> None,
                             vec |-> None, row |-> None])
                /\ db' = db
            BY <4>3 DEF BeginPlain
          <5>2. Begun([kind |-> k, id |-> i, body |-> None,
                       vec |-> None, row |-> None])
            BY <5>1 DEF WriterKinds
          <5> QED
            BY <5>2
        <4>4. ASSUME NEW S, BeginCount(w, S)
              PROVE  \E o : Begun(o)
          <5>1. /\ Begin(w, [kind |-> "count", id |-> None, body |-> None,
                             vec |-> None, row |-> None])
                /\ db' = db
            BY <4>4 DEF BeginCount
          <5>2. Begun([kind |-> "count", id |-> None, body |-> None,
                       vec |-> None, row |-> None])
            BY <5>1 DEF WriterKinds
          <5> QED
            BY <5>2
        <4> HIDE DEF Begun
        <4>5. \E o : Begun(o)
          BY <2>4, <4>1, <4>2, <4>3, <4>4 DEF Request
        <4> QED
          BY <4>5 DEF Begun
      <3>2. Embedded'
        BY <1>2, <2>1, <3>1 DEF Begin, Paired, Embedded, OwnVector, TypeOK, Procs
      <3> QED
        BY <1>2, <3>1, <3>2 DEF Paired, VectorOfItsBody, Live
    <2>5. ASSUME NEW p \in Procs, LockStore(p) \/ LockGet(p) \/ LockPlain(p)
          PROVE  Paired'
      <3>1. /\ db' = db
            /\ \A q \in Procs \ {p} : pc'[q] = pc[q] /\ op'[q] = op[q]
            /\ pc[p] # "idle"
            /\ pc'[p] # "idle" =>
                 /\ op'[p].kind = op[p].kind /\ op'[p].vec = op[p].vec
                 /\ op'[p].body = op[p].body
                 /\ \/ op'[p].row = op[p].row
                    \/ op[p].id \in Ids /\ op'[p].row = db[op[p].id]
        <4>1. op[p] \in Op /\ op \in [Procs -> Op \cup {None}]
                /\ pc \in [Procs -> {"idle", "lock", "write", "verify", "publish"}]
          BY <2>1, <2>5 DEF LockStore, LockGet, LockPlain, TypeOK, OpOK
        <4>2. CASE LockStore(p)
          BY <4>1, <4>2 DEF LockStore, Op
        <4>3. CASE LockGet(p)
          <5>1. op[p].id \in Ids
            BY <2>1, <4>3 DEF LockGet, OpOK
          <5> QED
            BY <4>1, <4>3, <5>1 DEF LockGet, Op
        <4>4. CASE LockPlain(p)
          BY <4>1, <4>4 DEF LockPlain
        <4> QED
          BY <2>5, <4>2, <4>3, <4>4
      <3> QED
        BY <1>2, <2>1, <3>1 DEF Paired, VectorOfItsBody, Embedded, Live, Own
    <2>6. ASSUME NEW p \in Procs, InsertRow(p) \/ UpdateRow(p)
          PROVE  Paired'
      <3>1. /\ pc[p] = "write" /\ op[p].kind \notin {"delete", "count"}
            /\ op[p].id \in Ids
            /\ Staged(op[p]) \in Row
        BY <2>1, <2>6, StagedType DEF InsertRow, UpdateRow, OpOK, Critical
      <3>2. OwnVector(Staged(op[p]))
        BY <1>2, <2>1, <3>1, StagedPaired DEF OwnVector
      <3>3. Own'
        BY <2>1, <2>6, <3>1, <3>2, PairedTables DEF InsertRow, UpdateRow, Own
      <3>4. Embedded'
        <4>1. /\ op' = [op EXCEPT ![p].row = Staged(op[p])]
              /\ \A q \in Procs \ {p} : pc'[q] = pc[q]
          BY <2>1, <2>6 DEF InsertRow, UpdateRow, TypeOK
        <4>2. op[p] \in Op /\ op \in [Procs -> Op \cup {None}]
          BY <2>1, <3>1 DEF TypeOK, OpOK
        <4>3. /\ op'[p].kind = op[p].kind /\ op'[p].vec = op[p].vec
              /\ op'[p].body = op[p].body /\ op'[p].row = Staged(op[p])
              /\ \A q \in Procs \ {p} : op'[q] = op[q]
          BY <4>1, <4>2 DEF Op
        <4> QED
          BY <1>2, <3>1, <3>2, <4>1, <4>3 DEF Paired, Embedded
      <3> QED
        BY <2>2, <3>3, <3>4 DEF Paired
    <2>7. ASSUME NEW p \in Procs,
                 \/ DeleteRow(p) \/ WriteFails(p) \/ CountDone(p)
                 \/ verifyMemoryPersisted(p) \/ Publish(p)
          PROVE  Paired'
      <3>1. /\ \A i \in Ids : db'[i] \in {db[i], None}
            /\ \A q \in Procs :
                 pc'[q] = "idle" \/ (pc[q] # "idle" /\ op'[q] = op[q])
        <4>1. /\ op \in [Procs -> Op \cup {None}] /\ db \in [Ids -> Row \cup {None}]
              /\ pc \in [Procs -> {"idle", "lock", "write", "verify", "publish"}]
          BY <2>1 DEF TypeOK, Table
        <4>2. CASE DeleteRow(p)
          BY <4>1, <4>2 DEF DeleteRow
        <4>3. CASE Unlock(p) /\ db' = db
          BY <4>1, <4>3 DEF Unlock
        <4>4. CASE verifyMemoryPersisted(p)
          BY <4>1, <4>3, <4>4 DEF verifyMemoryPersisted
        <4> QED
          BY <2>7, <4>2, <4>3, <4>4 DEF WriteFails, CountDone, Publish
      <3> QED
        BY <1>2, <2>1, <2>2, <3>1 DEF Paired, Embedded, Own, OwnVector
    <2>8. ASSUME UNCHANGED <<pc, op>>,
                 \/ \E S, b : db' = bumpTargeted(db, S, b)
                 \/ \E j \in Ids : db' = [db EXCEPT ![j] = None]
                 \/ \E j \in Ids, n \in Nat : /\ db[j] # None
                                             /\ db' = [db EXCEPT ![j].meta = n]
                 \/ \E r \in Row, j \in Ids :
                      /\ OwnVector(r)
                      /\ \/ db' = insertMemoryRow(db, j, r)
                         \/ db' = updateMemoryRow(db, j, r)
          PROVE  Paired'
      <3>1. Own'
        <4>1. CASE \E j \in Ids : db' = [db EXCEPT ![j] = None]
          BY <2>1, <4>1 DEF Own, OwnVector, Table
        <4>2. ASSUME NEW j \in Ids, NEW n \in Nat, db[j] # None,
                     db' = [db EXCEPT ![j].meta = n]
              PROVE  Own'
          <5>1. /\ db[j] \in Row /\ db'[j] = [db[j] EXCEPT !.meta = n]
                /\ \A i \in Ids \ {j} : db'[i] = db[i]
            BY <2>1, <4>2 DEF Table
          <5>2. db'[j].vec = db[j].vec /\ db'[j].body = db[j].body
            BY <5>1 DEF Row
          <5> QED
            BY <2>1, <4>2, <5>1, <5>2 DEF Own, OwnVector
        <4> QED
          BY <2>1, <2>8, <4>1, <4>2, PairedTables DEF Own
      <3>2. Embedded'
        BY <1>2, <2>8 DEF Paired, Embedded
      <3> QED
        BY <2>2, <3>1, <3>2 DEF Paired
    <2>9. CASE FlushStep
      BY <2>3, <2>8, <2>9 DEF FlushStep, flushCommit, flushPublish
    <2>10. CASE Watch
      BY <2>3, <2>10 DEF Watch, WatchTick, ReloadQuery, ReloadSwap,
                         ReloadFailsQuery, ReloadFailsScan
    <2>11. CASE Daemon
      <3>1. CASE Crash
        BY <1>2, <2>1, <2>2, <3>1 DEF Crash, Paired, VectorOfItsBody, Live,
                                      Embedded
      <3> QED
        BY <2>3, <2>11, <3>1 DEF Daemon, StartLoad, StartWatch, StartWatchFails
    <2>12. ASSUME NEW c \in Clis, CliStep(c)
           PROVE  Paired'
      <3>1. ASSUME NEW b \in Bodies, CliStore(c, b)
            PROVE  Paired'
        <4>1. PICK i \in Ids, v \in embedForWrite(b) :
                /\ db' = insertMemoryRow(db, i, [ver |-> clock + 1, meta |-> clock + 1, body |-> b,
                                                 vec |-> v, tacc |-> 0])
                /\ UNCHANGED <<pc, op>>
          BY <3>1 DEF CliStore, Foreign
        <4> DEFINE r == [ver |-> clock + 1, meta |-> clock + 1, body |-> b, vec |-> v, tacc |-> 0]
        <4>2. r \in Row /\ OwnVector(r)
          BY <2>1, <4>1 DEF Row, embedForWrite, OwnVector, TypeOK
        <4> QED
          BY <2>8, <4>1, <4>2
      <3>2. ASSUME NEW b \in Bodies, CliUpdate(c, b)
            PROVE  Paired'
        <4>1. PICK v \in embedForWrite(b) :
                /\ db' = updateMemoryRow(db, cli[c].id,
                           [ver |-> clock + 1, meta |-> clock + 1, body |-> b, vec |-> v,
                            tacc |-> cli[c].row.tacc])
                /\ UNCHANGED <<pc, op>>
          BY <3>2 DEF CliUpdate, Foreign
        <4> DEFINE r == [ver |-> clock + 1, meta |-> clock + 1, body |-> b, vec |-> v,
                         tacc |-> cli[c].row.tacc]
        <4>2. cli[c].id \in Ids /\ cli[c].row.tacc \in Nat /\ clock \in Nat
          BY <2>1, <3>2 DEF CliUpdate, TypeOK, Row
        <4>3. r \in Row /\ OwnVector(r)
          BY <4>1, <4>2 DEF Row, embedForWrite, OwnVector
        <4> QED
          BY <2>8, <4>1, <4>2, <4>3
      <3>3. CASE \E i \in Ids : CliGet(c, i) \/ CliDelete(c, i)
        BY <2>3, <2>8, <3>3 DEF CliGet, CliDelete, Foreign
      <3>4. CASE \E S \in SUBSET used : CliFlush(c, S)
        BY <2>8, <3>4 DEF CliFlush, Foreign
      <3> QED
        BY <2>12, <3>1, <3>2, <3>3, <3>4 DEF CliStep
    <2>13. CASE UNCHANGED vars
      BY <2>3, <2>13 DEF vars
    <2>14. ASSUME NEW p \in Procs, CountRow(p)
           PROVE  Paired'
      <3>1. CASE UNCHANGED <<db, clock, changed, counted>>
        BY <2>3, <2>14, <3>1 DEF CountRow
      <3>2. CASE ~UNCHANGED <<db, clock, changed, counted>>
        <4>1. PICK j \in Ids : db[j] # None /\ db' = [db EXCEPT ![j].meta = clock + 1]
          BY <2>1, <2>14, <3>2 DEF CountRow, TypeOK
        <4>2. clock + 1 \in Nat /\ UNCHANGED <<pc, op>>
          BY <2>1, <2>14 DEF CountRow, TypeOK
        <4> QED
          BY <2>8, <4>1, <4>2
      <3> QED
        BY <3>1, <3>2
    <2> QED
      BY <1>2, <2>4, <2>5, <2>6, <2>7, <2>9, <2>10, <2>11, <2>12, <2>13, <2>14
      DEF Next, Write
  <1>3. Paired => VectorOfItsBody
    BY DEF Paired
  <1> QED
    BY <1>1, <1>2, <1>3, Invariance, PTL DEF Spec


-----------------------------------------------------------------------------
(* What is served never goes back.                                         *)

\* Of two versions of one record that both exist, b is not the older.
NotAfter(a, b) == a # None /\ b # None => a.ver <= b.ver

\* A version that exists was committed.
Committed(a) == a # None => a.ver <= clock

\* Cache, reload and writers hold versions of records that were stored, in the
\* order cache, what is going to replace it, file.
OrderedAt(i) ==
    /\ cache[i] # None \/ snap[i] # None => i \in used
    /\ Committed(db[i]) /\ Committed(cache[i]) /\ Committed(snap[i])
    /\ NotAfter(cache[i], db[i])
    /\ watch = "swap" => NotAfter(cache[i], snap[i]) /\ NotAfter(snap[i], db[i])

OrderedBy(p) ==
    /\ pc[p] # "idle" /\ op[p].kind \notin {"store", "count"}
         => op[p].id \in used
    /\ pc[p] \in Critical /\ op[p].kind # "count" => op[p].id \in used
    /\ pc[p] \in {"verify", "publish"} /\ op[p].kind # "delete" =>
         /\ Committed(op[p].row)
         /\ NotAfter(cache[op[p].id], op[p].row)
         /\ NotAfter(op[p].row, db[op[p].id])

Ordered == (\A i \in Ids : OrderedAt(i)) /\ (\A p \in Procs : OrderedBy(p))

\* Two tables with the same versions of the same records.
SameVersions(t, u) ==
    \A i \in Ids : /\ u[i] = None <=> t[i] = None
                   /\ t[i] # None => u[i].ver = t[i].ver

\* A flush changes no version.
LEMMA BumpKeepsVersions ==
    ASSUME NEW t \in Table, NEW S, NEW b
    PROVE  SameVersions(t, bumpTargeted(t, S, b))
  <1> SUFFICES ASSUME NEW i \in Ids
               PROVE  /\ bumpTargeted(t, S, b)[i] = None <=> t[i] = None
                      /\ t[i] # None => bumpTargeted(t, S, b)[i].ver = t[i].ver
    BY DEF SameVersions
  <1> DEFINE u == [t[i] EXCEPT !.tacc = @ + 1]
  <1>1. t[i] = None \/ t[i] \in Row
    BY DEF Table
  <1>2. t[i] # None => u \in Row /\ u.ver = t[i].ver
    BY <1>1 DEF Row
  <1>3. t[i] # None => u # None
    BY <1>2, DataAssumption
  <1>4. bumpTargeted(t, S, b)[i] = t[i] \/ (t[i] # None /\ bumpTargeted(t, S, b)[i] = u)
    BY DEF bumpTargeted
  <1> QED
    BY <1>2, <1>3, <1>4

\* Where the versions are what they were, and nobody moved, the order is kept.
LEMMA QuietOrdered ==
    ASSUME TypeOK, Ordered, SameVersions(db, db'), SameVersions(cache, cache'),
           UNCHANGED <<used, clock, snap, watch, pc, op>>, OpOK
    PROVE  Ordered'
  <1>1. ASSUME NEW i \in Ids
        PROVE  OrderedAt(i)'
    BY <1>1 DEF Ordered, OrderedAt, Committed, NotAfter, SameVersions
  <1>2. ASSUME NEW p \in Procs
        PROVE  OrderedBy(p)'
    <2>1. pc[p] \in {"verify", "publish"} => op[p].id \in Ids
      BY DEF OpOK, Critical
    <2> QED
      BY <2>1 DEF Ordered, OrderedBy, Committed, NotAfter, SameVersions, Critical
  <1> QED
    BY <1>1, <1>2 DEF Ordered

\* A commit to the rows of the file: the rows it leaves are as they were or
\* of the commit.
LEMMA CommitOrdered ==
    ASSUME TypeOK, OpOK, Ordered,
           UNCHANGED <<cache, snap, watch, pc, op>>,
           used \subseteq used', clock \in Nat, clock' \in {clock, clock + 1},
           \A i \in Ids : \/ db'[i] \in {db[i], None}
                          \/ /\ db[i] # None /\ db'[i] # None
                             /\ db'[i].ver = db[i].ver
                          \/ /\ db'[i] # None /\ db'[i].ver = clock'
                             /\ clock' = clock + 1
    PROVE  Ordered'
  <1>1. db \in Table /\ cache \in Table /\ snap \in Table
    BY DEF TypeOK
  <1>2. ASSUME NEW i \in Ids
        PROVE  OrderedAt(i)'
    <2>1. /\ cache[i] # None => cache[i].ver \in Nat
          /\ snap[i] # None => snap[i].ver \in Nat
          /\ db[i] # None => db[i].ver \in Nat
      BY <1>1 DEF Table, Row
    <2> QED
      BY <1>2, <2>1 DEF Ordered, OrderedAt, Committed, NotAfter
  <1>3. ASSUME NEW p \in Procs
        PROVE  OrderedBy(p)'
    <2>1. CASE pc[p] \in {"verify", "publish"} /\ op[p].kind # "delete"
      <3>1. op[p].id \in Ids /\ op[p].row \in Row
        BY <2>1 DEF OpOK, Critical, Op, WriterKinds
      <3>2. op[p].row.ver \in Nat /\ op[p].row.ver <= clock
        BY <2>1, <3>1, DataAssumption DEF Row, Ordered, OrderedBy, Committed
      <3>3. NotAfter(op[p].row, db[op[p].id])'
        BY <2>1, <3>1, <3>2 DEF NotAfter, Ordered, OrderedBy
      <3> QED
        BY <2>1, <3>2, <3>3 DEF Ordered, OrderedBy, Committed, NotAfter
    <2>2. CASE ~(pc[p] \in {"verify", "publish"} /\ op[p].kind # "delete")
      BY <2>2 DEF Ordered, OrderedBy
    <2> QED
      BY <2>1, <2>2
  <1> QED
    BY <1>2, <1>3 DEF Ordered


\* Every step keeps the order.
LEMMA OrderedStep ==
    ASSUME IInv, Ordered, [Next]_vars
    PROVE  Ordered'
  <1> USE DEF fileVars, procVars, watchVars, boundVars, ghostVars
  <1>1. TypeOK /\ OpOK /\ LockOK /\ DownOK /\ FreshIds
    BY DEF IInv
  <1>2. /\ db \in Table /\ cache \in Table /\ snap \in Table /\ clock \in Nat
        /\ used \subseteq Ids
        /\ op \in [Procs -> Op \cup {None}]
        /\ pc \in [Procs -> {"idle", "lock", "write", "verify", "publish"}]
    BY <1>1 DEF TypeOK
  <1>3. \A i \in Ids : /\ cache[i] # None => cache[i].ver \in Nat
                       /\ snap[i] # None => snap[i].ver \in Nat
                       /\ db[i] # None => db[i].ver \in Nat /\ i \in used
    BY <1>1, <1>2 DEF Table, Row, FreshIds, Live
  <1>4. ASSUME UNCHANGED <<db, clock, cache, snap, watch>>, used \subseteq used',
               NEW p \in Procs, OrderedBy(p)',
               \A q \in Procs \ {p} : pc'[q] = pc[q] /\ op'[q] = op[q]
        PROVE  Ordered'
    <2>1. \A i \in Ids : OrderedAt(i)'
      BY <1>4 DEF Ordered, OrderedAt, Committed, NotAfter
    <2>2. ASSUME NEW q \in Procs \ {p}
          PROVE  OrderedBy(q)'
      BY <1>4, <2>2 DEF Ordered, OrderedBy, Committed, NotAfter
    <2> QED
      BY <1>4, <2>1, <2>2 DEF Ordered
  <1>5. ASSUME NEW p \in Procs, NEW o, Begin(p, o),
               o.kind \notin {"store", "count"} => o.id \in used,
               UNCHANGED <<db, used, clock, cache, snap, watch>>
        PROVE  Ordered'
    <2>1. /\ pc'[p] = "lock" /\ op'[p] = o
          /\ \A q \in Procs \ {p} : pc'[q] = pc[q] /\ op'[q] = op[q]
      BY <1>2, <1>5 DEF Begin
    <2>2. OrderedBy(p)'
      BY <1>5, <2>1 DEF OrderedBy, Critical
    <2> QED
      BY <1>4, <1>5, <2>1, <2>2
  <1>6. ASSUME NEW w \in Writers, Request(w)
        PROVE  Ordered'
    <2>0. w \in Procs
      BY DEF Procs
    <2>1. ASSUME NEW b \in Bodies, BeginStore(w, b)
          PROVE  Ordered'
      <3>1. PICK v \in embedForWrite(b) :
              Begin(w, [kind |-> "store", id |-> None, body |-> b, vec |-> v,
                        row |-> None])
        BY <2>1 DEF BeginStore
      <3> QED
        BY <1>5, <2>0, <2>1, <3>1 DEF BeginStore
    <2>2. ASSUME NEW i \in Ids, NEW b \in Bodies, BeginUpdate(w, i, b)
          PROVE  Ordered'
      <3>1. PICK v \in embedForWrite(b) :
              Begin(w, [kind |-> "update", id |-> i, body |-> b, vec |-> v,
                        row |-> None])
        BY <2>2 DEF BeginUpdate
      <3> QED
        BY <1>5, <2>0, <2>2, <3>1 DEF BeginUpdate
    <2>3. ASSUME NEW i \in Ids, NEW k, BeginPlain(w, i, k)
          PROVE  Ordered'
      BY <1>5, <2>0, <2>3 DEF BeginPlain
    <2>4. ASSUME NEW S, BeginCount(w, S)
          PROVE  Ordered'
      BY <1>5, <2>0, <2>4 DEF BeginCount
    <2> QED
      BY <1>6, <2>1, <2>2, <2>3, <2>4 DEF Request
  <1>7. ASSUME NEW k \in Walkers, Walk(k)
        PROVE  Ordered'
    <2>0. k \in Procs
      BY DEF Procs
    <2>1. CASE UNCHANGED <<pc, op>>
      <3>1. UNCHANGED <<db, used, clock, cache, snap, watch, pc, op>>
        BY <1>7, <2>1 DEF Walk, WalkStart, WalkEmbed
      <3> QED
        BY <1>1, <3>1, QuietOrdered DEF SameVersions
    <2>2. CASE ~UNCHANGED <<pc, op>>
      <3>1. PICK i \in Ids :
              /\ db[i] # None
              /\ Begin(k, [kind |-> "reembed", id |-> i, body |-> None,
                           vec |-> db[i].body, row |-> None])
        BY <1>1, <1>7, <2>0, <2>2 DEF Walk, WalkStart, WalkEmbed, TypeOK
      <3>2. UNCHANGED <<db, used, clock, cache, snap, watch>>
        BY <1>7 DEF Walk, WalkStart, WalkEmbed
      <3> QED
        BY <1>3, <1>5, <2>0, <3>1, <3>2
    <2> QED
      BY <2>1, <2>2
  <1>8. ASSUME NEW p \in Procs, LockStore(p)
        PROVE  Ordered'
    <2>1. PICK i \in Ids \ used : /\ op' = [op EXCEPT ![p].id = i]
                                  /\ used' = used \cup {i}
      BY <1>8 DEF LockStore
    <2>2. op[p] \in Op /\ pc' = [pc EXCEPT ![p] = "write"] /\ pc[p] = "lock"
      BY <1>1, <1>8 DEF LockStore, OpOK
    <2>3. op'[p].id \in used' /\ pc'[p] = "write"
      BY <1>2, <2>1, <2>2 DEF Op
    <2>4. OrderedBy(p)'
      BY <2>3 DEF OrderedBy
    <2>5. \A q \in Procs \ {p} : pc'[q] = pc[q] /\ op'[q] = op[q]
      BY <1>2, <2>1, <2>2
    <2> QED
      BY <1>4, <1>8, <2>1, <2>4, <2>5 DEF LockStore
  <1>9. ASSUME NEW p \in Procs, Unlock(p),
               UNCHANGED <<db, used, clock, cache, snap, watch>>
        PROVE  Ordered'
    <2>1. pc'[p] = "idle" /\ \A q \in Procs \ {p} : pc'[q] = pc[q] /\ op'[q] = op[q]
      BY <1>2, <1>9 DEF Unlock
    <2>2. OrderedBy(p)'
      BY <2>1 DEF OrderedBy, Critical
    <2> QED
      BY <1>4, <1>9, <2>1, <2>2
  <1>10. ASSUME NEW p \in Procs, LockGet(p)
         PROVE  Ordered'
    <2>1. UNCHANGED <<db, used, clock, cache, snap, watch>>
      BY <1>10 DEF LockGet
    <2>2. CASE db[op[p].id] = None
      <3>1. /\ pc' = [pc EXCEPT ![p] = "idle"]
            /\ op' = [op EXCEPT ![p] = None]
        BY <1>10, <2>2 DEF LockGet
      <3>2. pc'[p] = "idle" /\ \A q \in Procs \ {p} : pc'[q] = pc[q] /\ op'[q] = op[q]
        BY <1>2, <3>1
      <3>3. OrderedBy(p)'
        BY <3>2 DEF OrderedBy, Critical
      <3> QED
        BY <1>4, <2>1, <3>2, <3>3
    <2>3. CASE db[op[p].id] # None
      <3>1. /\ pc' = [pc EXCEPT ![p] = "write"]
            /\ op' = [op EXCEPT ![p].row = db[op[p].id]]
            /\ pc[p] = "lock" /\ op[p].kind \in {"update", "touch", "reembed"}
        BY <1>10, <2>3 DEF LockGet
      <3>2. op[p] \in Op /\ op[p].id \in used
        BY <1>1, <3>1 DEF OpOK, Ordered, OrderedBy
      <3>3. op'[p].id = op[p].id /\ pc'[p] = "write"
        BY <1>2, <3>1, <3>2 DEF Op
      <3>4. OrderedBy(p)'
        BY <2>1, <3>2, <3>3 DEF OrderedBy
      <3>5. \A q \in Procs \ {p} : pc'[q] = pc[q] /\ op'[q] = op[q]
        BY <1>2, <3>1
      <3> QED
        BY <1>4, <2>1, <3>4, <3>5
    <2> QED
      BY <2>2, <2>3
  <1>11. ASSUME NEW p \in Procs, LockPlain(p)
         PROVE  Ordered'
    <2>1. /\ UNCHANGED <<db, used, clock, cache, snap, watch, op>>
          /\ pc' = [pc EXCEPT ![p] = "write"] /\ pc[p] = "lock"
          /\ op[p].kind # "store"
      BY <1>11 DEF LockPlain
    <2>2. OrderedBy(p)'
      BY <1>2, <2>1 DEF Ordered, OrderedBy
    <2>3. \A q \in Procs \ {p} : pc'[q] = pc[q] /\ op'[q] = op[q]
      BY <1>2, <2>1
    <2> QED
      BY <1>4, <2>1, <2>2, <2>3
  <1>12. ASSUME NEW p \in Procs, InsertRow(p) \/ UpdateRow(p) \/ DeleteRow(p)
         PROVE  Ordered'
    <2> DEFINE d == op[p].id
    <2>0. /\ pc[p] = "write" /\ op[p].kind # "count"
          /\ UNCHANGED <<cache, snap, watch, used>>
      BY <1>12 DEF InsertRow, UpdateRow, DeleteRow
    <2>1. /\ pc[p] = "write" /\ d \in Ids /\ d \in used /\ op[p] \in Op
          /\ UNCHANGED <<cache, snap, watch, used>>
      BY <1>1, <2>0 DEF OpOK, Critical, Ordered, OrderedBy
    <2>2. watch # "swap" /\ \A q \in Procs \ {p} : pc[q] \notin Critical
      BY <1>1, <2>1, OneHolder DEF Critical
    <2>3. CASE DeleteRow(p)
      <3>1. /\ db' = [db EXCEPT ![d] = None] /\ op' = op /\ clock' = clock
            /\ pc' = [pc EXCEPT ![p] = "publish"] /\ op[p].kind = "delete"
        BY <2>3 DEF DeleteRow
      <3>2. \A i \in Ids : OrderedAt(i)'
        BY <1>2, <2>1, <2>2, <3>1 DEF Ordered, OrderedAt, Committed, NotAfter
      <3>3. OrderedBy(p)'
        BY <1>2, <2>1, <3>1 DEF OrderedBy
      <3>4. \A q \in Procs \ {p} : OrderedBy(q)'
        BY <1>2, <2>1, <2>2, <3>1 DEF Ordered, OrderedBy, Critical
      <3> QED
        BY <3>2, <3>3, <3>4 DEF Ordered
    <2>4. CASE InsertRow(p) \/ UpdateRow(p)
      <3> DEFINE r == Staged(op[p])
      <3>1. r \in Row /\ r.ver = clock + 1 /\ r # None
        <4>1. op[p].kind \notin {"delete", "count"}
          BY <2>4 DEF InsertRow, UpdateRow
        <4>2. r \in Row
          BY <1>1, <2>1, <4>1, StagedType
        <4> QED
          BY <4>2, DataAssumption DEF Staged
      <3> HIDE DEF r
      <3>2. /\ db'[d] = None \/ (db'[d] # None /\ db'[d].ver = clock + 1)
            /\ \A i \in Ids \ {d} : db'[i] = db[i]
        <4>1. CASE InsertRow(p)
          BY <1>2, <2>1, <3>1, <4>1 DEF InsertRow, insertMemoryRow, Table, r
        <4>2. CASE UpdateRow(p)
          <5>1. db' = updateMemoryRow(db, d, r)
            BY <4>2 DEF UpdateRow, r
          <5>2. CASE db[d] = None
            BY <5>1, <5>2 DEF updateMemoryRow
          <5>3. CASE db[d] # None
            <6>1. db' = [db EXCEPT ![d] = [r EXCEPT !.tacc = db[d].tacc]]
              BY <5>1, <5>3 DEF updateMemoryRow
            <6>2. db[d] \in Row
              BY <1>2, <2>1, <5>3 DEF Table
            <6>3. [r EXCEPT !.tacc = db[d].tacc] \in Row
              BY <3>1, <6>2 DEF Row
            <6>4. /\ [r EXCEPT !.tacc = db[d].tacc].ver = clock + 1
                  /\ [r EXCEPT !.tacc = db[d].tacc] # None
              BY <3>1, <6>3, DataAssumption DEF Row
            <6> QED
              BY <1>2, <2>1, <6>1, <6>4 DEF Table
          <5> QED
            BY <5>2, <5>3
        <4> QED
          BY <2>4, <4>1, <4>2
      <3>3. /\ clock' = clock + 1 /\ op' = [op EXCEPT ![p].row = r]
            /\ pc' = [pc EXCEPT ![p] = IF op[p].kind = "store" THEN "verify"
                                                              ELSE "publish"]
        BY <2>4 DEF InsertRow, UpdateRow, r
      <3>4. \A i \in Ids : OrderedAt(i)'
        BY <1>2, <1>3, <2>1, <2>2, <3>2, <3>3 DEF Ordered, OrderedAt, Committed,
                                                  NotAfter
      <3>5. op'[p].row = r /\ op'[p].id = d /\ op'[p].kind = op[p].kind
        BY <1>2, <2>1, <3>3 DEF Op
      <3>6. cache[d] # None => cache[d].ver <= clock
        BY <2>1 DEF Ordered, OrderedAt, Committed
      <3>7. OrderedBy(p)'
        BY <1>2, <1>3, <2>1, <3>1, <3>2, <3>3, <3>5, <3>6
        DEF OrderedBy, Committed, NotAfter
      <3>8. ASSUME NEW q \in Procs \ {p}
            PROVE  OrderedBy(q)'
        <4>1. pc'[q] = pc[q] /\ op'[q] = op[q]
          BY <1>2, <3>3
        <4> QED
          BY <2>1, <2>2, <4>1 DEF Ordered, OrderedBy, Critical
      <3> QED
        BY <3>4, <3>7, <3>8 DEF Ordered
    <2> QED
      BY <1>12, <2>3, <2>4
  <1>13. ASSUME NEW p \in Procs, WriteFails(p) \/ verifyMemoryPersisted(p)
         PROVE  Ordered'
    <2>1. UNCHANGED <<db, used, clock, cache, snap, watch>>
      BY <1>13 DEF WriteFails, verifyMemoryPersisted
    <2>2. CASE Unlock(p)
      BY <1>9, <2>1, <2>2
    <2>3. CASE ~Unlock(p)
      <3>1. pc' = [pc EXCEPT ![p] = "publish"] /\ op' = op /\ pc[p] = "verify"
        BY <1>13, <2>3 DEF WriteFails, verifyMemoryPersisted
      <3>2. OrderedBy(p)'
        BY <1>2, <2>1, <3>1 DEF Ordered, OrderedBy, Critical, Committed, NotAfter
      <3>3. \A q \in Procs \ {p} : pc'[q] = pc[q] /\ op'[q] = op[q]
        BY <1>2, <3>1
      <3> QED
        BY <1>4, <2>1, <3>2, <3>3
    <2> QED
      BY <2>2, <2>3
  <1>14. ASSUME NEW p \in Procs, Publish(p)
         PROVE  Ordered'
    <2> DEFINE d == op[p].id
    <2>1. /\ pc[p] = "publish" /\ d \in Ids /\ d \in used
          /\ Unlock(p) /\ UNCHANGED <<db, used, clock, snap, watch>>
          /\ cache' = [cache EXCEPT ![d] = IF op[p].kind = "delete" THEN None
                                                                   ELSE op[p].row]
      BY <1>1, <1>14 DEF Publish, OpOK, Critical, Ordered, OrderedBy
    <2>2. watch # "swap" /\ \A q \in Procs \ {p} : pc[q] \notin Critical
      BY <1>1, <2>1, OneHolder DEF Critical
    <2>3. op[p].kind # "delete" => /\ Committed(op[p].row)
                                   /\ NotAfter(op[p].row, db[d])
      BY <2>1 DEF Ordered, OrderedBy
    <2>4. \A i \in Ids : OrderedAt(i)'
      BY <1>2, <2>1, <2>2, <2>3 DEF Ordered, OrderedAt, Committed, NotAfter, Table
    <2>5. OrderedBy(p)'
      BY <1>2, <2>1 DEF Unlock, OrderedBy, Critical
    <2>6. ASSUME NEW q \in Procs \ {p}
          PROVE  OrderedBy(q)'
      <3>1. pc'[q] = pc[q] /\ op'[q] = op[q]
        BY <1>2, <2>1 DEF Unlock
      <3> QED
        BY <2>1, <2>2, <3>1 DEF Ordered, OrderedBy, Critical
    <2> QED
      BY <2>4, <2>5, <2>6 DEF Ordered
  <1>15. CASE FlushStep
    <2>1. /\ db' = db \/ \E S, b : db' = bumpTargeted(db, S, b)
          /\ cache' = cache \/ \E S, b : cache' = bumpTargeted(cache, S, b)
          /\ UNCHANGED <<used, clock, snap, watch, pc, op>>
      BY <1>15 DEF FlushStep, flushCommit, flushPublish
    <2>2. SameVersions(db, db') /\ SameVersions(cache, cache')
      BY <1>2, <2>1, BumpKeepsVersions DEF SameVersions
    <2> QED
      BY <1>1, <2>1, <2>2, QuietOrdered
  <1>16. ASSUME UNCHANGED <<db, used, clock, pc, op>>,
                \A p \in Procs : pc[p] \notin Critical,
                \A i \in Ids : OrderedAt(i)'
         PROVE  Ordered'
    <2>1. ASSUME NEW p \in Procs
          PROVE  OrderedBy(p)'
      BY <1>16 DEF Ordered, OrderedBy, Critical
    <2> QED
      BY <1>16, <2>1 DEF Ordered
  <1>17. CASE Watch
    <2>1. CASE WatchTick \/ ReloadFailsQuery
      <3>1. /\ UNCHANGED <<db, used, clock, cache, snap, pc, op>>
            /\ watch # "swap" /\ watch' # "swap"
        BY <2>1 DEF WatchTick, ReloadFailsQuery
      <3>2. \A i \in Ids : OrderedAt(i)'
        BY <3>1 DEF Ordered, OrderedAt, Committed, NotAfter
      <3>3. \A p \in Procs : OrderedBy(p)'
        BY <3>1 DEF Ordered, OrderedBy, Committed, NotAfter
      <3> QED
        BY <3>2, <3>3 DEF Ordered
    <2>2. CASE ReloadQuery
      <3>1. /\ UNCHANGED <<db, used, clock, cache, pc, op>> /\ snap' = db
            /\ writeMu = None
        BY <2>2 DEF ReloadQuery
      <3>2. \A p \in Procs : pc[p] \notin Critical
        BY <1>1, <3>1, ProcAssumption DEF LockOK
      <3>3. \A i \in Ids : OrderedAt(i)'
        BY <1>3, <3>1 DEF Ordered, OrderedAt, Committed, NotAfter
      <3> QED
        BY <1>16, <3>1, <3>2, <3>3
    <2>3. CASE ReloadSwap \/ ReloadFailsScan
      <3>1. /\ UNCHANGED <<db, used, clock, pc, op>> /\ snap' = NoRows
            /\ watch = "swap" /\ watch' = "idle"
            /\ \A i \in Ids : cache'[i] \in {snap[i], None}
        BY <1>2, <2>3 DEF ReloadSwap, ReloadFailsScan, Table
      <3>2. \A p \in Procs : pc[p] \notin Critical
        BY <1>1, <3>1, ProcAssumption DEF LockOK
      <3>3. \A i \in Ids : OrderedAt(i)'
        BY <3>1 DEF Ordered, OrderedAt, Committed, NotAfter, NoRows
      <3> QED
        BY <1>16, <3>1, <3>2, <3>3
    <2> QED
      BY <1>17, <2>1, <2>2, <2>3 DEF Watch
  <1>18. CASE Daemon
    <2>1. CASE StartLoad
      <3>1. /\ UNCHANGED <<db, used, clock, pc, op, snap, watch>> /\ cache' = db
            /\ daemon = "down"
        BY <2>1 DEF StartLoad
      <3>2. watch # "swap" /\ \A p \in Procs : pc[p] \notin Critical
        BY <1>1, <3>1 DEF DownOK, Critical
      <3>3. \A i \in Ids : OrderedAt(i)'
        BY <1>3, <3>1, <3>2 DEF Ordered, OrderedAt, Committed, NotAfter
      <3> QED
        BY <1>16, <3>1, <3>2, <3>3
    <2>2. CASE StartWatch \/ StartWatchFails
      <3>1. /\ UNCHANGED <<db, used, clock, cache, snap, pc, op>>
            /\ watch' \in {watch, "idle"}
        BY <2>2 DEF StartWatch, StartWatchFails
      <3>2. \A i \in Ids : OrderedAt(i)'
        BY <3>1 DEF Ordered, OrderedAt, Committed, NotAfter
      <3>3. \A p \in Procs : OrderedBy(p)'
        BY <3>1 DEF Ordered, OrderedBy, Committed, NotAfter
      <3> QED
        BY <3>2, <3>3 DEF Ordered
    <2>3. CASE Crash
      <3>1. /\ UNCHANGED <<db, used, clock>> /\ cache' = NoRows /\ snap' = NoRows
            /\ watch' = "off" /\ \A p \in Procs : pc'[p] = "idle"
        BY <2>3 DEF Crash
      <3>2. \A i \in Ids : OrderedAt(i)'
        BY <3>1 DEF Ordered, OrderedAt, Committed, NotAfter, NoRows
      <3>3. \A p \in Procs : OrderedBy(p)'
        BY <3>1 DEF OrderedBy, Critical
      <3> QED
        BY <3>2, <3>3 DEF Ordered
    <2> QED
      BY <1>18, <2>1, <2>2, <2>3 DEF Daemon
  <1>19. ASSUME NEW c \in Clis, CliStep(c)
         PROVE  Ordered'
    <2>1. ASSUME NEW b \in Bodies, CliStore(c, b)
          PROVE  Ordered'
      <3>1. PICK i \in Ids \ used, v \in embedForWrite(b) :
              /\ db' = insertMemoryRow(db, i, [ver |-> clock + 1, meta |-> clock + 1, body |-> b,
                                               vec |-> v, tacc |-> 0])
              /\ used' = used \cup {i}
              /\ UNCHANGED <<cache, snap, watch, pc, op>> /\ clock' = clock + 1
        BY <2>1 DEF CliStore, Foreign
      <3> DEFINE r == [ver |-> clock + 1, meta |-> clock + 1, body |-> b, vec |-> v, tacc |-> 0]
      <3>2. r \in Row /\ r # None /\ r.ver = clock + 1
        BY <1>2, <3>1, DataAssumption DEF Row, embedForWrite
      <3>3. \A j \in Ids : db'[j] = db[j] \/ db'[j] = r
        BY <1>2, <3>1 DEF insertMemoryRow, Table
      <3> HIDE DEF r
      <3> QED
        BY <1>1, <1>2, <3>1, <3>2, <3>3, CommitOrdered
    <2>2. ASSUME NEW b \in Bodies, CliUpdate(c, b)
          PROVE  Ordered'
      <3>1. PICK v \in embedForWrite(b) :
              /\ db' = updateMemoryRow(db, cli[c].id,
                         [ver |-> clock + 1, meta |-> clock + 1, body |-> b, vec |-> v,
                          tacc |-> cli[c].row.tacc])
              /\ UNCHANGED <<cache, snap, watch, pc, op, used>>
              /\ clock' = clock + 1
        BY <2>2 DEF CliUpdate, Foreign
      <3> DEFINE r == [ver |-> clock + 1, meta |-> clock + 1, body |-> b, vec |-> v,
                       tacc |-> cli[c].row.tacc]
                 d == cli[c].id
                 s == [r EXCEPT !.tacc = db[d].tacc]
      <3>2. d \in Ids /\ cli[c].row.tacc \in Nat
        BY <1>1, <2>2 DEF CliUpdate, TypeOK, Row
      <3>3. r \in Row
        BY <1>2, <3>1, <3>2 DEF Row, embedForWrite
      <3>4. db[d] # None => s \in Row /\ s.ver = clock + 1 /\ s # None
        <4>1. db[d] # None => db[d] \in Row
          BY <1>2, <3>2 DEF Table
        <4>2. db[d] # None => s \in Row /\ s.ver = clock + 1
          BY <3>3, <4>1 DEF Row
        <4> QED
          BY <4>2, DataAssumption
      <3>5. \A j \in Ids : db'[j] = db[j] \/ (db[d] # None /\ db'[j] = s)
        BY <1>2, <3>1, <3>2 DEF updateMemoryRow, Table
      <3> HIDE DEF s
      <3> QED
        BY <1>1, <1>2, <3>1, <3>4, <3>5, CommitOrdered
    <2>3. ASSUME NEW i \in Ids, CliGet(c, i) \/ CliDelete(c, i)
          PROVE  Ordered'
      <3>1. /\ UNCHANGED <<cache, snap, watch, pc, op, used, clock>>
            /\ \A j \in Ids : db'[j] \in {db[j], None}
        BY <1>2, <2>3 DEF CliGet, CliDelete, Foreign, Table
      <3> QED
        BY <1>1, <1>2, <3>1, CommitOrdered
    <2>4. ASSUME NEW S, CliFlush(c, S)
          PROVE  Ordered'
      <3>1. /\ db' = bumpTargeted(db, S, TRUE)
            /\ UNCHANGED <<used, clock, cache, snap, watch, pc, op>>
        BY <2>4 DEF CliFlush, Foreign
      <3>2. SameVersions(db, db')
        BY <1>2, <3>1, BumpKeepsVersions
      <3>3. SameVersions(cache, cache')
        BY <3>1 DEF SameVersions
      <3> QED
        BY <1>1, <3>1, <3>2, <3>3, QuietOrdered
    <2> QED
      BY <1>19, <2>1, <2>2, <2>3, <2>4 DEF CliStep
  <1>20. CASE UNCHANGED vars
    <2>1. UNCHANGED <<db, used, clock, cache, snap, watch, pc, op>>
      BY <1>20 DEF vars
    <2> QED
      BY <1>1, <2>1, QuietOrdered DEF SameVersions
  <1>21. ASSUME NEW p \in Procs, CountRow(p)
         PROVE  Ordered'
    <2>1. UNCHANGED <<used, cache, snap, watch, pc, op>>
      BY <1>21 DEF CountRow
    <2>2. CASE UNCHANGED <<db, clock>>
      BY <1>1, <2>1, <2>2, QuietOrdered DEF SameVersions
    <2>3. CASE ~UNCHANGED <<db, clock>>
      <3>1. PICK j \in Ids : /\ db[j] # None
                             /\ db' = [db EXCEPT ![j].meta = clock + 1]
                             /\ clock' = clock + 1
        BY <1>1, <1>21, <2>3 DEF CountRow, TypeOK
      <3>2. db[j] \in Row
        BY <1>2, <3>1 DEF Table
      <3>3. db'[j] \in Row /\ db'[j].ver = db[j].ver
        BY <1>2, <3>1, <3>2 DEF Table, Row
      <3>4. \A i \in Ids \ {j} : db'[i] = db[i]
        BY <1>2, <3>1 DEF Table
      <3> QED
        BY <1>1, <1>2, <2>1, <3>1, <3>3, <3>4, CommitOrdered, DataAssumption
    <2> QED
      BY <2>2, <2>3
  <1>22. ASSUME NEW p \in Procs, CountDone(p)
         PROVE  Ordered'
    <2>1. UNCHANGED <<db, used, clock, cache, snap, watch>> /\ Unlock(p)
      BY <1>22 DEF CountDone
    <2> QED
      BY <1>9, <2>1
  <1> QED
    BY <1>6, <1>7, <1>8, <1>10, <1>11, <1>12, <1>13, <1>14, <1>15, <1>17, <1>18,
       <1>19, <1>20, <1>21, <1>22 DEF Next, Write

\* Nothing the daemon serves goes back to an older version: a reload swaps in
\* rows at least as new as the cache, because writeMu keeps the daemon's writers
\* out between SELECT and swap, and a writer publishes the newest version there
\* is in the daemon.
THEOREM CacheNeverRollsBackHolds == Spec => CacheNeverRollsBack
  <1> USE DEF fileVars, procVars, watchVars, boundVars, ghostVars
  <1> DEFINE Forward == daemon # "down" /\ daemon' # "down" =>
                 \A i \in Ids : cache[i] # None /\ cache'[i] # None
                                  => cache'[i].ver >= cache[i].ver
  <1>1. Init => Ordered
    BY DEF Init, Ordered, OrderedAt, OrderedBy, Committed, NotAfter, NoRows,
           Critical
  <1>2. ASSUME IInv, Ordered, [Next]_vars
        PROVE  Forward
    <2> SUFFICES ASSUME daemon # "down", daemon' # "down", NEW i \in Ids,
                        cache[i] # None, cache'[i] # None
                 PROVE  cache'[i].ver >= cache[i].ver
      OBVIOUS
    <2>1. cache \in Table /\ snap \in Table /\ cache[i].ver \in Nat
      BY <1>2 DEF IInv, TypeOK, Table, Row
    <2>2. CASE cache' = cache
      BY <2>1, <2>2
    <2>3. ASSUME NEW p \in Procs, Publish(p)
          PROVE  cache'[i].ver >= cache[i].ver
      <3>1. CASE i # op[p].id
        BY <2>1, <2>3, <3>1 DEF Publish, Table
      <3>2. CASE i = op[p].id
        <4>1. op[p].kind # "delete" /\ cache'[i] = op[p].row /\ pc[p] = "publish"
          BY <2>1, <2>3, <3>2 DEF Publish, Table
        <4>2. op[p].row \in Row
          BY <1>2, <4>1 DEF IInv, OpOK, Critical, Op, WriterKinds
        <4>3. NotAfter(cache[i], op[p].row)
          BY <1>2, <3>2, <4>1 DEF Ordered, OrderedBy
        <4> QED
          BY <2>1, <4>1, <4>2, <4>3, DataAssumption DEF NotAfter, Row
      <3> QED
        BY <3>1, <3>2
    <2>4. CASE flushPublish
      <3>1. SameVersions(cache, cache')
        BY <2>1, <2>4, BumpKeepsVersions DEF flushPublish
      <3> QED
        BY <2>1, <3>1 DEF SameVersions
    <2>5. CASE ReloadSwap \/ ReloadFailsScan
      <3>1. cache'[i] = snap[i] /\ watch = "swap"
        BY <2>5 DEF ReloadSwap, ReloadFailsScan
      <3>2. snap[i] \in Row
        BY <2>1, <3>1 DEF Table
      <3> QED
        BY <1>2, <2>1, <3>1, <3>2 DEF Ordered, OrderedAt, NotAfter, Row
    <2>6. ASSUME NEW w \in Writers, Request(w)
          PROVE  cache' = cache
      <3>1. ASSUME NEW b \in Bodies, BeginStore(w, b)
            PROVE  cache' = cache
        BY <3>1 DEF BeginStore
      <3>2. ASSUME NEW j \in Ids, NEW b \in Bodies, BeginUpdate(w, j, b)
            PROVE  cache' = cache
        BY <3>2 DEF BeginUpdate
      <3>3. ASSUME NEW j \in Ids, NEW k, BeginPlain(w, j, k)
            PROVE  cache' = cache
        BY <3>3 DEF BeginPlain
      <3>4. ASSUME NEW S, BeginCount(w, S)
            PROVE  cache' = cache
        BY <3>4 DEF BeginCount
      <3> QED
        BY <2>6, <3>1, <3>2, <3>3, <3>4 DEF Request
    <2>7. ASSUME NEW p \in Procs, Write(p), ~Publish(p)
          PROVE  cache' = cache
      BY <2>7 DEF Write, LockStore, LockGet, LockPlain, InsertRow, UpdateRow,
                  DeleteRow, CountRow, CountDone, WriteFails,
                  verifyMemoryPersisted
    <2>8. ASSUME NEW c \in Clis, CliStep(c)
          PROVE  cache' = cache
      BY <2>8 DEF CliStep, CliStore, CliUpdate, CliGet, CliDelete, CliFlush,
                  Foreign
    <2>9. ASSUME \/ \E k \in Walkers : Walk(k)
                 \/ \E S, b : flushCommit(S, b)
                 \/ WatchTick \/ ReloadQuery \/ ReloadFailsQuery
                 \/ Daemon \/ UNCHANGED vars
          PROVE  cache' = cache
      BY <2>9 DEF Walk, WalkStart, WalkEmbed, flushCommit, WatchTick,
                  ReloadQuery, ReloadFailsQuery, Daemon, StartLoad, StartWatch,
                  StartWatchFails, Crash, vars
    <2> QED
      BY <1>2, <2>2, <2>3, <2>4, <2>5, <2>6, <2>7, <2>8, <2>9
      DEF Next, FlushStep, Watch
  <1>3. ASSUME IInv, Ordered, [Next]_vars
        PROVE  [Forward]_vars
    BY <1>2, <1>3
  <1>4. IInv /\ Ordered /\ [Next]_vars => Ordered'
    BY OrderedStep
  <1> QED
    BY <1>1, <1>3, <1>4, Invariance, PTL DEF Spec, CacheNeverRollsBack
=============================================================================
