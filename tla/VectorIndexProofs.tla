-------------------------- MODULE VectorIndexProofs --------------------------
(***************************************************************************)
(* Proofs about VectorIndex, for all files, contents, models and processes *)
(* of which at most one indexes: a ready index is complete; and, while     *)
(* searches and runs of one process keep out of each other's way, a map    *)
(* taken for current is the index, and its vectors are of one model.       *)
(***************************************************************************)
EXTENDS VectorIndex, TLAPS

\* One process indexes: there is no lock between two that do.
OneIndexer == \E s \in Procs : Indexers = {s}

\* Runs that are under way, and what a process does between them.
Runs == [pc : {"marks", "removes", "cleans"}, files : Files, rebuild : BOOLEAN,
         add : SUBSET Paths, remove : SUBSET Paths, todo : SUBSET Paths,
         reuse : SUBSET Row, left : SUBSET Ids, failed : SUBSET Paths,
         model : Models \cup {None}, keywordOnly : BOOLEAN]

Sweeps == {Idle, [pc |-> "sweeps"]} \cup [pc : {"deletes"}, orphans : SUBSET Ids]

Process == [up : BOOLEAN, loaded : BOOLEAN, ver : Nat, map : Map,
            change : Changes \cup {None}]

Metadata == [state : {"absent", "dirty", "ready"}, model : Models \cup {None},
             keywordOnly : BOOLEAN, gen : Nat]

\* The types the argument looks at.
Shape ==
    /\ disk \in Files /\ tracked \in Files /\ rows \in Map
    /\ model \in Models \cup {None} /\ meta \in Metadata
    /\ proc \in [Procs -> Process] /\ load \in [Procs -> Loads \cup {None}]
    /\ job \in [Procs -> Runs \cup Sweeps]
    /\ leftover \in BOOLEAN /\ unswept \in BOOLEAN

\* Processes that only search change nothing, and one that is down has nothing
\* under way.
AtRest ==
    /\ \A s \in Procs \ Indexers : job[s] = Idle /\ proc[s].change = None
    /\ \A s \in Procs : ~proc[s].up => job[s] = Idle /\ load[s] = None
                                       /\ proc[s].change = None

\* Chunk i belongs to the file as it is in files.
InDoc(files, i) == files[i[1]] # None /\ i[2] <= Len(files[i[1]])

Holds(files, i) == rows[i] # None /\ rows[i].text = files[i[1]][i[2]]

Running(s) == job[s].pc \in {"marks", "removes", "cleans"}

\* Nothing is indexed but what is tracked.
NoOrphans == \A i \in Ids : ~InDoc(tracked, i) => rows[i] = None

\* What a run does not touch is tracked as it was read, and its chunks are
\* there; the chunks that the run has written are those of the files it read.
Planned(s) ==
    LET j == job[s] IN
    /\ \A p \in Paths : p \notin j.add \cup j.remove =>
         tracked[p] = j.files[p] /\ (j.rebuild => tracked[p] = None)
    /\ \A p \in j.add : j.files[p] # None
    /\ j.todo \subseteq (IF j.pc = "cleans" THEN j.add ELSE j.remove)
    /\ \A i \in j.left : i[1] \in j.add /\ InDoc(j.files, i)
    /\ j.pc # "cleans" \/ j.todo # {} =>
         \A i \in Ids : i[1] \in j.add /\ InDoc(j.files, i) => i \in j.left
    /\ \A i \in Ids : InDoc(tracked, i) /\ i[1] \notin j.add \cup j.remove =>
         Holds(tracked, i)
    /\ \A i \in Ids : i[1] \in j.add \ j.failed /\ InDoc(j.files, i) /\ i \notin j.left =>
         Holds(j.files, i)

\* Between runs an index that is not dirty is complete.
Complete ==
    /\ meta.state # "dirty" => \A i \in Ids : InDoc(tracked, i) => Holds(tracked, i)
    /\ \A s \in Indexers :
         /\ job[s].pc \in {"removes", "cleans"} => meta.state = "dirty"
         /\ Running(s) => Planned(s)
         /\ job[s].pc = "deletes" =>
              job[s].orphans = {i \in Ids : ~InDoc(tracked, i) /\ rows[i] # None}
         /\ meta.state = "ready" /\ proc[s].up /\ job[s].pc \in {"idle", "marks"}
              /\ ((Expected # {} /\ ~unswept) \/ ~leftover) => NoOrphans

Vectors == [i \in Ids |-> Vector(i)]

\* The generation a process has, once its map has followed its own commits.
Version(s) ==
    LET c == proc[s].change IN
    IF c # None /\ c.after # c.before /\ proc[s].ver = c.before THEN c.after
    ELSE proc[s].ver

\* Nobody is ahead of the index.
Behind == \A s \in Procs :
    /\ proc[s].ver <= meta.gen
    /\ load[s] # None => load[s].ver <= meta.gen
    /\ proc[s].change # None /\ proc[s].change.after # proc[s].change.before =>
         proc[s].change.after = meta.gen /\ proc[s].change.before < meta.gen

\* What a process that only searches takes for current is so while the index
\* is ready; the one that indexes lags by the change it has not adopted yet.
UpToDate ==
    /\ \A s \in Procs \ Indexers : meta.state = "ready" =>
         /\ proc[s].loaded /\ proc[s].ver = meta.gen => proc[s].map = Vectors
         /\ load[s] # None /\ load[s].rows # None /\ load[s].ver = meta.gen =>
              load[s].rows = Vectors
    /\ \A s \in Indexers :
         /\ proc[s].loaded /\ Version(s) = meta.gen => \A i \in Ids :
              Vector(i) = IF proc[s].change # None /\ i \in DOMAIN proc[s].change.put
                          THEN proc[s].change.put[i] ELSE proc[s].map[i]
         /\ load[s] # None =>
              /\ job[s].pc = "idle" /\ proc[s].change = None
              /\ load[s].ver = meta.gen
              /\ load[s].rows # None => load[s].rows = Vectors

Plain(i, m) == rows[i] # None => rows[i].model \in {None, m}

\* The model of the vectors is that of the index, or of the run that writes.
ModelsKept(s) ==
    LET j == job[s] IN
    /\ j.model # None => model \in {j.model, None}
    /\ ~j.rebuild /\ meta.model # None =>
         /\ j.add # {} => model \in {meta.model, None}
         /\ j.model \in {None, meta.model}
    /\ j.rebuild => j.reuse = {}
    /\ ~j.rebuild /\ ~leftover => \A v \in j.reuse : v.model \in {None, meta.model}
    /\ ~j.rebuild /\ ~leftover => \A i \in Ids :
         j.pc # "cleans" \/ i[1] \notin j.add => Plain(i, meta.model)
    /\ \A i \in Ids : i[1] \in j.add \ j.failed /\ InDoc(j.files, i) /\ i \notin j.left =>
         IF j.rebuild THEN Plain(i, j.model)
         ELSE leftover \/ Plain(i, j.model) \/ Plain(i, meta.model)

Uniform ==
    /\ meta.state = "absent" => \A i \in Ids : rows[i] = None
    /\ meta.state = "ready" /\ ~leftover =>
         \A i \in Ids : InDoc(tracked, i) => Plain(i, meta.model)
    /\ \A s \in Indexers : Running(s) => ModelsKept(s)

-----------------------------------------------------------------------------
(* Chunks.                                                                 *)

\* There is a longest content.
LEMMA Longest == MaxLen \in Nat /\ \A c \in Contents : Len(c) \in Nat /\ Len(c) <= MaxLen
  <1>1. \A c \in Contents : Len(c) \in Nat
    BY IndexAssumption
  <1>2. PICK c \in Contents : \A d \in Contents : Len(d) <= Len(c)
    BY IndexAssumption
  <1>3. \E n \in {Len(d) : d \in Contents} : \A d \in Contents : Len(d) <= n
    BY <1>2
  <1>4. MaxLen \in {Len(d) : d \in Contents} /\ \A d \in Contents : Len(d) <= MaxLen
    BY <1>3 DEF MaxLen
  <1> QED
    BY <1>1, <1>4

LEMMA IdParts ==
    ASSUME NEW i \in Ids
    PROVE  i[1] \in Paths /\ i[2] \in 1 .. MaxLen /\ i = <<i[1], i[2]>>
  BY DEF Ids

\* The text of a chunk that a file has.
LEMMA TextIs ==
    ASSUME NEW files \in Files, NEW i \in Ids, InDoc(files, i)
    PROVE  files[i[1]][i[2]] \in Texts
  <1>1. files[i[1]] \in Contents
    BY IdParts DEF Files, InDoc
  <1>2. files[i[1]] \in Seq(Texts)
    BY <1>1, IndexAssumption
  <1>3. i[2] \in 1 .. Len(files[i[1]])
    BY <1>2, IdParts, Longest DEF InDoc
  <1> QED
    BY <1>2, <1>3

\* The chunks of a file are those that it has.
LEMMA ChunksAre ==
    ASSUME NEW files \in Files, NEW p \in Paths, files[p] # None
    PROVE  Chunks(files[p], p) = {i \in Ids : i[1] = p /\ InDoc(files, i)}
  <1>1. files[p] \in Contents /\ Len(files[p]) \in Nat /\ Len(files[p]) <= MaxLen
    BY Longest DEF Files
  <1>2. ASSUME NEW i \in Chunks(files[p], p)
        PROVE  i \in Ids /\ i[1] = p /\ InDoc(files, i)
    BY <1>1, <1>2, Longest DEF Chunks, Ids, InDoc
  <1>3. ASSUME NEW i \in Ids, i[1] = p, InDoc(files, i)
        PROVE  i \in Chunks(files[p], p)
    BY <1>1, <1>3, IdParts, Longest DEF Chunks, InDoc
  <1> QED
    BY <1>2, <1>3

LEMMA ExpectedIs ==
    ASSUME tracked \in Files
    PROVE  Expected = {i \in Ids : InDoc(tracked, i)}
  <1>1. ASSUME NEW i \in Expected PROVE i \in Ids /\ InDoc(tracked, i)
    BY <1>1, ChunksAre DEF Expected
  <1>2. ASSUME NEW i \in Ids, InDoc(tracked, i) PROVE i \in Expected
    <2>1. i[1] \in Paths /\ tracked[i[1]] # None
      BY <1>2, IdParts DEF InDoc
    <2>2. i \in Chunks(tracked[i[1]], i[1])
      BY <1>2, <2>1, ChunksAre
    <2> QED
      BY <2>1, <2>2 DEF Expected
  <1> QED
    BY <1>1, <1>2

-----------------------------------------------------------------------------
(* The steps.                                                              *)

LEMMA NoneIsApart ==
  /\ None \notin Contents /\ None \notin Models /\ None \notin Row
  /\ None \notin Map /\ None \notin Changes /\ None \notin Loads
  BY IndexAssumption

\* A run that is under way has all that a run has.
LEMMA RunIs ==
    ASSUME Shape, NEW s \in Procs
    PROVE  /\ job[s].pc \in {"marks", "removes", "cleans"} => job[s] \in Runs
           /\ job[s].pc = "deletes" => job[s] \in [pc : {"deletes"}, orphans : SUBSET Ids]
           /\ job[s].pc \in {"idle", "sweeps", "deletes", "marks", "removes", "cleans"}
  BY DEF Shape, Sweeps, Idle, Runs

\* The step of a run that writes, or of its beginning or its end.
Step(s) ==
    \/ IndexBegins(s) \/ IndexMarksDirty(s) \/ IndexReuses(s)
    \/ IndexFails(s) \/ IndexCommits(s)
    \/ \E p \in job[s].todo : IndexRemoves(s, p) \/ IndexCleans(s, p)
    \/ \E B \in SUBSET job[s].left : IndexBatch(s, B) \/ IndexBatchFails(s, B)
    \/ SweepReads(s) \/ SweepDeletes(s) \/ SweepFails(s)
    \/ Crash(s) \/ Open(s)

\* What changes neither the database, ghosts nor a run.
Beside ==
    \/ UNCHANGED vars
    \/ \E p \in Paths, c \in Contents \cup {None} : EditFile(p, c)
    \/ \E m \in Models \cup {None} : SwitchModel(m)
    \/ \E s \in Procs : LoadStep(s) \/ MapFollows(s)
    \/ UNCHANGED <<world, database, proc, load, job>>

\* Only a process that indexes takes the others.
LEMMA StepCases ==
    ASSUME Shape, AtRest, [Next]_vars
    PROVE  Beside \/ \E s \in Indexers : Step(s)
  <1>0. Indexers \subseteq Procs
    BY IndexAssumption
  <1>1. ASSUME NEW s \in Procs, RunStep(s)
        PROVE  Beside \/ \E t \in Indexers : Step(t)
    <2>1. CASE MapFollows(s)
      BY <2>1 DEF Beside
    <2>2. CASE s \notin Indexers
      <3>1. job[s].pc = "idle"
        BY <2>2 DEF AtRest, Idle
      <3> QED
        BY <1>1, <3>1, <2>2 DEF RunStep, Batches, Todo, At, Embedding, NextBatch, Beside,
             IndexMarksDirty, IndexReuses, IndexCommits, SweepReads, SweepDeletes
    <2>3. CASE s \in Indexers /\ ~MapFollows(s)
      BY <1>1, <2>3 DEF RunStep, Step, Todo, Batches
    <2> QED
      BY <2>1, <2>2, <2>3
  <1>2. ASSUME NEW s \in Indexers,
               IndexCalled(s) \/ WatcherTicks(s) \/ TimerFires(s) \/ IndexFails(s)
                 \/ SweepFails(s) \/ Crash(s) \/ Open(s)
        PROVE  Beside \/ \E t \in Indexers : Step(t)
    BY <1>2 DEF IndexCalled, WatcherTicks, TimerFires, Beside, Step
  <1> QED
    BY <1>0, <1>1, <1>2 DEF Next, Beside

-----------------------------------------------------------------------------
(* Types.                                                                  *)

LEMMA VectorType ==
    ASSUME Shape
    PROVE  Vectors \in Map /\ \A i \in Ids : Vector(i) \in Row \cup {None}
  BY DEF Shape, Map, Vector, Vectors

LEMMA ChangeType ==
    ASSUME NEW S \in SUBSET Ids, NEW f \in [S -> Row \cup {None}],
           NEW m \in Nat, NEW n \in Nat
    PROVE  Change(f, m, n) \in Changes
  BY DEF Change, Changes

LEMMA EmptyChange ==
    ASSUME NEW m \in Nat, NEW n \in Nat
    PROVE  Change(<<>>, m, n) \in Changes
  <1>1. <<>> \in [{} -> Row \cup {None}]
    OBVIOUS
  <1> QED
    BY <1>1, ChangeType

LEMMA Generations ==
    ASSUME Shape
    PROVE  meta.gen \in Nat /\ meta.gen + 1 \in Nat
  <1>1. meta \in Metadata
    BY DEF Shape
  <1> QED
    BY <1>1 DEF Metadata

\* A process whose change is another one.
LEMMA ChangedProcess ==
    ASSUME NEW q \in [Procs -> Process], NEW s \in Procs, NEW c \in Changes \cup {None}
    PROVE  [q EXCEPT ![s].change = c] \in [Procs -> Process]
  BY DEF Process

LEMMA DeletedRows ==
    ASSUME Shape, NEW s \in Procs, NEW p \in Paths, DeleteByDocPath(s, p)
    PROVE  rows' \in Map /\ proc' \in [Procs -> Process]
  <1> DEFINE gone == {i \in Ids : i[1] = p /\ rows[i] # None}
  <1>1. rows' \in Map
    BY DEF DeleteByDocPath, Shape, Map
  <1>2. [i \in gone |-> None] \in [gone -> Row \cup {None}]
    OBVIOUS
  <1>3. Change([i \in gone |-> None], 0, 0) \in Changes
    BY <1>2, ChangeType
  <1>4. [proc EXCEPT ![s].change = Change([i \in gone |-> None], 0, 0)] \in [Procs -> Process]
    BY <1>3, ChangedProcess DEF Shape
  <1> QED
    BY <1>1, <1>4 DEF DeleteByDocPath, Shape

\* What a run writes for a chunk: its text, with no vector, or one that was
\* kept, or a new one.
Written(s, i) ==
    IF job[s].keywordOnly THEN indexKeywordOnly(s, i) ELSE indexDocuments(s, i)

LEMMA WrittenIs ==
    ASSUME Shape, NEW s \in Procs, job[s] \in Runs, NEW i \in Ids,
           InDoc(job[s].files, i)
    PROVE  /\ Written(s, i) \in Row /\ Written(s, i).text = TextOf(s, i)
           /\ job[s].keywordOnly => Written(s, i).model = None
           /\ Kept(s, TextOf(s, i)) # {} /\ ~job[s].keywordOnly => Written(s, i) \in job[s].reuse
           /\ Kept(s, TextOf(s, i)) = {} /\ ~job[s].keywordOnly => Written(s, i).model = model
  <1>1. TextOf(s, i) \in Texts
    BY TextIs DEF TextOf, Runs
  <1>2. CASE job[s].keywordOnly
    BY <1>1, <1>2 DEF Written, indexKeywordOnly, Row
  <1>3. CASE ~job[s].keywordOnly /\ Kept(s, TextOf(s, i)) = {}
    BY <1>1, <1>3 DEF Written, indexDocuments, Row, Shape
  <1>4. CASE ~job[s].keywordOnly /\ Kept(s, TextOf(s, i)) # {}
    <2>1. Written(s, i) = CHOOSE v \in Kept(s, TextOf(s, i)) : TRUE
      BY <1>4 DEF Written, indexDocuments
    <2>2. Written(s, i) \in Kept(s, TextOf(s, i))
      BY <1>4, <2>1
    <2>3. Written(s, i) \in job[s].reuse /\ Written(s, i).text = TextOf(s, i)
      BY <2>2 DEF Kept
    <2> QED
      BY <1>4, <2>3 DEF Runs
  <1> QED
    BY <1>2, <1>3, <1>4

\* A batch, and what its transaction leaves.
LEMMA BatchWrites ==
    ASSUME Shape, Complete, NEW s \in Indexers, NEW B \in SUBSET job[s].left,
           IndexBatch(s, B)
    PROVE  /\ job[s] \in Runs /\ job[s].pc = "cleans" /\ job[s].todo = {}
           /\ proc[s].up /\ proc[s].change = None
           /\ B \subseteq Ids
           /\ \A i \in B : InDoc(job[s].files, i) /\ i[1] \in job[s].add
           /\ rows' = [i \in Ids |-> IF i \in B THEN Written(s, i) ELSE rows[i]]
           /\ proc' = [proc EXCEPT ![s].change = Change(
                [i \in B |-> IF Written(s, i).model = None THEN None ELSE Written(s, i)], 0, 0)]
  <1>0. s \in Procs
    BY IndexAssumption
  <1>1. job[s].pc = "cleans" /\ job[s].todo = {} /\ proc[s].up /\ proc[s].change = None
    BY DEF IndexBatch, NextBatch, Embedding, At
  <1>2. job[s] \in Runs
    BY <1>0, <1>1, RunIs
  <1>3. B \subseteq Ids /\ \A i \in B : InDoc(job[s].files, i) /\ i[1] \in job[s].add
    BY <1>1, <1>2 DEF Complete, Running, Planned, Runs
  <1>4. Upsert(s, [i \in B |-> Written(s, i)])
    BY DEF IndexBatch, Written
  <1> QED
    BY <1>1, <1>2, <1>3, <1>4 DEF Upsert

LEMMA BatchType ==
    ASSUME Shape, Complete, NEW s \in Indexers, NEW B \in SUBSET job[s].left,
           IndexBatch(s, B)
    PROVE  rows' \in Map /\ proc' \in [Procs -> Process]
  <1>0. s \in Procs
    BY IndexAssumption
  <1>1. \A i \in B : Written(s, i) \in Row
    BY <1>0, BatchWrites, WrittenIs
  <1>5. rows \in Map /\ rows' = [i \in Ids |-> IF i \in B THEN Written(s, i) ELSE rows[i]]
    BY BatchWrites DEF Shape
  <1>2. rows' \in Map
    BY <1>1, <1>5 DEF Map
  <1>3. [i \in B |-> IF Written(s, i).model = None THEN None ELSE Written(s, i)]
          \in [B -> Row \cup {None}]
    BY <1>1
  <1>4. Change([i \in B |-> IF Written(s, i).model = None THEN None ELSE Written(s, i)], 0, 0)
          \in Changes
    BY <1>3, ChangeType, BatchWrites
  <1> QED
    BY <1>0, <1>2, <1>4, ChangedProcess, BatchWrites DEF Shape

LEMMA SweepType ==
    ASSUME Shape, NEW s \in Procs, SweepDeletes(s)
    PROVE  rows' \in Map /\ proc' \in [Procs -> Process]
  <1>1. job[s].orphans \in SUBSET Ids
    BY RunIs DEF SweepDeletes, At
  <1>2. rows' \in Map
    BY DEF SweepDeletes, Shape, Map
  <1>3. [i \in job[s].orphans |-> None] \in [job[s].orphans -> Row \cup {None}]
    OBVIOUS
  <1>4. meta.gen \in Nat /\ meta.gen + 1 \in Nat
    BY Generations
  <1>5. Change([i \in job[s].orphans |-> None], meta.gen, meta.gen + 1) \in Changes
    BY <1>1, <1>3, <1>4, ChangeType
  <1> QED
    BY <1>2, <1>5, ChangedProcess DEF Shape, SweepDeletes

LEMMA LoadType ==
    ASSUME Shape, NEW s \in Procs, LoadStep(s) \/ MapFollows(s)
    PROVE  Shape'
  <1>0. /\ proc[s] \in Process /\ load[s] \in Loads \cup {None}
        /\ meta.gen \in Nat /\ Vectors \in Map
    BY VectorType, Generations DEF Shape
  <1>1. ASSUME NEW q \in Process, NEW l \in Loads \cup {None},
               UNCHANGED <<disk, model, rows, tracked, meta, job, leftover, unswept>>,
               proc' = [proc EXCEPT ![s] = q] \/ proc' = proc,
               load' = [load EXCEPT ![s] = l] \/ load' = load
        PROVE  Shape'
    BY <1>1 DEF Shape
  <1>2. CASE RefreshIfStale(s)
    <2>1. [proc[s] EXCEPT !.ver = meta.gen] \in Process
      BY <1>0 DEF Process
    <2>2. proc' = [proc EXCEPT ![s] = [proc[s] EXCEPT !.ver = meta.gen]]
      BY <1>0, <1>2 DEF RefreshIfStale, Shape, Process
    <2> QED
      BY <1>0, <1>1, <1>2, <2>1, <2>2 DEF RefreshIfStale, world, database, ghosts
  <1>3. CASE LoadBegins(s)
    <2>1. [ver |-> meta.gen, rows |-> None] \in Loads
      BY <1>0 DEF Loads
    <2> QED
      BY <1>0, <1>1, <1>3, <2>1 DEF LoadBegins, world, database, ghosts
  <1>4. CASE LoadReads(s)
    <2>1. [load[s] EXCEPT !.rows = Vectors] \in Loads
      BY <1>0, <1>4 DEF LoadReads, Loads
    <2>2. load' = [load EXCEPT ![s] = [load[s] EXCEPT !.rows = Vectors]]
      BY <1>4 DEF LoadReads, Shape, Vectors
    <2> QED
      BY <1>0, <1>1, <1>4, <2>1, <2>2 DEF LoadReads, world, database, ghosts
  <1>5. CASE loadVectors(s)
    <2>1. load[s] \in Loads /\ load[s].rows \in Map /\ load[s].ver \in Nat
      BY <1>0, <1>5 DEF loadVectors, Loads
    <2>2. [proc[s] EXCEPT !.map = load[s].rows, !.loaded = TRUE, !.ver = load[s].ver] \in Process
      BY <1>0, <2>1 DEF Process
    <2>3. proc' = [proc EXCEPT ![s] =
                     [proc[s] EXCEPT !.map = load[s].rows, !.loaded = TRUE, !.ver = load[s].ver]]
      BY <1>0, <1>5 DEF loadVectors, Shape, Process
    <2> QED
      BY <1>1, <1>5, <2>2, <2>3 DEF loadVectors, world, database, ghosts
  <1>6. CASE MapFollows(s)
    <2> DEFINE c == proc[s].change
               m == IF proc[s].loaded
                    THEN [i \in Ids |-> IF i \in DOMAIN c.put THEN c.put[i] ELSE proc[s].map[i]]
                    ELSE proc[s].map
               v == IF c.after # c.before /\ proc[s].ver = c.before THEN c.after
                    ELSE proc[s].ver
    <2>1. c \in Changes /\ proc[s].map \in Map /\ proc[s].ver \in Nat
      BY <1>0, <1>6 DEF MapFollows, Process
    <2>2. c.after \in Nat /\ \A i \in DOMAIN c.put : c.put[i] \in Row \cup {None}
      BY <2>1 DEF Changes
    <2>3. m \in Map /\ v \in Nat
      BY <2>1, <2>2 DEF Map
    <2> HIDE DEF m, v
    <2>4. [proc[s] EXCEPT !.change = None, !.map = m, !.ver = v] \in Process
      BY <1>0, <2>3 DEF Process
    <2>5. proc' = [proc EXCEPT ![s].change = None, ![s].map = m, ![s].ver = v]
      BY <1>6 DEF MapFollows, m, v
    <2>6. proc' = [proc EXCEPT ![s] = [proc[s] EXCEPT !.change = None, !.map = m, !.ver = v]]
      BY <1>0, <2>5 DEF Shape, Process
    <2> QED
      BY <1>0, <1>1, <1>6, <2>4, <2>6 DEF MapFollows, world, database, ghosts
  <1> QED
    BY <1>2, <1>3, <1>4, <1>5, <1>6 DEF LoadStep

LEMMA BesideType ==
    ASSUME Shape, Beside
    PROVE  Shape'
  <1>1. CASE UNCHANGED <<world, database, proc, load, job>>
    BY <1>1 DEF Shape, world, database, ghosts
  <1>2. CASE UNCHANGED vars
    BY <1>2 DEF Shape, vars
  <1>3. ASSUME NEW p \in Paths, NEW c \in Contents \cup {None}, EditFile(p, c)
        PROVE  Shape'
    BY <1>3 DEF EditFile, Shape, database, ghosts, Files
  <1>4. ASSUME NEW m \in Models \cup {None}, SwitchModel(m)
        PROVE  Shape'
    BY <1>4 DEF SwitchModel, Shape, database, ghosts
  <1> QED
    BY <1>1, <1>2, <1>3, <1>4, LoadType DEF Beside

\* What a new run has to do.
LEMMA PlanType ==
    ASSUME Shape
    PROVE  LET S == calculateIndexChanges(collectDocuments, needsRebuild) IN
           /\ S.add = {p \in Paths : disk[p] # None /\ (needsRebuild \/ tracked[p] # disk[p])}
           /\ S.remove = {p \in Paths : tracked[p] # None /\ (needsRebuild \/ disk[p] = None)}
           /\ UNION {Chunks(disk[p], p) : p \in S.add}
                = {i \in Ids : i[1] \in S.add /\ InDoc(disk, i)}
           /\ needsRebuild \in BOOLEAN
  <1> DEFINE S == calculateIndexChanges(collectDocuments, needsRebuild)
  <1>1. S.add = {p \in Paths : disk[p] # None /\ (needsRebuild \/ tracked[p] # disk[p])}
    BY DEF calculateIndexChanges, collectDocuments
  <1>2. S.remove = {p \in Paths : tracked[p] # None /\ (needsRebuild \/ disk[p] = None)}
    BY DEF calculateIndexChanges, collectDocuments
  <1>3. \A p \in S.add : Chunks(disk[p], p) = {i \in Ids : i[1] = p /\ InDoc(disk, i)}
    BY <1>1, ChunksAre DEF Shape
  <1>4. needsRebuild \in BOOLEAN
    BY DEF needsRebuild
  <1> QED
    BY <1>1, <1>2, <1>3, <1>4

\* The row of jobs with another one for s.
LEMMA JobType ==
    ASSUME Shape, NEW s \in Procs, NEW j \in Runs \cup Sweeps
    PROVE  [job EXCEPT ![s] = j] \in [Procs -> Runs \cup Sweeps]
  BY DEF Shape

LEMMA IdleType == Idle \in Runs \cup Sweeps /\ [pc |-> "sweeps"] \in Runs \cup Sweeps
  BY DEF Sweeps

LEMMA BeginsType ==
    ASSUME Shape, NEW s \in Procs, IndexBegins(s)
    PROVE  /\ job' = [job EXCEPT ![s] = job'[s]] /\ job'[s] \in Runs
           /\ Shape'
  <1> DEFINE S == calculateIndexChanges(collectDocuments, needsRebuild)
             j == [pc |-> "marks", files |-> disk, rebuild |-> needsRebuild,
                   add |-> S.add, remove |-> S.remove, todo |-> S.remove, reuse |-> {},
                   left |-> UNION {Chunks(disk[p], p) : p \in S.add},
                   failed |-> {}, model |-> None,
                   keywordOnly |-> KeywordFallback /\ meta.model = None /\ model = None]
  <1>1. job' = [job EXCEPT ![s] = j]
    BY DEF IndexBegins
  <1>2. /\ S.add \in SUBSET Paths /\ S.remove \in SUBSET Paths
        /\ UNION {Chunks(disk[p], p) : p \in S.add} \in SUBSET Ids
        /\ needsRebuild \in BOOLEAN
    BY PlanType
  <1>3. (KeywordFallback /\ meta.model = None /\ model = None) \in BOOLEAN
    BY IndexAssumption
  <1> HIDE DEF S
  <1>4. j \in Runs
    BY <1>2, <1>3 DEF Runs, Shape
  <1>5. job'[s] = j /\ job' \in [Procs -> Runs \cup Sweeps]
    BY <1>1, <1>4, JobType DEF Shape
  <1> HIDE DEF j
  <1>6. UNCHANGED <<world, database, proc, load>>
    BY DEF IndexBegins
  <1> QED
    BY <1>1, <1>4, <1>5, <1>6 DEF Shape, world, database, ghosts

\* Every step keeps the types.
LEMMA StepType ==
    ASSUME Shape, Complete, NEW s \in Indexers, Step(s)
    PROVE  Shape'
  <1>0. s \in Procs /\ meta.gen \in Nat /\ meta.gen + 1 \in Nat /\ proc[s] \in Process
    BY IndexAssumption, Generations DEF Shape
  <1>1. CASE IndexBegins(s)
    BY <1>0, <1>1, BeginsType
  <1>2. CASE IndexMarksDirty(s)
    <2>1. job[s] \in Runs /\ job' = [job EXCEPT ![s] = [job[s] EXCEPT !.pc = "removes"]]
      BY <1>0, <1>2, RunIs DEF IndexMarksDirty, At, Shape
    <2>2. [job[s] EXCEPT !.pc = "removes"] \in Runs
      BY <2>1 DEF Runs
    <2>3. meta' \in Metadata
      BY <1>2 DEF IndexMarksDirty, Shape, Metadata
    <2> QED
      BY <1>0, <1>2, <2>1, <2>2, <2>3, JobType DEF IndexMarksDirty, ghosts, world, Shape
  <1>3. CASE IndexReuses(s)
    <2> DEFINE kept == IF job[s].rebuild THEN {}
                       ELSE {Vector(i) : i \in {j \in Ids : j[1] \in job[s].add}} \ {None}
               j == [job[s] EXCEPT !.pc = "cleans", !.todo = job[s].add, !.reuse = kept]
    <2>1. job[s] \in Runs /\ job' = [job EXCEPT ![s] = j]
      BY <1>0, <1>3, RunIs DEF IndexReuses, At
    <2>2. kept \in SUBSET Row
      BY VectorType
    <2> HIDE DEF kept
    <2>3. j \in Runs
      BY <2>1, <2>2 DEF Runs
    <2> HIDE DEF j
    <2> QED
      BY <1>0, <1>3, <2>1, <2>3, JobType DEF IndexReuses, world, database, ghosts, Shape
  <1>4. ASSUME NEW p \in job[s].todo, IndexRemoves(s, p) \/ IndexCleans(s, p)
        PROVE  Shape'
    <2>1. job[s] \in Runs
      BY <1>0, <1>4, RunIs DEF IndexRemoves, IndexCleans, At
    <2>2. p \in Paths /\ [job[s] EXCEPT !.todo = @ \ {p}] \in Runs
      BY <2>1 DEF Runs
    <2>3. job' = [job EXCEPT ![s] = [job[s] EXCEPT !.todo = @ \ {p}]]
      BY <1>0, <1>4 DEF IndexRemoves, IndexCleans, Shape
    <2>4. rows' \in Map /\ proc' \in [Procs -> Process]
      BY <1>0, <1>4, <2>2, DeletedRows DEF IndexRemoves, IndexCleans, Shape
    <2> QED
      BY <1>0, <1>4, <2>2, <2>3, <2>4, JobType DEF IndexRemoves, IndexCleans, ghosts, world, Shape
  <1>5. ASSUME NEW B \in SUBSET job[s].left, IndexBatch(s, B)
        PROVE  Shape'
    <2>1. job[s] \in Runs
      BY <1>5, BatchWrites
    <2>2. rows' \in Map /\ proc' \in [Procs -> Process]
      BY <1>5, BatchType
    <2>3. ASSUME NEW m \in Models \cup {None}
          PROVE  [job[s] EXCEPT !.left = @ \ B, !.model = m] \in Runs
      BY <2>1 DEF Runs
    <2>4. PICK m \in Models \cup {None} :
            \/ job' = [job EXCEPT ![s] = [job[s] EXCEPT !.left = @ \ B, !.model = m]]
            \/ job' = [job EXCEPT ![s] = Idle]
      <3>1. model \in Models \cup {None} /\ job[s].model \in Models \cup {None}
        BY <2>1 DEF Shape, Runs
      <3> QED
        BY <1>0, <1>5, <2>1, <3>1 DEF IndexBatch, Ends, Shape, Runs
    <2>5. job' \in [Procs -> Runs \cup Sweeps]
      <3>1. \E j \in Runs \cup Sweeps : job' = [job EXCEPT ![s] = j]
        BY <2>3, <2>4, IdleType
      <3> QED
        BY <1>0, <3>1, JobType
    <2> QED
      BY <1>5, <2>2, <2>5 DEF IndexBatch, ghosts, world, Shape
  <1>6. ASSUME NEW B \in SUBSET job[s].left, IndexBatchFails(s, B)
        PROVE  Shape'
    <2>1. job[s] \in Runs
      BY <1>0, <1>6, RunIs DEF IndexBatchFails, NextBatch, Embedding, At
    <2>2. B \in SUBSET Ids /\ {i[1] : i \in B} \in SUBSET Paths
      BY <2>1, IdParts DEF Runs
    <2>3. [job[s] EXCEPT !.left = @ \ B, !.failed = @ \cup {i[1] : i \in B}] \in Runs
      BY <2>1, <2>2 DEF Runs
    <2>4. job' = [job EXCEPT ![s] =
                    [job[s] EXCEPT !.left = @ \ B, !.failed = @ \cup {i[1] : i \in B}]]
      BY <1>0, <1>6 DEF IndexBatchFails, Shape, Runs
    <2> QED
      BY <1>0, <1>6, <2>3, <2>4, JobType DEF IndexBatchFails, world, database, ghosts, Shape
  <1>7. CASE IndexFails(s)
    BY <1>0, <1>7, JobType, IdleType DEF IndexFails, Ends, world, database, ghosts, Shape
  <1>8. CASE IndexCommits(s)
    <2> DEFINE j == job[s]
    <2>1. j \in Runs
      BY <1>0, <1>8, RunIs DEF IndexCommits, Embedding, At
    <2>2. PICK upsert \in SUBSET Paths, delete \in SUBSET Paths, state \in {"ready", "dirty"} :
            CommitIndexState(s, upsert, delete, state)
      BY <1>8, <2>1 DEF IndexCommits, Runs
    <2>3. tracked' \in Files
      BY <2>1, <2>2 DEF CommitIndexState, Files, Runs, Shape
    <2>4. meta' \in Metadata
      BY <1>0, <2>1, <2>2 DEF CommitIndexState, Metadata, Runs, Shape
    <2>5. proc' \in [Procs -> Process]
      BY <1>0, <2>2, EmptyChange, ChangedProcess DEF CommitIndexState, Shape
    <2>6. /\ job' \in [Procs -> Runs \cup Sweeps]
          /\ leftover' \in BOOLEAN /\ unswept' \in BOOLEAN
      BY <1>0, <1>8, <2>1, JobType, IdleType DEF IndexCommits, Shape, Runs
    <2> QED
      BY <1>8, <2>3, <2>4, <2>5, <2>6 DEF IndexCommits, world, Shape
  <1>9. CASE SweepReads(s)
    <2>1. [pc |-> "deletes", orphans |-> {i \in Ids \ Expected : rows[i] # None}] \in Sweeps
      BY DEF Sweeps
    <2>2. leftover' \in BOOLEAN /\ unswept' \in BOOLEAN
      BY <1>9 DEF SweepReads, Shape
    <2>3. \E j \in Sweeps : job' = [job EXCEPT ![s] = j]
      BY <1>9, <2>1 DEF SweepReads, Sweeps
    <2>4. job' \in [Procs -> Runs \cup Sweeps]
      BY <1>0, <2>3, JobType
    <2> QED
      BY <1>9, <2>2, <2>4 DEF SweepReads, world, Shape
  <1>10. CASE SweepDeletes(s)
    <2>1. meta' \in Metadata
      BY <1>0, <1>10 DEF SweepDeletes, Metadata, Shape
    <2> QED
      BY <1>0, <1>10, <2>1, SweepType, JobType, IdleType DEF SweepDeletes, Ends, ghosts, world, Shape
  <1>13. CASE SweepFails(s)
    BY <1>0, <1>13, JobType, IdleType DEF SweepFails, Ends, world, Shape
  <1>11. CASE Crash(s)
    <2>1. [Fresh(0) EXCEPT !.up = FALSE] \in Process
      BY DEF Fresh, Process, NoVectors, Map
    <2> QED
      BY <1>0, <1>11, <2>1, JobType, IdleType DEF Crash, Ends, world, database, ghosts, Shape
  <1>12. CASE Open(s)
    <2>1. Fresh(meta.gen) \in Process
      BY <1>0 DEF Fresh, Process, NoVectors, Map
    <2> QED
      BY <1>0, <1>12, <2>1, JobType, IdleType DEF Open, world, database, ghosts, Shape
  <1> QED
    BY <1>1, <1>2, <1>3, <1>4, <1>5, <1>6, <1>7, <1>8, <1>9, <1>10, <1>11, <1>12,
       <1>13 DEF Step

-----------------------------------------------------------------------------
(* Who does what.                                                          *)

\* A step of one process leaves the others alone.
LEMMA StepIsLocal ==
    ASSUME Shape, NEW s \in Indexers, Step(s)
    PROVE  /\ \A t \in Procs \ {s} :
                job'[t] = job[t] /\ proc'[t] = proc[t] /\ load'[t] = load[t]
           /\ ~proc'[s].up => job'[s] = Idle /\ load'[s] = None /\ proc'[s].change = None
  <1>0. s \in Procs
    BY IndexAssumption
  <1>1. CASE IndexBegins(s) \/ IndexMarksDirty(s) \/ IndexReuses(s)
             \/ IndexFails(s) \/ SweepReads(s) \/ SweepFails(s)
    <2>1. proc' = proc /\ load' = load /\ proc[s].up
      BY <1>1 DEF IndexBegins, IndexMarksDirty, IndexReuses, IndexFails, SweepReads,
         SweepFails, Embedding, At
    <2>2. \A t \in Procs \ {s} : job'[t] = job[t]
      BY <1>1 DEF IndexBegins, IndexMarksDirty, IndexReuses, IndexFails, Ends, SweepReads,
         SweepFails, Shape
    <2> QED
      BY <1>0, <2>1, <2>2
  <1>2. ASSUME NEW p \in job[s].todo, IndexRemoves(s, p) \/ IndexCleans(s, p)
        PROVE  /\ \A t \in Procs \ {s} : job'[t] = job[t] /\ proc'[t] = proc[t]
               /\ load' = load /\ proc'[s].up
    BY <1>0, <1>2 DEF IndexRemoves, IndexCleans, DeleteByDocPath, At, Shape, Process
  <1>3. ASSUME NEW B \in SUBSET job[s].left, IndexBatch(s, B) \/ IndexBatchFails(s, B)
        PROVE  /\ \A t \in Procs \ {s} : job'[t] = job[t] /\ proc'[t] = proc[t]
               /\ load' = load /\ proc'[s].up
    BY <1>0, <1>3 DEF IndexBatch, IndexBatchFails, NextBatch, Embedding, Upsert, Ends, At,
       Shape, Process
  <1>4. CASE IndexCommits(s)
    BY <1>0, <1>4 DEF IndexCommits, CommitIndexState, Embedding, At, Shape, Process
  <1>7. CASE SweepDeletes(s)
    BY <1>0, <1>7 DEF SweepDeletes, Ends, At, Shape, Process
  <1>5. CASE Crash(s)
    <2>1. proc'[s].change = None /\ job'[s] = Idle /\ load'[s] = None
      BY <1>0, <1>5 DEF Crash, Ends, Fresh, Shape
    <2> QED
      BY <1>5, <2>1 DEF Crash, Ends, Shape
  <1>6. CASE Open(s)
    BY <1>0, <1>6 DEF Open, Fresh, Shape
  <1> QED
    BY <1>0, <1>1, <1>2, <1>3, <1>4, <1>5, <1>6, <1>7 DEF Step

\* A search changes its own map, and nothing else.
LEMMA LoadKeeps ==
    ASSUME Shape, NEW s \in Procs, LoadStep(s) \/ MapFollows(s)
    PROVE  /\ UNCHANGED <<disk, model, rows, tracked, meta, leftover, unswept, job>>
           /\ \A t \in Procs : proc'[t].up = proc[t].up
                              /\ (proc[t].change = None => proc'[t].change = None)
           /\ \A t \in Procs : ~proc[t].up => (load[t] = None => load'[t] = None)
           /\ \A t \in Procs \ {s} : proc'[t] = proc[t] /\ load'[t] = load[t]
  <1>1. CASE RefreshIfStale(s)
    BY <1>1 DEF RefreshIfStale, world, database, ghosts, Shape, Process
  <1>2. CASE LoadBegins(s)
    BY <1>2 DEF LoadBegins, world, database, ghosts, Shape
  <1>3. CASE LoadReads(s)
    BY <1>3 DEF LoadReads, world, database, ghosts, Shape
  <1>4. CASE loadVectors(s)
    BY <1>4 DEF loadVectors, world, database, ghosts, Shape, Process
  <1>5. CASE MapFollows(s)
    <2>1. /\ proc'[s].up = proc[s].up /\ proc'[s].change = None
          /\ \A t \in Procs \ {s} : proc'[t] = proc[t]
      BY <1>5 DEF MapFollows, Shape, Process
    <2> QED
      BY <1>5, <2>1 DEF MapFollows, world, database, ghosts
  <1> QED
    BY <1>1, <1>2, <1>3, <1>4, <1>5 DEF LoadStep

LEMMA RestStep ==
    ASSUME Shape, AtRest, Beside \/ \E s \in Indexers : Step(s)
    PROVE  AtRest'
  <1>1. ASSUME NEW s \in Indexers, Step(s)
        PROVE  AtRest'
    BY <1>1, StepIsLocal DEF AtRest
  <1>2. ASSUME NEW s \in Procs, LoadStep(s) \/ MapFollows(s)
        PROVE  AtRest'
    BY <1>2, LoadKeeps DEF AtRest
  <1>3. CASE UNCHANGED <<proc, load, job>>
    BY <1>3 DEF AtRest
  <1> QED
    BY <1>1, <1>2, <1>3 DEF Beside, EditFile, SwitchModel, vars

\* Nothing but its step changes the database, ghosts.
LEMMA BesideKeeps ==
    ASSUME Shape, Beside
    PROVE  /\ UNCHANGED <<rows, tracked, meta, leftover, unswept, job>>
           /\ \A t \in Procs : proc'[t].up = proc[t].up
  <1>1. ASSUME NEW s \in Procs, LoadStep(s) \/ MapFollows(s)
        PROVE  UNCHANGED <<rows, tracked, meta, leftover, unswept, job>>
               /\ \A t \in Procs : proc'[t].up = proc[t].up
    BY <1>1, LoadKeeps
  <1> QED
    BY <1>1 DEF Beside, EditFile, SwitchModel, vars, database, ghosts

-----------------------------------------------------------------------------
(* A ready index is complete.                                              *)

\* A run as it begins.
LEMMA BeginsIs ==
    ASSUME Shape, NEW s \in Procs, IndexBegins(s)
    PROVE  LET j == job'[s] IN
           /\ j.pc = "marks" /\ j.files = disk /\ j.rebuild = needsRebuild
           /\ j.add = {p \in Paths : disk[p] # None /\ (needsRebuild \/ tracked[p] # disk[p])}
           /\ j.remove = {p \in Paths : tracked[p] # None /\ (needsRebuild \/ disk[p] = None)}
           /\ j.todo = j.remove /\ j.reuse = {} /\ j.failed = {} /\ j.model = None
           /\ j.left = {i \in Ids : i[1] \in j.add /\ InDoc(disk, i)}
           /\ needsRebuild \in BOOLEAN
  <1>1. PICK S : S = calculateIndexChanges(collectDocuments, needsRebuild)
    OBVIOUS
  <1>2. job'[s] = [pc |-> "marks", files |-> disk, rebuild |-> needsRebuild,
                   add |-> S.add, remove |-> S.remove, todo |-> S.remove, reuse |-> {},
                   left |-> UNION {Chunks(disk[p], p) : p \in S.add},
                   failed |-> {}, model |-> None,
                   keywordOnly |-> KeywordFallback /\ meta.model = None /\ model = None]
    BY <1>1 DEF IndexBegins, Shape
  <1> QED
    BY <1>1, <1>2, PlanType

LEMMA BeginsPlanned ==
    ASSUME Shape, Complete, NEW s \in Indexers, IndexBegins(s)
    PROVE  Planned(s)'
  <1>0. s \in Procs
    BY IndexAssumption
  <1>1. PICK j : j = job'[s]
    OBVIOUS
  <1>2. /\ j.pc = "marks" /\ j.files = disk /\ j.rebuild = needsRebuild
        /\ j.add = {p \in Paths : disk[p] # None /\ (needsRebuild \/ tracked[p] # disk[p])}
        /\ j.remove = {p \in Paths : tracked[p] # None /\ (needsRebuild \/ disk[p] = None)}
        /\ j.todo = j.remove /\ j.failed = {}
        /\ j.left = {i \in Ids : i[1] \in j.add /\ InDoc(disk, i)}
    BY <1>0, <1>1, BeginsIs
  <1>3. UNCHANGED <<rows, tracked, meta>>
    BY DEF IndexBegins, database, ghosts
  <1>4. \A p \in Paths : p \notin j.add \cup j.remove =>
           tracked[p] = disk[p] /\ (j.rebuild => tracked[p] = None)
    BY <1>2
  <1>5. ASSUME NEW i \in Ids, InDoc(tracked, i), i[1] \notin j.add \cup j.remove
        PROVE  Holds(tracked, i)
    <2>1. i[1] \in Paths /\ tracked[i[1]] # None /\ ~needsRebuild
      BY <1>2, <1>4, <1>5, IdParts DEF InDoc
    <2>2. meta.state # "dirty"
      BY <2>1 DEF needsRebuild
    <2> QED
      BY <1>5, <2>2 DEF Complete
  <1> QED
    BY <1>1, <1>2, <1>3, <1>4, <1>5 DEF Planned, InDoc, Holds

\* Deleting the chunks of a file that the run adds or removes.
LEMMA DeletesPlanned ==
    ASSUME Shape, Complete, NEW s \in Indexers, NEW p \in job[s].todo,
           IndexRemoves(s, p) \/ IndexCleans(s, p)
    PROVE  Planned(s)'
  <1>0. s \in Procs
    BY IndexAssumption
  <1>1. job[s].pc \in {"removes", "cleans"} /\ job[s] \in Runs
    BY <1>0, RunIs DEF IndexRemoves, IndexCleans, At
  <1>2. /\ job'[s] = [job[s] EXCEPT !.todo = @ \ {p}] /\ UNCHANGED <<tracked, meta>>
        /\ \A i \in Ids : rows'[i] = rows[i] \/ i[1] = p
    BY <1>0 DEF IndexRemoves, IndexCleans, DeleteByDocPath, Shape, database, ghosts, Map
  <1>3. PICK j \in Runs : j = job[s]
    BY <1>1
  <1>4. /\ job'[s].pc = j.pc /\ job'[s].files = j.files /\ job'[s].rebuild = j.rebuild
        /\ job'[s].add = j.add /\ job'[s].remove = j.remove /\ job'[s].left = j.left
        /\ job'[s].failed = j.failed /\ job'[s].todo = j.todo \ {p}
    BY <1>2, <1>3 DEF Runs
  <1>5. Planned(s)
    BY <1>1 DEF Complete, Running
  <1>6. p \in j.add \cup j.remove
    BY <1>3, <1>5 DEF Planned
  <1>7. \A i \in Ids : i[1] \in j.add /\ InDoc(j.files, i) => i \in j.left
    BY <1>3, <1>5 DEF Planned
  <1> QED
    BY <1>2, <1>3, <1>4, <1>5, <1>6, <1>7 DEF Planned, InDoc, Holds

LEMMA BatchPlanned ==
    ASSUME Shape, Complete, NEW s \in Indexers, NEW B \in SUBSET job[s].left,
           IndexBatch(s, B), job'[s].pc # "idle"
    PROVE  Planned(s)' /\ job'[s].pc = "cleans" /\ UNCHANGED <<tracked, meta>>
  <1>0. s \in Procs
    BY IndexAssumption
  <1>1. /\ job[s] \in Runs /\ job[s].pc = "cleans" /\ job[s].todo = {}
        /\ \A i \in B : i \in Ids /\ InDoc(job[s].files, i) /\ i[1] \in job[s].add
        /\ rows' = [i \in Ids |-> IF i \in B THEN Written(s, i) ELSE rows[i]]
    BY BatchWrites
  <1>2. PICK j \in Runs : j = job[s]
    BY <1>1
  <1>3. UNCHANGED <<tracked, meta>>
    BY DEF IndexBatch
  <1>4. /\ job'[s].pc = "cleans" /\ job'[s].files = j.files /\ job'[s].rebuild = j.rebuild
        /\ job'[s].add = j.add /\ job'[s].remove = j.remove /\ job'[s].left = j.left \ B
        /\ job'[s].failed = j.failed /\ job'[s].todo = {}
    <2>1. job'[s] # Idle
      BY DEF Idle
    <2>2. PICK m : job' = [job EXCEPT ![s].left = @ \ B, ![s].model = m]
      BY <1>0, <2>1 DEF IndexBatch, Ends, Shape
    <2> QED
      BY <1>0, <1>1, <1>2, <2>2 DEF Shape, Runs
  <1>5. Planned(s)
    BY <1>1 DEF Complete, Running
  <1>6. \A i \in B : Written(s, i) # None /\ Written(s, i).text = j.files[i[1]][i[2]]
    BY <1>0, <1>1, <1>2, WrittenIs, NoneIsApart DEF TextOf
  <1>7. ASSUME NEW i \in Ids, InDoc(tracked, i), i[1] \notin j.add \cup j.remove
        PROVE  Holds(tracked, i) /\ rows'[i] = rows[i]
    BY <1>1, <1>2, <1>5, <1>7 DEF Planned
  <1>8. ASSUME NEW i \in Ids, i[1] \in j.add \ j.failed, InDoc(j.files, i), i \notin j.left \ B
        PROVE  rows'[i] # None /\ rows'[i].text = j.files[i[1]][i[2]]
    <2>1. CASE i \in B
      BY <1>1, <1>6, <2>1
    <2>2. CASE i \notin B
      BY <1>1, <1>2, <1>5, <1>8, <2>2 DEF Planned, Holds
    <2> QED
      BY <2>1, <2>2
  <1>9. \A i \in j.left \ B : i[1] \in j.add /\ InDoc(j.files, i)
    BY <1>2, <1>5 DEF Planned
  <1>10. \A q \in Paths : q \notin j.add \cup j.remove =>
           tracked[q] = j.files[q] /\ (j.rebuild => tracked[q] = None)
    BY <1>2, <1>5 DEF Planned
  <1>11. \A q \in j.add : j.files[q] # None
    BY <1>2, <1>5 DEF Planned
  <1> QED
    BY <1>3, <1>4, <1>7, <1>8, <1>9, <1>10, <1>11 DEF Planned, InDoc, Holds

\* What a commit leaves tracked is there.
LEMMA CommitsCovered ==
    ASSUME Shape, Complete, NEW s \in Indexers, IndexCommits(s), meta'.state # "dirty"
    PROVE  \A i \in Ids : InDoc(tracked', i) =>
             rows'[i] # None /\ rows'[i].text = tracked'[i[1]][i[2]]
  <1>0. s \in Procs
    BY IndexAssumption
  <1>1. job[s].pc = "cleans" /\ job[s].todo = {} /\ job[s].left = {} /\ rows' = rows
    BY DEF IndexCommits, Embedding, At
  <1>2. PICK j \in Runs : j = job[s]
    BY <1>0, <1>1, RunIs
  <1>3. Planned(s)
    BY <1>1 DEF Complete, Running
  <1>4. j.failed = {}
    BY <1>2 DEF IndexCommits, CommitIndexState
  <1>5. tracked' = [p \in Paths |-> IF p \in j.add THEN j.files[p]
                                    ELSE IF p \in j.remove THEN None ELSE tracked[p]]
    BY <1>2, <1>4 DEF IndexCommits, CommitIndexState
  <1>6. ASSUME NEW i \in Ids, InDoc(tracked', i)
        PROVE  rows'[i] # None /\ rows'[i].text = tracked'[i[1]][i[2]]
    <2>1. i[1] \in Paths
      BY IdParts
    <2>2. CASE i[1] \in j.add
      BY <1>1, <1>2, <1>3, <1>4, <1>5, <1>6, <2>1, <2>2 DEF Planned, InDoc, Holds
    <2>3. CASE i[1] \notin j.add
      BY <1>1, <1>2, <1>3, <1>5, <1>6, <2>1, <2>3 DEF Planned, InDoc, Holds
    <2> QED
      BY <2>2, <2>3
  <1> QED
    BY <1>6

\* The chunks that no tracked file has.
LEMMA OrphansAre ==
    ASSUME Shape
    PROVE  /\ {i \in Ids \ Expected : rows[i] # None}
                = {i \in Ids : ~InDoc(tracked, i) /\ rows[i] # None}
           /\ Expected = {} <=> \A i \in Ids : ~InDoc(tracked, i)
  BY ExpectedIs DEF Shape

LEMMA CompleteStep ==
    ASSUME OneIndexer, Shape, Complete, AtRest, Beside \/ \E s \in Indexers : Step(s)
    PROVE  Complete'
  <1>1. CASE Beside
    <2>1. /\ UNCHANGED <<rows, tracked, meta, leftover, unswept, job>>
          /\ \A t \in Indexers : proc'[t].up = proc[t].up
      BY <1>1, BesideKeeps, IndexAssumption
    <2>2. Expected' = Expected /\ NoOrphans' = NoOrphans
      BY <2>1 DEF Expected, NoOrphans, InDoc
    <2>3. \A s \in Indexers : Planned(s) => Planned(s)'
      BY <2>1 DEF Planned, InDoc, Holds
    <2> QED
      BY <2>1, <2>2, <2>3 DEF Complete, Running, InDoc, Holds
  <1>2. ASSUME NEW s \in Indexers, Step(s)
        PROVE  Complete'
    <2>0. s \in Procs /\ Indexers = {s}
      BY IndexAssumption DEF OneIndexer
    <2> SUFFICES
          /\ meta'.state # "dirty" => (\A i \in Ids : InDoc(tracked, i) => Holds(tracked, i))'
          /\ job'[s].pc \in {"removes", "cleans"} => meta'.state = "dirty"
          /\ Running(s)' => Planned(s)'
          /\ job'[s].pc = "deletes" =>
               job'[s].orphans = {i \in Ids : ~InDoc(tracked', i) /\ rows'[i] # None}
          /\ meta'.state = "ready" /\ proc'[s].up /\ job'[s].pc \in {"idle", "marks"}
               /\ ((Expected' # {} /\ ~unswept') \/ ~leftover') => NoOrphans'
      BY <2>0 DEF Complete
    <2> USE DEF Running
    <2>1. CASE IndexBegins(s)
      <3>1. UNCHANGED <<rows, tracked, meta, leftover, unswept, proc>> /\ job[s].pc = "idle"
        BY <2>1 DEF IndexBegins, At, database, ghosts
      <3>2. job'[s].pc = "marks"
        BY <2>0, <2>1, BeginsIs
      <3>3. Expected' = Expected /\ NoOrphans' = NoOrphans
        BY <3>1 DEF Expected, NoOrphans, InDoc
      <3> QED
        BY <2>1, <3>1, <3>2, <3>3, BeginsPlanned DEF Complete, InDoc, Holds
    <2>2. CASE IndexMarksDirty(s)
      <3>1. job[s] \in Runs /\ job[s].pc = "marks"
        BY <2>0, <2>2, RunIs DEF IndexMarksDirty, At
      <3>2. UNCHANGED <<rows, tracked>> /\ meta'.state = "dirty"
        BY <2>2 DEF IndexMarksDirty, Shape, Metadata
      <3>3. job'[s] = [job[s] EXCEPT !.pc = "removes"]
        BY <2>0, <2>2 DEF IndexMarksDirty, Shape
      <3>4. Planned(s)
        BY <3>1 DEF Complete
      <3>5. Planned(s)'
        BY <3>1, <3>2, <3>3, <3>4 DEF Planned, Runs, InDoc, Holds
      <3> QED
        BY <3>1, <3>2, <3>3, <3>5 DEF Runs
    <2>3. CASE IndexReuses(s)
      <3>1. job[s] \in Runs /\ job[s].pc = "removes" /\ job[s].todo = {}
        BY <2>0, <2>3, RunIs DEF IndexReuses, At
      <3>2. UNCHANGED <<rows, tracked, meta>>
        BY <2>3 DEF IndexReuses, database, ghosts
      <3>3. PICK kept : job' = [job EXCEPT ![s] =
                          [job[s] EXCEPT !.pc = "cleans", !.todo = job[s].add, !.reuse = kept]]
        BY <2>3 DEF IndexReuses
      <3>4. Planned(s) /\ meta.state = "dirty"
        BY <3>1 DEF Complete
      <3>5. /\ job'[s].pc = "cleans" /\ job'[s].files = job[s].files
            /\ job'[s].rebuild = job[s].rebuild /\ job'[s].add = job[s].add
            /\ job'[s].remove = job[s].remove /\ job'[s].left = job[s].left
            /\ job'[s].failed = job[s].failed /\ job'[s].todo = job[s].add
        BY <2>0, <3>1, <3>3 DEF Shape, Runs
      <3>6. Planned(s)'
        BY <3>1, <3>2, <3>4, <3>5 DEF Planned, InDoc, Holds
      <3> QED
        BY <3>2, <3>4, <3>5, <3>6
    <2>4. ASSUME NEW p \in job[s].todo, IndexRemoves(s, p) \/ IndexCleans(s, p)
          PROVE  meta'.state = "dirty" /\ Planned(s)' /\ job'[s].pc \in {"removes", "cleans"}
      <3>1. job[s].pc \in {"removes", "cleans"} /\ job[s] \in Runs
        BY <2>0, <2>4, RunIs DEF IndexRemoves, IndexCleans, At
      <3>2. job'[s].pc = job[s].pc /\ meta' = meta
        BY <2>0, <2>4, <3>1 DEF IndexRemoves, IndexCleans, Shape, Runs
      <3> QED
        BY <2>4, <3>1, <3>2, DeletesPlanned DEF Complete
    <2>5. ASSUME NEW B \in SUBSET job[s].left, IndexBatch(s, B)
          PROVE  /\ meta'.state = "dirty" /\ job'[s].pc \in {"cleans", "idle"}
                 /\ job'[s].pc = "cleans" => Planned(s)'
      <3>1. job[s].pc = "cleans" /\ meta' = meta
        BY <2>5, BatchWrites DEF IndexBatch
      <3>2. meta.state = "dirty"
        BY <3>1 DEF Complete
      <3> QED
        BY <2>5, <3>1, <3>2, BatchPlanned
    <2>6. ASSUME NEW B \in SUBSET job[s].left, IndexBatchFails(s, B)
          PROVE  meta'.state = "dirty" /\ Planned(s)' /\ job'[s].pc = "cleans"
      <3>1. job[s].pc = "cleans" /\ job[s].todo = {} /\ job[s] \in Runs
        BY <2>0, <2>6, RunIs DEF IndexBatchFails, NextBatch, Embedding, At
      <3>2. UNCHANGED <<rows, tracked, meta>>
        BY <2>6 DEF IndexBatchFails, database, ghosts
      <3>3. PICK j \in Runs : j = job[s]
        BY <3>1
      <3>4. /\ job'[s].pc = "cleans" /\ job'[s].files = j.files /\ job'[s].rebuild = j.rebuild
            /\ job'[s].add = j.add /\ job'[s].remove = j.remove /\ job'[s].left = j.left \ B
            /\ job'[s].failed = j.failed \cup {i[1] : i \in B} /\ job'[s].todo = {}
        BY <2>0, <2>6, <3>1, <3>3 DEF IndexBatchFails, Shape, Runs
      <3>5. Planned(s) /\ meta.state = "dirty"
        BY <3>1 DEF Complete
      <3>6. \A i \in Ids : i[1] \in j.add \ job'[s].failed => i \notin B
        BY <3>4
      <3>7. Planned(s)'
        BY <3>1, <3>2, <3>3, <3>4, <3>5, <3>6 DEF Planned, InDoc, Holds
      <3> QED
        BY <3>2, <3>4, <3>5, <3>7
    <2>7. CASE IndexFails(s)
      <3>1. job[s].pc \in {"removes", "cleans"} /\ meta' = meta /\ job'[s] = Idle
        BY <2>0, <2>7 DEF IndexFails, Ends, Embedding, At, database, ghosts, Shape
      <3> QED
        BY <3>1 DEF Complete, Idle
    <2>8. CASE IndexCommits(s)
      <3>1. job'[s].pc = "sweeps"
        BY <2>0, <2>8 DEF IndexCommits, Shape
      <3> QED
        BY <2>8, <3>1, CommitsCovered DEF InDoc, Holds
    <2>9. CASE SweepReads(s)
      <3>1. UNCHANGED <<rows, tracked, meta, proc>>
        BY <2>9 DEF SweepReads
      <3>2. PICK orphans : orphans = {i \in Ids : ~InDoc(tracked, i) /\ rows[i] # None}
        OBVIOUS
      <3>3. /\ job'[s] = IF Expected = {} \/ orphans = {} THEN Idle
                         ELSE [pc |-> "deletes", orphans |-> orphans]
            /\ leftover' = (leftover \/ (Expected = {} /\ orphans # {}))
        BY <2>0, <2>9, <3>2, OrphansAre DEF SweepReads, Shape
      <3>4. CASE Expected # {} /\ orphans # {}
        BY <3>1, <3>2, <3>3, <3>4 DEF Complete, InDoc, Holds
      <3>5. CASE Expected = {} \/ orphans = {}
        <4>1. job'[s].pc = "idle" /\ Expected' = Expected
          BY <3>1, <3>3, <3>5 DEF Idle, Expected
        <4>2. ((Expected' # {} /\ ~unswept') \/ ~leftover') => orphans = {}
          BY <3>3, <3>5, <4>1
        <4>3. orphans = {} => NoOrphans'
          BY <3>1, <3>2 DEF NoOrphans, InDoc
        <4> QED
          BY <3>1, <4>1, <4>2, <4>3 DEF Complete, InDoc, Holds
      <3> QED
        BY <3>4, <3>5
    <2>10. CASE SweepDeletes(s)
      <3>1. job[s].orphans = {i \in Ids : ~InDoc(tracked, i) /\ rows[i] # None}
        BY <2>10 DEF SweepDeletes, At, Complete
      <3>2. /\ \A i \in Ids : rows'[i] = IF InDoc(tracked, i) THEN rows[i] ELSE None
            /\ tracked' = tracked /\ meta'.state = meta.state /\ job'[s].pc = "idle"
        BY <2>0, <2>10, <3>1 DEF SweepDeletes, Ends, Idle, Shape, Metadata
      <3> QED
        BY <3>2 DEF Complete, NoOrphans, InDoc, Holds
    <2>13. CASE SweepFails(s)
      <3>1. UNCHANGED <<rows, tracked, meta>> /\ job'[s].pc = "idle"
        BY <2>0, <2>13 DEF SweepFails, Ends, Idle, Shape
      <3>2. PICK orphans : orphans = {i \in Ids : ~InDoc(tracked, i) /\ rows[i] # None}
        OBVIOUS
      <3>3. leftover' = (leftover \/ orphans # {}) /\ unswept' = (orphans # {})
        BY <2>0, <2>13, <3>2, OrphansAre DEF SweepFails, Shape
      <3>4. orphans = {} => NoOrphans'
        BY <3>1, <3>2 DEF NoOrphans, InDoc
      <3> QED
        BY <3>1, <3>3, <3>4 DEF Complete, InDoc, Holds
    <2>11. CASE Crash(s)
      <3>1. UNCHANGED <<rows, tracked, meta>> /\ job'[s].pc = "idle" /\ ~proc'[s].up
        BY <2>0, <2>11 DEF Crash, Ends, Idle, Fresh, Shape, database, ghosts
      <3> QED
        BY <3>1 DEF Complete, InDoc, Holds
    <2>12. CASE Open(s)
      <3>1. UNCHANGED <<rows, tracked, meta>> /\ job'[s].pc = "sweeps"
        BY <2>0, <2>12 DEF Open, Shape, database, ghosts
      <3> QED
        BY <3>1 DEF Complete, InDoc, Holds
    <2> QED
      BY <1>2, <2>1, <2>2, <2>3, <2>4, <2>5, <2>6, <2>7, <2>8, <2>9, <2>10, <2>11, <2>12,
         <2>13 DEF Step
  <1> QED
    BY <1>1, <1>2

IInv == Shape /\ AtRest /\ Complete

LEMMA InitSound == Init => IInv
  <1> SUFFICES ASSUME Init PROVE IInv
    OBVIOUS
  <1>1. Shape
    BY IdleType DEF Init, Shape, Files, NoVectors, Map, Metadata, Fresh, Process
  <1>2. AtRest
    BY DEF Init, AtRest, Fresh, Idle
  <1>3. \A i \in Ids : ~InDoc(tracked, i)
    BY IdParts DEF Init, InDoc
  <1>4. Complete
    BY <1>3, IndexAssumption DEF Init, Complete, Running, Idle
  <1> QED
    BY <1>1, <1>2, <1>4 DEF IInv

LEMMA StepSound ==
    ASSUME OneIndexer, IInv, [Next]_vars
    PROVE  IInv'
  <1>1. Beside \/ \E s \in Indexers : Step(s)
    BY StepCases DEF IInv
  <1>2. Shape'
    BY <1>1, BesideType, StepType DEF IInv
  <1> QED
    BY <1>1, <1>2, RestStep, CompleteStep DEF IInv

LEMMA Invariance ==
    ASSUME OneIndexer
    PROVE  Spec => []IInv
  <1>1. Init => IInv
    BY InitSound
  <1>2. IInv /\ [Next]_vars => IInv'
    BY StepSound
  <1> QED
    BY <1>1, <1>2, PTL DEF Spec

\* Whatever happens to the process that indexes, and however its files and
\* models change under it: between its runs an index that calls itself ready
\* has the chunks of every tracked file, with that file's text; and no others,
\* once a sweep has succeeded since the last one that failed.
THEOREM ReadyIsCompleteHolds ==
    ASSUME OneIndexer
    PROVE  Spec => []ReadyIsComplete
  <1>1. IInv => ReadyIsComplete
    <2> SUFFICES ASSUME IInv, Quiet, meta.state = "ready", NEW i \in Ids
                 PROVE  IF i \in Expected
                        THEN rows[i] # None /\ rows[i].text = Chunk(tracked, i)
                        ELSE Expected # {} /\ ~unswept => rows[i] = None
      BY DEF ReadyIsComplete
    <2>1. Expected # {} /\ ~unswept => NoOrphans
      BY DEF IInv, Complete, OneIndexer, Quiet
    <2>2. InDoc(tracked, i) => Holds(tracked, i)
      BY DEF IInv, Complete
    <2>3. InDoc(tracked, i) => Chunk(tracked, i) = tracked[i[1]][i[2]]
      BY DEF Chunk, InDoc
    <2>4. i \in Expected <=> InDoc(tracked, i)
      BY ExpectedIs DEF IInv, Shape
    <2> QED
      BY <2>1, <2>2, <2>3, <2>4 DEF NoOrphans, Holds
  <1> QED
    BY <1>1, Invariance, PTL

-----------------------------------------------------------------------------
(* The maps.                                                               *)

\* A step that leaves the rows, the maps and the generation as they are.
LEMMA MapsKept ==
    ASSUME Behind, UpToDate, rows' = rows, meta'.gen = meta.gen,
           meta'.state \in {meta.state, "dirty"}, proc' = proc, load' = load,
           \A s \in Indexers : load[s] # None => job'[s].pc = "idle"
    PROVE  Behind' /\ UpToDate'
  <1>1. Vectors' = Vectors /\ \A i \in Ids : Vector(i)' = Vector(i)
    BY DEF Vectors, Vector
  <1>2. Behind'
    BY DEF Behind
  <1>3. \A s \in Procs : Version(s)' = Version(s)
    BY DEF Version
  <1>4. ASSUME NEW s \in Procs \ Indexers, meta'.state = "ready"
        PROVE  /\ proc[s].loaded /\ proc[s].ver = meta.gen => proc[s].map = Vectors
               /\ load[s] # None /\ load[s].rows # None /\ load[s].ver = meta.gen =>
                    load[s].rows = Vectors
    BY <1>4 DEF UpToDate
  <1>5. ASSUME NEW s \in Indexers
        PROVE  /\ proc[s].loaded /\ Version(s) = meta.gen => \A i \in Ids :
                    Vector(i) = IF proc[s].change # None /\ i \in DOMAIN proc[s].change.put
                                THEN proc[s].change.put[i] ELSE proc[s].map[i]
               /\ load[s] # None =>
                    /\ job'[s].pc = "idle" /\ proc[s].change = None
                    /\ load[s].ver = meta.gen
                    /\ load[s].rows # None => load[s].rows = Vectors
    BY <1>5 DEF UpToDate
  <1>6. Indexers \subseteq Procs
    BY IndexAssumption
  <1> QED
    BY <1>1, <1>2, <1>3, <1>4, <1>5, <1>6 DEF UpToDate

\* A transaction of the process that indexes, and the change it leaves for
\* its map: the index is dirty, or this is a new generation.
LEMMA MapsLag ==
    ASSUME Shape, AtRest, Behind, UpToDate, NEW s \in Procs, Indexers = {s},
           job[s].pc # "idle", proc[s].change = None, load' = load,
           NEW c \in Changes, proc' = [proc EXCEPT ![s].change = c],
           \/ c.before = c.after /\ meta'.gen = meta.gen /\ meta'.state # "ready"
           \/ c.before = meta.gen /\ c.after = meta.gen + 1 /\ meta'.gen = meta.gen + 1,
           \A i \in Ids : Vector(i)' = IF i \in DOMAIN c.put THEN c.put[i] ELSE Vector(i)
    PROVE  Behind' /\ UpToDate'
  <1>1. /\ c # None /\ meta.gen \in Nat /\ \A t \in Procs : proc[t].ver \in Nat
        /\ \A t \in Procs : load[t] # None => load[t].ver \in Nat
    BY NoneIsApart, Generations DEF Shape, Process, Loads
  <1>2. /\ proc'[s].change = c /\ proc'[s].ver = proc[s].ver
        /\ proc'[s].loaded = proc[s].loaded /\ proc'[s].map = proc[s].map
        /\ \A t \in Procs \ {s} : proc'[t] = proc[t]
    BY DEF Shape, Process
  <1>3. load[s] = None
    BY DEF UpToDate
  <1>4. Behind'
    <2>1. \A t \in Procs : proc'[t].ver = proc[t].ver
      BY <1>2
    <2>2. meta.gen <= meta'.gen /\ meta'.gen \in Nat
      BY <1>1
    <2>3. \A t \in Procs : t # s => proc'[t].change = None
      BY <1>2 DEF AtRest
    <2>4. c.after # c.before => c.after = meta'.gen /\ c.before < meta'.gen
      BY <1>1
    <2>5. \A t \in Procs : proc[t].ver <= meta.gen /\ (load[t] # None => load[t].ver <= meta.gen)
      BY DEF Behind
    <2>6. \A t \in Procs : proc'[t].ver <= meta'.gen /\ (load'[t] # None => load'[t].ver <= meta'.gen)
      BY <1>1, <2>1, <2>2, <2>5
    <2>7. \A t \in Procs : proc'[t].change # None => proc'[t].change = c
      BY <1>2, <2>3
    <2> QED
      BY <2>4, <2>6, <2>7 DEF Behind
  <1>5. ASSUME NEW t \in Procs, t # s, meta'.state = "ready"
        PROVE  /\ proc'[t].ver # meta'.gen
               /\ load'[t] # None => load'[t].ver # meta'.gen
    <2>1. meta'.gen = meta.gen + 1
      BY <1>5
    <2>2. proc[t].ver <= meta.gen /\ (load[t] # None => load[t].ver <= meta.gen)
      BY DEF Behind
    <2> QED
      BY <1>1, <1>2, <1>5, <2>1, <2>2
  <1>6. ASSUME proc'[s].loaded, Version(s)' = meta'.gen, NEW i \in Ids
        PROVE  Vector(i)' = IF i \in DOMAIN c.put THEN c.put[i] ELSE proc[s].map[i]
    <2>1. Version(s)' = IF c.after # c.before /\ proc[s].ver = c.before THEN c.after
                        ELSE proc[s].ver
      BY <1>1, <1>2 DEF Version
    <2>2. proc[s].ver <= meta.gen
      BY DEF Behind
    <2>3. proc[s].ver = meta.gen
      BY <1>1, <1>6, <2>1, <2>2
    <2>4. Version(s) = meta.gen
      BY <2>3 DEF Version
    <2>5. Vector(i) = proc[s].map[i]
      BY <1>2, <1>6, <2>4 DEF UpToDate
    <2> QED
      BY <2>5
  <1>7. Indexers' = Indexers
    OBVIOUS
  <1> QED
    BY <1>1, <1>2, <1>3, <1>4, <1>5, <1>6 DEF UpToDate

\* The rows of a file that a run removes or cleans.
LEMMA DeletesLag ==
    ASSUME Shape, AtRest, Complete, Behind, UpToDate, NEW s \in Procs, Indexers = {s},
           NEW p \in job[s].todo, IndexRemoves(s, p) \/ IndexCleans(s, p)
    PROVE  Behind' /\ UpToDate'
  <1>1. /\ job[s].pc \in {"removes", "cleans"} /\ proc[s].change = None
        /\ load' = load /\ meta' = meta
    BY DEF IndexRemoves, IndexCleans, At, database, ghosts
  <1>2. meta.state = "dirty" /\ load[s] = None
    BY <1>1 DEF Complete, UpToDate
  <1>3. CASE rows' = rows /\ proc' = proc
    BY <1>1, <1>2, <1>3, MapsKept
  <1>4. CASE ~(rows' = rows /\ proc' = proc)
    <2> DEFINE gone == {i \in Ids : i[1] = p /\ rows[i] # None}
               put == [i \in gone |-> None]
    <2>1. DeleteByDocPath(s, p)
      BY <1>4 DEF IndexRemoves, IndexCleans
    <2>2. rows' = [i \in Ids |-> IF i \in gone THEN None ELSE rows[i]]
      BY <2>1 DEF DeleteByDocPath
    <2>3. rows \in Map
      BY DEF Shape
    <2>4. gone # {}
      <3>1. CASE gone = {}
        <4>1. rows' = rows
          BY <2>2, <2>3, <3>1 DEF Map
        <4> QED
          BY <1>4, <2>1, <3>1, <4>1 DEF DeleteByDocPath
      <3> QED
        BY <3>1
    <2>5. proc' = [proc EXCEPT ![s].change = Change(put, 0, 0)]
      BY <2>1, <2>4 DEF DeleteByDocPath
    <2>6. put \in [gone -> Row \cup {None}] /\ DOMAIN put = gone /\ gone \in SUBSET Ids
      OBVIOUS
    <2>7. \A i \in gone : put[i] = None
      OBVIOUS
    <2> HIDE DEF gone, put
    <2>8. Change(put, 0, 0) \in Changes
      BY <2>6, ChangeType
    <2>9. PICK c \in Changes : c = Change(put, 0, 0)
      BY <2>8
    <2>10. c.before = c.after /\ c.put = put
      BY <2>9 DEF Change
    <2>11. \A i \in Ids : Vector(i)' = IF i \in DOMAIN c.put THEN c.put[i] ELSE Vector(i)
      BY <2>2, <2>6, <2>7, <2>10 DEF Vector
    <2> QED
      BY <1>1, <1>2, <2>5, <2>9, <2>10, <2>11, MapsLag
  <1> QED
    BY <1>3, <1>4

LEMMA BatchLags ==
    ASSUME Shape, AtRest, Complete, Behind, UpToDate, NEW s \in Procs, Indexers = {s},
           NEW B \in SUBSET job[s].left, IndexBatch(s, B)
    PROVE  Behind' /\ UpToDate'
  <1> DEFINE put == [i \in B |-> IF Written(s, i).model = None THEN None ELSE Written(s, i)]
  <1>1. /\ job[s] \in Runs /\ job[s].pc = "cleans" /\ proc[s].change = None
        /\ B \in SUBSET Ids /\ \A i \in B : InDoc(job[s].files, i)
        /\ rows' = [i \in Ids |-> IF i \in B THEN Written(s, i) ELSE rows[i]]
        /\ proc' = [proc EXCEPT ![s].change = Change(put, 0, 0)]
    BY BatchWrites
  <1>2. load' = load /\ meta' = meta /\ meta.state = "dirty"
    BY <1>1 DEF IndexBatch, Complete
  <1>3. \A i \in B : Written(s, i) \in Row /\ Written(s, i) # None
    BY <1>1, WrittenIs, NoneIsApart
  <1>4. put \in [B -> Row \cup {None}] /\ DOMAIN put = B
    BY <1>3
  <1>5. \A i \in B : put[i] = IF Written(s, i).model = None THEN None ELSE Written(s, i)
    OBVIOUS
  <1> HIDE DEF put
  <1>6. Change(put, 0, 0) \in Changes
    BY <1>1, <1>4, ChangeType
  <1>7. PICK c \in Changes : c = Change(put, 0, 0)
    BY <1>6
  <1>8. c.before = c.after /\ c.put = put
    BY <1>7 DEF Change
  <1>9. \A i \in Ids : Vector(i)' = IF i \in DOMAIN c.put THEN c.put[i] ELSE Vector(i)
    BY <1>1, <1>3, <1>4, <1>5, <1>8 DEF Vector
  <1> QED
    BY <1>1, <1>2, <1>7, <1>8, <1>9, MapsLag

LEMMA CommitLags ==
    ASSUME Shape, AtRest, Behind, UpToDate, NEW s \in Procs, Indexers = {s},
           IndexCommits(s)
    PROVE  Behind' /\ UpToDate'
  <1>1. /\ job[s].pc = "cleans" /\ proc[s].change = None /\ rows' = rows /\ load' = load
        /\ meta'.gen = meta.gen + 1
        /\ proc' = [proc EXCEPT ![s].change = Change(<<>>, meta.gen, meta.gen + 1)]
    BY DEF IndexCommits, CommitIndexState, Embedding, At
  <1>2. Change(<<>>, meta.gen, meta.gen + 1) \in Changes
    BY Generations, EmptyChange
  <1>3. PICK c \in Changes : c = Change(<<>>, meta.gen, meta.gen + 1)
    BY <1>2
  <1>4. c.before = meta.gen /\ c.after = meta.gen + 1 /\ c.put = <<>> /\ DOMAIN c.put = {}
    BY <1>3 DEF Change
  <1>5. \A i \in Ids : Vector(i)' = Vector(i)
    BY <1>1 DEF Vector
  <1> QED
    BY <1>1, <1>3, <1>4, <1>5, MapsLag

LEMMA SweepLags ==
    ASSUME Shape, AtRest, Behind, UpToDate, NEW s \in Procs, Indexers = {s},
           SweepDeletes(s)
    PROVE  Behind' /\ UpToDate'
  <1> DEFINE put == [i \in job[s].orphans |-> None]
  <1>1. /\ job[s].pc = "deletes" /\ proc[s].change = None /\ load' = load
        /\ rows' = [i \in Ids |-> IF i \in job[s].orphans THEN None ELSE rows[i]]
        /\ proc' = [proc EXCEPT ![s].change = Change(put, meta.gen, meta.gen + 1)]
    BY DEF SweepDeletes, At
  <1>2. meta'.gen = meta.gen + 1
    BY DEF SweepDeletes, Shape, Metadata
  <1>3. job[s].orphans \in SUBSET Ids
    BY <1>1, RunIs
  <1>4. put \in [job[s].orphans -> Row \cup {None}] /\ DOMAIN put = job[s].orphans
    OBVIOUS
  <1>5. \A i \in job[s].orphans : put[i] = None
    OBVIOUS
  <1> HIDE DEF put
  <1>6. Change(put, meta.gen, meta.gen + 1) \in Changes
    BY <1>3, <1>4, Generations, ChangeType
  <1>7. PICK c \in Changes : c = Change(put, meta.gen, meta.gen + 1)
    BY <1>6
  <1>8. c.before = meta.gen /\ c.after = meta.gen + 1 /\ c.put = put
    BY <1>7 DEF Change
  <1>9. \A i \in Ids : Vector(i)' = IF i \in DOMAIN c.put THEN c.put[i] ELSE Vector(i)
    BY <1>1, <1>4, <1>5, <1>8 DEF Vector
  <1> QED
    BY <1>1, <1>2, <1>7, <1>8, <1>9, MapsLag

\* What one process holds of the index; the index is unchanged.
MapSound(t) ==
    /\ proc[t].ver <= meta.gen
    /\ load[t] # None => load[t].ver <= meta.gen
    /\ proc[t].change # None /\ proc[t].change.after # proc[t].change.before =>
         proc[t].change.after = meta.gen /\ proc[t].change.before < meta.gen
    /\ t \notin Indexers /\ meta.state = "ready" =>
         /\ proc[t].loaded /\ proc[t].ver = meta.gen => proc[t].map = Vectors
         /\ load[t] # None /\ load[t].rows # None /\ load[t].ver = meta.gen =>
              load[t].rows = Vectors
    /\ t \in Indexers =>
         /\ proc[t].loaded /\ Version(t) = meta.gen => \A i \in Ids :
              Vector(i) = IF proc[t].change # None /\ i \in DOMAIN proc[t].change.put
                          THEN proc[t].change.put[i] ELSE proc[t].map[i]
         /\ load[t] # None =>
              /\ job[t].pc = "idle" /\ proc[t].change = None
              /\ load[t].ver = meta.gen
              /\ load[t].rows # None => load[t].rows = Vectors

LEMMA MapsSound == Behind /\ UpToDate <=> \A t \in Procs : MapSound(t)
  BY IndexAssumption DEF Behind, UpToDate, MapSound

\* A step that leaves the index alone, and all processes but one.
LEMMA MapsLocal ==
    ASSUME Behind, UpToDate, NEW s \in Procs, UNCHANGED <<rows, meta>>,
           \A t \in Procs \ {s} : proc'[t] = proc[t] /\ load'[t] = load[t] /\ job'[t] = job[t],
           MapSound(s)'
    PROVE  Behind' /\ UpToDate'
  <1>1. Vectors' = Vectors /\ \A i \in Ids : Vector(i)' = Vector(i)
    BY DEF Vectors, Vector
  <1>2. ASSUME NEW t \in Procs \ {s}
        PROVE  MapSound(t)'
    <2>1. MapSound(t)
      BY MapsSound
    <2>2. Version(t)' = Version(t)
      BY <1>2 DEF Version
    <2> QED
      BY <1>1, <1>2, <2>1, <2>2 DEF MapSound
  <1>3. \A t \in Procs : MapSound(t)'
    BY <1>2
  <1> QED
    BY <1>3, IndexAssumption DEF Behind, UpToDate, MapSound

\* A new process, and one that has died, have loaded nothing.
LEMMA EmptyMaps ==
    ASSUME Shape, AtRest, Behind, UpToDate, NEW s \in Indexers, Crash(s) \/ Open(s)
    PROVE  Behind' /\ UpToDate'
  <1>0. s \in Procs /\ meta.gen \in Nat
    BY IndexAssumption, Generations
  <1>1. UNCHANGED <<rows, meta>>
    BY DEF Crash, Open, database, ghosts
  <1>2. \A t \in Procs \ {s} : proc'[t] = proc[t] /\ load'[t] = load[t] /\ job'[t] = job[t]
    BY StepIsLocal DEF Step
  <1>3. /\ proc'[s].ver \in {0, meta.gen} /\ ~proc'[s].loaded /\ proc'[s].change = None
        /\ load'[s] = None
    <2>1. CASE Crash(s)
      BY <1>0, <2>1 DEF Crash, Fresh, Shape
    <2>2. CASE Open(s)
      BY <1>0, <2>2 DEF Open, Fresh, Shape, AtRest
    <2> QED
      BY <2>1, <2>2
  <1>4. MapSound(s)'
    BY <1>0, <1>1, <1>3 DEF MapSound
  <1> QED
    BY <1>0, <1>1, <1>2, <1>4, MapsLocal

\* The map follows a commit of its own process.
LEMMA FollowsIs ==
    ASSUME Shape, NEW s \in Procs, MapFollows(s)
    PROVE  LET c == proc[s].change IN
           /\ c # None /\ load' = load /\ proc'[s].change = None
           /\ proc'[s].loaded = proc[s].loaded /\ proc'[s].ver = Version(s)
           /\ proc[s].loaded => \A i \in Ids :
                proc'[s].map[i] = IF i \in DOMAIN c.put THEN c.put[i] ELSE proc[s].map[i]
  <1> DEFINE c == proc[s].change
             m == IF ~proc[s].loaded THEN proc[s].map
                  ELSE [i \in Ids |-> IF i \in DOMAIN c.put THEN c.put[i] ELSE proc[s].map[i]]
             v == IF c.after # c.before /\ proc[s].ver = c.before THEN c.after
                  ELSE proc[s].ver
  <1>1. proc[s].loaded => \A i \in Ids :
          m[i] = IF i \in DOMAIN c.put THEN c.put[i] ELSE proc[s].map[i]
    OBVIOUS
  <1>3. c # None /\ load' = load
    BY DEF MapFollows
  <1>2. v = Version(s)
    BY <1>3 DEF Version
  <1> HIDE DEF m, v
  <1>4. proc' = [proc EXCEPT ![s] = [proc[s] EXCEPT !.change = None, !.map = m, !.ver = v]]
    BY DEF MapFollows, m, v
  <1>5. proc'[s] = [proc[s] EXCEPT !.change = None, !.map = m, !.ver = v] /\ proc[s] \in Process
    BY <1>4 DEF Shape
  <1>6. /\ proc'[s].change = None /\ proc'[s].loaded = proc[s].loaded
        /\ proc'[s].ver = v /\ proc'[s].map = m
    BY <1>5 DEF Process
  <1> QED
    BY <1>1, <1>2, <1>3, <1>6

LEMMA LoadSound ==
    ASSUME Shape, AtRest, Behind, UpToDate, ~SearchWhileIndexing,
           NEW s \in Procs, LoadStep(s) \/ MapFollows(s)
    PROVE  Behind' /\ UpToDate'
  <1>0. /\ UNCHANGED <<rows, meta, job>> /\ meta.gen \in Nat /\ proc[s] \in Process
        /\ \A t \in Procs \ {s} : proc'[t] = proc[t] /\ load'[t] = load[t] /\ job'[t] = job[t]
    BY LoadKeeps, Generations DEF Shape
  <1>1. Vectors' = Vectors /\ \A i \in Ids : Vector(i)' = Vector(i)
    BY <1>0 DEF Vectors, Vector
  <1>2. MapSound(s)
    BY MapsSound
  <1> SUFFICES MapSound(s)'
    BY <1>0, MapsLocal
  <1>3. CASE RefreshIfStale(s)
    <2>1. /\ load' = load /\ load[s] = None /\ ~proc'[s].loaded /\ proc'[s].ver = meta.gen
          /\ proc'[s].change = proc[s].change
      BY <1>3 DEF RefreshIfStale, Shape, Process
    <2> QED
      BY <1>0, <1>2, <2>1 DEF MapSound
  <1>4. CASE LoadBegins(s)
    <2>1. /\ proc' = proc /\ load'[s] = [ver |-> meta.gen, rows |-> None]
          /\ job[s].pc = "idle" /\ proc[s].change = None
      BY <1>4 DEF LoadBegins, Shape
    <2>2. Version(s)' = Version(s)
      BY <2>1 DEF Version
    <2> QED
      BY <1>0, <1>1, <1>2, <2>1, <2>2 DEF MapSound
  <1>5. CASE LoadReads(s)
    <2>1. /\ proc' = proc /\ load[s] # None /\ load[s] \in Loads
          /\ load'[s] = [load[s] EXCEPT !.rows = Vectors]
      BY <1>5 DEF LoadReads, Shape, Vectors
    <2>2. load'[s].ver = load[s].ver /\ load'[s].rows = Vectors
      BY <2>1 DEF Loads
    <2>3. Version(s)' = Version(s)
      BY <2>1 DEF Version
    <2> QED
      BY <1>0, <1>1, <1>2, <2>1, <2>2, <2>3 DEF MapSound
  <1>6. CASE loadVectors(s)
    <2>1. /\ load[s] # None /\ load[s].rows # None /\ load'[s] = None
          /\ proc'[s].map = load[s].rows /\ proc'[s].ver = load[s].ver
          /\ proc'[s].change = proc[s].change
      BY <1>6 DEF loadVectors, Shape, Process
    <2>2. CASE s \in Indexers
      <3>1. proc[s].change = None /\ load[s].rows = Vectors /\ load[s].ver = meta.gen
        BY <1>2, <2>1, <2>2 DEF MapSound
      <3>2. \A i \in Ids : Vector(i) = proc'[s].map[i]
        BY <2>1, <3>1 DEF Vectors
      <3> QED
        BY <1>0, <1>1, <2>1, <2>2, <3>1, <3>2 DEF MapSound
    <2>3. CASE s \notin Indexers
      BY <1>0, <1>1, <1>2, <2>1, <2>3 DEF MapSound
    <2> QED
      BY <2>2, <2>3
  <1>7. CASE MapFollows(s)
    <2>0. proc[s].change # None /\ load' = load
      BY <1>7, FollowsIs
    <2>1. s \in Indexers /\ proc[s].change # None /\ load' = load /\ load[s] = None
      BY <1>2, <2>0 DEF AtRest, MapSound
    <2>2. PICK c \in Changes : c = proc[s].change
      BY <1>0, <2>1 DEF Process
    <2>3. /\ proc'[s].change = None /\ proc'[s].loaded = proc[s].loaded
          /\ proc'[s].ver = Version(s)
          /\ proc[s].loaded => \A i \in Ids :
               proc'[s].map[i] = IF i \in DOMAIN c.put THEN c.put[i] ELSE proc[s].map[i]
      BY <1>7, <2>2, FollowsIs
    <2>4. Version(s) <= meta.gen
      BY <1>0, <1>2, <2>1 DEF MapSound, Version
    <2>5. Version(s)' = Version(s)
      BY <2>3 DEF Version
    <2>6. ASSUME proc'[s].loaded, Version(s) = meta.gen, NEW i \in Ids
          PROVE  Vector(i) = proc'[s].map[i]
      BY <1>2, <2>1, <2>2, <2>3, <2>6 DEF MapSound
    <2> QED
      BY <1>0, <1>1, <2>1, <2>3, <2>4, <2>5, <2>6 DEF MapSound
  <1> QED
    BY <1>3, <1>4, <1>5, <1>6, <1>7 DEF LoadStep

LEMMA MapStep ==
    ASSUME OneIndexer, ~SearchWhileIndexing, IInv, Behind, UpToDate,
           Beside \/ \E s \in Indexers : Step(s)
    PROVE  Behind' /\ UpToDate'
  <1>0. Shape /\ AtRest /\ Complete
    BY DEF IInv
  <1>1. CASE Beside
    <2>1. ASSUME UNCHANGED <<rows, meta, proc, load, job>>
          PROVE  Behind' /\ UpToDate'
      BY <2>1, MapsKept DEF UpToDate
    <2>2. (\E s \in Procs : LoadStep(s) \/ MapFollows(s)) \/ UNCHANGED <<rows, meta, proc, load, job>>
      BY <1>1 DEF Beside, vars, world, database, ghosts, EditFile, SwitchModel
    <2> QED
      BY <1>0, <2>1, <2>2, LoadSound
  <1>2. ASSUME NEW s \in Indexers, Step(s)
        PROVE  Behind' /\ UpToDate'
    <2>0. s \in Procs /\ Indexers = {s}
      BY IndexAssumption DEF OneIndexer
    <2>1. CASE \/ IndexBegins(s) \/ IndexMarksDirty(s) \/ IndexReuses(s) \/ IndexFails(s)
               \/ SweepReads(s) \/ SweepFails(s) \/ \E B \in SUBSET job[s].left : IndexBatchFails(s, B)
      <3>1. UNCHANGED <<rows, proc, load>>
        BY <2>1 DEF IndexBegins, IndexMarksDirty, IndexReuses, IndexFails, SweepReads,
           SweepFails, IndexBatchFails, database, ghosts
      <3>2. meta'.gen = meta.gen /\ meta'.state \in {meta.state, "dirty"}
        BY <1>0, <2>1 DEF IndexBegins, IndexMarksDirty, IndexReuses, IndexFails, SweepReads,
           SweepFails, IndexBatchFails, database, ghosts, Shape, Metadata
      <3>3. load[s] = None
        <4>1. load[s] = None \/ job[s].pc # "idle"
          BY <2>1 DEF IndexBegins, IndexMarksDirty, IndexReuses, IndexFails, SweepReads,
             SweepFails, IndexBatchFails, NextBatch, Embedding, At
        <4> QED
          BY <4>1 DEF UpToDate
      <3> QED
        BY <2>0, <3>1, <3>2, <3>3, MapsKept
    <2>2. ASSUME NEW p \in job[s].todo, IndexRemoves(s, p) \/ IndexCleans(s, p)
          PROVE  Behind' /\ UpToDate'
      BY <1>0, <2>0, <2>2, DeletesLag
    <2>3. ASSUME NEW B \in SUBSET job[s].left, IndexBatch(s, B)
          PROVE  Behind' /\ UpToDate'
      BY <1>0, <2>0, <2>3, BatchLags
    <2>4. CASE IndexCommits(s)
      BY <1>0, <2>0, <2>4, CommitLags
    <2>5. CASE SweepDeletes(s)
      BY <1>0, <2>0, <2>5, SweepLags
    <2>6. CASE Crash(s) \/ Open(s)
      BY <1>0, <2>6, EmptyMaps
    <2> QED
      BY <1>2, <2>1, <2>2, <2>3, <2>4, <2>5, <2>6 DEF Step
  <1> QED
    BY <1>1, <1>2

MapInv == IInv /\ Behind /\ UpToDate

LEMMA MapInitSound == Init => MapInv
  <1> SUFFICES ASSUME Init PROVE MapInv
    OBVIOUS
  <1>1. \A s \in Procs : proc[s] = Fresh(0) /\ load[s] = None /\ meta.gen = 0
    BY DEF Init
  <1>2. Behind /\ UpToDate
    BY <1>1, IndexAssumption DEF Behind, UpToDate, Fresh
  <1> QED
    BY <1>2, InitSound DEF MapInv

LEMMA MapInvariance ==
    ASSUME OneIndexer, ~SearchWhileIndexing
    PROVE  Spec => []MapInv
  <1>1. Init => MapInv
    BY MapInitSound
  <1>2. MapInv /\ [Next]_vars => MapInv'
    <2> SUFFICES ASSUME MapInv, [Next]_vars PROVE MapInv'
      OBVIOUS
    <2>1. IInv'
      BY StepSound DEF MapInv
    <2>2. Behind' /\ UpToDate'
      BY StepCases, MapStep DEF MapInv, IInv
    <2> QED
      BY <2>1, <2>2 DEF MapInv
  <1> QED
    BY <1>1, <1>2, PTL DEF Spec

LEMMA MapIsWhole == MapInv => CurrentIsWhole
  <1> SUFFICES ASSUME MapInv, Quiet, meta.state = "ready", NEW s \in Procs, Current(s)
               PROVE  proc[s].map = [i \in Ids |-> Vector(i)]
    BY DEF CurrentIsWhole
  <1>1. proc[s].change = None /\ proc[s].map \in Map
    BY DEF Quiet, MapInv, IInv, Shape, Process
  <1>2. CASE s \in Indexers
    <2>1. Version(s) = meta.gen
      BY <1>1 DEF Version, Current
    <2>2. \A i \in Ids : Vector(i) = proc[s].map[i]
      BY <1>1, <1>2, <2>1 DEF MapInv, UpToDate, Current
    <2> QED
      BY <1>1, <2>2 DEF Map
  <1>3. CASE s \notin Indexers
    BY <1>3 DEF MapInv, UpToDate, Current, Vectors
  <1> QED
    BY <1>2, <1>3

\* While a process does not load its map in the middle of a run of its own,
\* none overlooks a publication, whatever its loading overlaps with: between
\* runs, the map that a process takes for current has the vectors of the index.
THEOREM CurrentIsWholeHolds ==
    ASSUME OneIndexer, ~SearchWhileIndexing
    PROVE  Spec => []CurrentIsWhole
  BY MapIsWhole, MapInvariance, PTL

-----------------------------------------------------------------------------
(* The models.                                                             *)

\* A run that begins without a rebuild finds the vectors of one model.
LEMMA BeginsUniform ==
    ASSUME Shape, Complete, Uniform, NEW s \in Indexers, IndexBegins(s)
    PROVE  ModelsKept(s)'
  <1>0. s \in Procs
    BY IndexAssumption
  <1>1. UNCHANGED <<model, rows, tracked, meta, leftover>>
    BY DEF IndexBegins, world, database, ghosts
  <1>2. PICK j \in Runs : j = job'[s]
    BY <1>0, BeginsType
  <1>3. /\ j.reuse = {} /\ j.model = None /\ j.rebuild = needsRebuild
        /\ \A p \in j.add : p \in Paths /\ disk[p] # None
        /\ \A i \in Ids : i[1] \in j.add /\ InDoc(j.files, i) => i \in j.left
    BY <1>0, <1>2, BeginsIs
  <1>4. ASSUME ~j.rebuild, meta.model # None, j.add # {}
        PROVE  model \in {meta.model, None}
    BY <1>3, <1>4 DEF needsRebuild, collectDocuments
  <1>5. ASSUME ~j.rebuild, ~leftover, NEW i \in Ids
        PROVE  Plain(i, meta.model)
    <2>1. meta.state # "dirty"
      BY <1>3, <1>5 DEF needsRebuild
    <2>2. CASE meta.state = "absent"
      BY <2>2 DEF Uniform, Plain
    <2>3. CASE meta.state = "ready"
      <3>1. proc[s].up /\ job[s].pc = "idle"
        BY DEF IndexBegins, At
      <3>2. NoOrphans
        BY <1>5, <2>3, <3>1 DEF Complete
      <3> QED
        BY <1>5, <2>3, <3>2 DEF Uniform, NoOrphans, Plain
    <2> QED
      BY <2>1, <2>2, <2>3 DEF Shape, Metadata
  <1> QED
    BY <1>1, <1>2, <1>3, <1>4, <1>5 DEF ModelsKept, Plain, InDoc

\* What may be kept is of the model of the index.
LEMMA ReusesUniform ==
    ASSUME Shape, Complete, Uniform, NEW s \in Indexers, IndexReuses(s)
    PROVE  ModelsKept(s)'
  <1>0. s \in Procs
    BY IndexAssumption
  <1>1. job[s].pc = "removes" /\ UNCHANGED <<model, rows, tracked, meta, leftover>>
    BY DEF IndexReuses, At, world, database, ghosts
  <1>2. PICK j \in Runs : j = job[s]
    BY <1>0, <1>1, RunIs
  <1> DEFINE kept == IF job[s].rebuild THEN {}
                     ELSE {Vector(i) : i \in {k \in Ids : k[1] \in job[s].add}} \ {None}
  <1>8. ASSUME NEW v \in kept
        PROVE  ~j.rebuild /\ \E i \in Ids : v = Vector(i) /\ v # None
    BY <1>2, <1>8
  <1> HIDE DEF kept
  <1>3. job' = [job EXCEPT ![s] =
                  [job[s] EXCEPT !.pc = "cleans", !.todo = job[s].add, !.reuse = kept]]
    BY DEF IndexReuses, kept
  <1>4. /\ job'[s].pc = "cleans" /\ job'[s].files = j.files
        /\ job'[s].rebuild = j.rebuild /\ job'[s].add = j.add
        /\ job'[s].left = j.left /\ job'[s].failed = j.failed
        /\ job'[s].model = j.model /\ job'[s].reuse = kept
    BY <1>0, <1>2, <1>3 DEF Shape, Runs
  <1>9. j.rebuild => kept = {}
    BY <1>8
  <1>5. ModelsKept(s) /\ Planned(s)
    BY <1>1 DEF Uniform, Complete, Running
  <1>6. \A i \in Ids : i[1] \in j.add /\ InDoc(j.files, i) => i \in j.left
    BY <1>1, <1>2, <1>5 DEF Planned
  <1>7. ASSUME ~j.rebuild, ~leftover, NEW v \in kept
        PROVE  v.model \in {None, meta.model}
    <2>1. PICK i \in Ids : v = Vector(i) /\ v # None
      BY <1>7, <1>8
    <2>2. Plain(i, meta.model)
      BY <1>1, <1>2, <1>5, <1>7 DEF ModelsKept
    <2> QED
      BY <2>1, <2>2 DEF Vector, Plain
  <1> QED
    BY <1>1, <1>2, <1>4, <1>5, <1>6, <1>7, <1>9 DEF ModelsKept, Plain, InDoc

LEMMA DeletesUniform ==
    ASSUME Shape, Complete, Uniform, NEW s \in Indexers, NEW p \in job[s].todo,
           IndexRemoves(s, p) \/ IndexCleans(s, p)
    PROVE  ModelsKept(s)'
  <1>0. s \in Procs
    BY IndexAssumption
  <1>1. job[s].pc \in {"removes", "cleans"} /\ job[s] \in Runs
    BY <1>0, RunIs DEF IndexRemoves, IndexCleans, At
  <1>2. /\ job'[s] = [job[s] EXCEPT !.todo = @ \ {p}]
        /\ UNCHANGED <<model, tracked, meta, leftover>>
        /\ \A i \in Ids : rows'[i] = rows[i] \/ rows'[i] = None
    BY <1>0 DEF IndexRemoves, IndexCleans, DeleteByDocPath, Shape, ghosts, world, Map
  <1>3. PICK j \in Runs : j = job[s]
    BY <1>1
  <1>4. /\ job'[s].pc = j.pc /\ job'[s].files = j.files /\ job'[s].rebuild = j.rebuild
        /\ job'[s].add = j.add /\ job'[s].left = j.left /\ job'[s].failed = j.failed
        /\ job'[s].model = j.model /\ job'[s].reuse = j.reuse
    BY <1>2, <1>3 DEF Runs
  <1>5. ModelsKept(s)
    BY <1>1 DEF Uniform, Running
  <1>6. \A i \in Ids : \A m : Plain(i, m) => (rows'[i] # None => rows'[i].model \in {None, m})
    BY <1>2 DEF Plain
  <1> QED
    BY <1>2, <1>3, <1>4, <1>5, <1>6 DEF ModelsKept, Plain, InDoc

\* The model that a batch adds is that of the run.
LEMMA BatchUniform ==
    ASSUME Shape, Complete, Uniform, NEW s \in Indexers, NEW B \in SUBSET job[s].left,
           IndexBatch(s, B), job'[s].pc # "idle"
    PROVE  ModelsKept(s)'
  <1>0. s \in Procs
    BY IndexAssumption
  <1>1. /\ job[s] \in Runs /\ job[s].pc = "cleans"
        /\ \A i \in B : i \in Ids /\ InDoc(job[s].files, i) /\ i[1] \in job[s].add
        /\ rows' = [i \in Ids |-> IF i \in B THEN Written(s, i) ELSE rows[i]]
    BY BatchWrites
  <1>2. PICK j \in Runs : j = job[s]
    BY <1>1
  <1>3. UNCHANGED <<model, tracked, meta, leftover>>
    BY DEF IndexBatch, ghosts, world
  <1>4. PICK new : new = {i \in B : Kept(s, TextOf(s, i)) = {}}
    OBVIOUS
  <1>5. PICK answered : answered = IF new = {} \/ j.keywordOnly THEN None ELSE model
    OBVIOUS
  <1>6. /\ new = {} \/ j.keywordOnly \/ model # None
        /\ answered = None \/ j.model \in {None, answered}
        /\ job' = [job EXCEPT ![s].left = @ \ B,
                     ![s].model = IF answered = None THEN @ ELSE answered]
    <2>1. job'[s] # Idle
      BY DEF Idle
    <2> QED
      BY <1>0, <1>2, <1>4, <1>5, <2>1 DEF IndexBatch, Ends, Shape
  <1>7. PICK m : m = IF answered = None THEN j.model ELSE answered
    OBVIOUS
  <1>8. /\ job'[s].pc = "cleans" /\ job'[s].files = j.files /\ job'[s].rebuild = j.rebuild
        /\ job'[s].add = j.add /\ job'[s].left = j.left \ B /\ job'[s].failed = j.failed
        /\ job'[s].model = m /\ job'[s].reuse = j.reuse
    BY <1>0, <1>1, <1>2, <1>6, <1>7 DEF Shape, Runs
  <1>9. ModelsKept(s)
    BY <1>1 DEF Uniform, Running
  <1>10. ASSUME m # None PROVE model \in {m, None}
    BY <1>2, <1>5, <1>7, <1>9, <1>10 DEF ModelsKept
  <1>11. ASSUME ~j.rebuild, meta.model # None
         PROVE  /\ j.add # {} => model \in {meta.model, None}
                /\ m \in {None, meta.model}
    BY <1>1, <1>2, <1>4, <1>5, <1>6, <1>7, <1>9, <1>11 DEF ModelsKept
  <1>12. ASSUME NEW i \in Ids, i \notin B
         PROVE  rows'[i] = rows[i]
    BY <1>1, <1>12
  <1>13. ASSUME NEW i \in B
         PROVE  \/ rows'[i].model \in {None, m}
                \/ ~j.rebuild /\ (leftover \/ rows'[i].model \in {None, meta.model})
    <2>1. rows'[i] = Written(s, i) /\ i \in Ids /\ InDoc(job[s].files, i)
      BY <1>1
    <2>2. CASE j.keywordOnly
      BY <1>0, <1>1, <1>2, <2>1, <2>2, WrittenIs
    <2>3. CASE ~j.keywordOnly /\ Kept(s, TextOf(s, i)) = {}
      <3>1. i \in new /\ Written(s, i).model = model
        BY <1>0, <1>1, <1>2, <1>4, <2>1, <2>3, WrittenIs
      <3>2. answered = model
        BY <1>5, <2>3, <3>1
      <3> QED
        BY <1>7, <2>1, <3>1, <3>2
    <2>4. CASE ~j.keywordOnly /\ Kept(s, TextOf(s, i)) # {}
      <3>1. Written(s, i) \in j.reuse
        BY <1>0, <1>1, <1>2, <2>1, <2>4, WrittenIs
      <3> QED
        BY <1>2, <1>9, <2>1, <3>1 DEF ModelsKept
    <2> QED
      BY <2>2, <2>3, <2>4
  <1>14. ASSUME NEW i \in Ids, i \notin B, Plain(i, j.model)
         PROVE  rows'[i] # None => rows'[i].model \in {None, m}
    BY <1>6, <1>7, <1>12, <1>14 DEF Plain
  <1>15. ASSUME NEW i \in Ids, i[1] \in j.add \ j.failed, InDoc(j.files, i), i \notin j.left \ B
         PROVE  IF j.rebuild THEN (rows'[i] # None => rows'[i].model \in {None, m})
                ELSE \/ leftover \/ (rows'[i] # None => rows'[i].model \in {None, m})
                     \/ (rows'[i] # None => rows'[i].model \in {None, meta.model})
    <2>1. CASE i \in B
      BY <1>13, <2>1
    <2>2. CASE i \notin B
      <3>1. IF j.rebuild THEN Plain(i, j.model)
            ELSE leftover \/ Plain(i, j.model) \/ Plain(i, meta.model)
        BY <1>2, <1>9, <1>15, <2>2 DEF ModelsKept
      <3> QED
        BY <1>12, <1>14, <2>2, <3>1 DEF Plain
    <2> QED
      BY <2>1, <2>2
  <1>16. ASSUME ~j.rebuild, ~leftover, NEW i \in Ids, i[1] \notin j.add
         PROVE  rows'[i] # None => rows'[i].model \in {None, meta.model}
    <2>1. i \notin B
      BY <1>1, <1>2, <1>16
    <2> QED
      BY <1>2, <1>9, <1>12, <1>16, <2>1 DEF ModelsKept, Plain
  <1>17. /\ j.rebuild => j.reuse = {}
         /\ ~j.rebuild /\ ~leftover => \A v \in j.reuse : v.model \in {None, meta.model}
    BY <1>2, <1>9 DEF ModelsKept
  <1> QED
    BY <1>3, <1>8, <1>10, <1>11, <1>15, <1>16, <1>17 DEF ModelsKept, Plain, InDoc

\* A finished run leaves vectors of the model that it publishes.
LEMMA CommitsUniform ==
    ASSUME Shape, Complete, Uniform, NEW s \in Indexers, IndexCommits(s),
           meta'.state = "ready", ~leftover', NEW i \in Ids, InDoc(tracked', i)
    PROVE  rows' = rows /\ Plain(i, meta'.model)
  <1>0. s \in Procs
    BY IndexAssumption
  <1>1. job[s].pc = "cleans" /\ job[s].left = {} /\ rows' = rows
    BY DEF IndexCommits, Embedding, At
  <1>2. PICK j \in Runs : j = job[s]
    BY <1>0, <1>1, RunIs
  <1>3. ModelsKept(s) /\ Planned(s)
    BY <1>1 DEF Uniform, Complete, Running
  <1>4. j.failed = {} /\ ~(leftover /\ ~j.rebuild)
    BY <1>2 DEF IndexCommits, CommitIndexState
  <1>5. /\ tracked' = [p \in Paths |-> IF p \in j.add THEN j.files[p]
                                       ELSE IF p \in j.remove THEN None ELSE tracked[p]]
        /\ meta'.model = IF j.model # None THEN j.model ELSE meta.model
    BY <1>2, <1>4 DEF IndexCommits, CommitIndexState
  <1>6. i[1] \in Paths
    BY IdParts
  <1>7. CASE i[1] \in j.add
    <2>1. InDoc(j.files, i)
      BY <1>5, <1>6, <1>7 DEF InDoc
    <2>2. IF j.rebuild THEN Plain(i, j.model) ELSE Plain(i, j.model) \/ Plain(i, meta.model)
      BY <1>1, <1>2, <1>3, <1>4, <1>7, <2>1 DEF ModelsKept
    <2> QED
      BY <1>1, <1>2, <1>3, <1>5, <2>2 DEF ModelsKept, Plain
  <1>8. CASE i[1] \notin j.add
    <2>1. i[1] \notin j.remove /\ tracked[i[1]] # None
      BY <1>5, <1>6, <1>8 DEF InDoc
    <2>2. ~j.rebuild
      BY <1>2, <1>3, <1>6, <1>8, <2>1 DEF Planned
    <2>3. Plain(i, meta.model)
      BY <1>2, <1>3, <1>4, <1>8, <2>2 DEF ModelsKept
    <2> QED
      BY <1>1, <1>2, <1>3, <1>5, <2>2, <2>3 DEF ModelsKept, Plain
  <1> QED
    BY <1>7, <1>8

LEMMA UniformStep ==
    ASSUME OneIndexer, ~FailOver, IInv, Uniform, Beside \/ \E s \in Indexers : Step(s)
    PROVE  Uniform'
  <1>0. Shape /\ AtRest /\ Complete
    BY DEF IInv
  <1>1. CASE Beside
    <2>1. UNCHANGED <<rows, tracked, meta, leftover, unswept, job>>
      BY <1>0, <1>1, BesideKeeps
    <2>2. CASE model' = model
      BY <2>1, <2>2 DEF Uniform, Running, ModelsKept, Plain, InDoc
    <2>3. CASE model' # model
      <3>1. PICK m \in Models \cup {None} : SwitchModel(m)
        <4>1. ASSUME NEW t \in Procs, LoadStep(t) \/ MapFollows(t)
              PROVE  FALSE
          BY <1>0, <2>3, <4>1, LoadKeeps
        <4> QED
          BY <1>1, <2>3, <4>1 DEF Beside, vars, world, EditFile
      <3>2. model' = None \/ \A t \in Procs : ~Running(t)
        BY <3>1 DEF SwitchModel, Running
      <3> QED
        BY <2>1, <3>2, IndexAssumption DEF Uniform, Running, ModelsKept, Plain, InDoc
    <2> QED
      BY <2>2, <2>3
  <1>2. ASSUME NEW s \in Indexers, Step(s)
        PROVE  Uniform'
    <2>0. s \in Procs /\ Indexers = {s}
      BY IndexAssumption DEF OneIndexer
    <2> SUFFICES
          /\ meta'.state = "absent" => \A i \in Ids : rows'[i] = None
          /\ meta'.state = "ready" /\ ~leftover' =>
               (\A i \in Ids : InDoc(tracked, i) => Plain(i, meta.model))'
          /\ Running(s)' => ModelsKept(s)'
      BY <2>0 DEF Uniform
    <2>1. CASE IndexBegins(s) \/ IndexReuses(s)
      <3>1. UNCHANGED database
        BY <2>1 DEF IndexBegins, IndexReuses
      <3>2. ModelsKept(s)'
        BY <1>0, <2>1, BeginsUniform, ReusesUniform
      <3> QED
        BY <3>1, <3>2 DEF Uniform, Plain, InDoc, database, ghosts
    <2>2. CASE IndexMarksDirty(s)
      <3>1. PICK j \in Runs : j = job[s] /\ j.pc = "marks"
        BY <1>0, <2>0, <2>2, RunIs DEF IndexMarksDirty, At
      <3>2. /\ UNCHANGED <<model, rows, tracked, leftover>>
            /\ meta'.state = "dirty" /\ meta'.model = meta.model
        BY <1>0, <2>2 DEF IndexMarksDirty, Shape, Metadata, ghosts, world
      <3>3. /\ job'[s].pc = "removes" /\ job'[s].files = j.files /\ job'[s].rebuild = j.rebuild
            /\ job'[s].add = j.add /\ job'[s].left = j.left /\ job'[s].failed = j.failed
            /\ job'[s].model = j.model /\ job'[s].reuse = j.reuse
        BY <1>0, <2>0, <2>2, <3>1 DEF IndexMarksDirty, Shape, Runs
      <3>4. ModelsKept(s)
        BY <2>0, <3>1 DEF Uniform, Running
      <3> QED
        BY <3>1, <3>2, <3>3, <3>4 DEF ModelsKept, Plain, InDoc
    <2>3. ASSUME NEW p \in job[s].todo, IndexRemoves(s, p) \/ IndexCleans(s, p)
          PROVE  meta'.state = "dirty" /\ ModelsKept(s)'
      <3>1. meta' = meta /\ job[s].pc \in {"removes", "cleans"}
        BY <2>3 DEF IndexRemoves, IndexCleans, At
      <3> QED
        BY <1>0, <2>3, <3>1, DeletesUniform DEF Complete
    <2>4. ASSUME NEW B \in SUBSET job[s].left, IndexBatch(s, B)
          PROVE  meta'.state = "dirty" /\ (Running(s)' => ModelsKept(s)')
      <3>1. meta' = meta /\ job[s].pc = "cleans"
        BY <1>0, <2>4, BatchWrites DEF IndexBatch
      <3> QED
        BY <1>0, <2>4, <3>1, BatchUniform DEF Complete, Running
    <2>5. ASSUME NEW B \in SUBSET job[s].left, IndexBatchFails(s, B)
          PROVE  meta'.state = "dirty" /\ ModelsKept(s)'
      <3>1. PICK j \in Runs : j = job[s] /\ j.pc = "cleans"
        BY <1>0, <2>0, <2>5, RunIs DEF IndexBatchFails, NextBatch, Embedding, At
      <3>2. UNCHANGED <<model, rows, tracked, meta, leftover>>
        BY <2>5 DEF IndexBatchFails, database, ghosts, world
      <3>3. /\ job'[s].pc = "cleans" /\ job'[s].files = j.files /\ job'[s].rebuild = j.rebuild
            /\ job'[s].add = j.add /\ job'[s].left = j.left \ B
            /\ job'[s].failed = j.failed \cup {i[1] : i \in B}
            /\ job'[s].model = j.model /\ job'[s].reuse = j.reuse
        BY <1>0, <2>0, <2>5, <3>1 DEF IndexBatchFails, Shape, Runs
      <3>4. ModelsKept(s) /\ meta.state = "dirty"
        BY <1>0, <2>0, <3>1 DEF Uniform, Complete, Running
      <3>5. \A i \in Ids : i[1] \in j.add \ job'[s].failed => i \notin B
        BY <3>3
      <3> QED
        BY <3>1, <3>2, <3>3, <3>4, <3>5 DEF ModelsKept, Plain, InDoc
    <2>6. CASE IndexFails(s) \/ Crash(s) \/ Open(s)
      <3>1. UNCHANGED <<rows, tracked, meta, leftover>> /\ job'[s].pc \in {"idle", "sweeps"}
        BY <1>0, <2>0, <2>6 DEF IndexFails, Crash, Open, Ends, Idle, Shape, database, ghosts
      <3> QED
        BY <3>1 DEF Uniform, Running, Plain, InDoc
    <2>7. CASE IndexCommits(s)
      <3>1. job'[s].pc = "sweeps" /\ meta'.state \in {"ready", "dirty"}
        BY <1>0, <2>0, <2>7 DEF IndexCommits, CommitIndexState, Shape
      <3> QED
        BY <1>0, <2>7, <3>1, CommitsUniform DEF Running, Plain, InDoc
    <2>8. CASE SweepReads(s) \/ SweepFails(s)
      <3>1. UNCHANGED <<rows, tracked, meta>> /\ (~leftover' => ~leftover)
        BY <2>8 DEF SweepReads, SweepFails
      <3>2. job'[s].pc \in {"idle", "deletes"}
        BY <1>0, <2>0, <2>8 DEF SweepReads, SweepFails, Ends, Idle, Shape
      <3> QED
        BY <3>1, <3>2 DEF Uniform, Running, Plain, InDoc
    <2>9. CASE SweepDeletes(s)
      <3>1. /\ \A i \in Ids : rows'[i] = rows[i] \/ rows'[i] = None
            /\ UNCHANGED <<tracked, leftover>> /\ job'[s].pc = "idle"
            /\ meta'.state = meta.state /\ meta'.model = meta.model
        BY <1>0, <2>0, <2>9 DEF SweepDeletes, Ends, Idle, ghosts, Shape, Metadata
      <3> QED
        BY <3>1 DEF Uniform, Running, Plain, InDoc
    <2> QED
      BY <1>2, <2>1, <2>2, <2>3, <2>4, <2>5, <2>6, <2>7, <2>8, <2>9 DEF Step
  <1> QED
    BY <1>1, <1>2

LEMMA UniformInvariance ==
    ASSUME OneIndexer, ~SearchWhileIndexing, ~FailOver
    PROVE  Spec => [](MapInv /\ Uniform)
  <1>1. Init => MapInv /\ Uniform
    <2>1. ASSUME Init PROVE Uniform
      <3>1. /\ rows = NoVectors /\ meta.state = "absent"
            /\ \A s \in Procs : job[s].pc = "idle"
        BY <2>1 DEF Init, Idle
      <3> QED
        BY <3>1, IndexAssumption DEF Uniform, Running, NoVectors
    <2> QED
      BY <2>1, MapInitSound
  <1>2. (MapInv /\ Uniform) /\ [Next]_vars => (MapInv /\ Uniform)'
    <2> SUFFICES ASSUME MapInv, Uniform, [Next]_vars PROVE MapInv' /\ Uniform'
      OBVIOUS
    <2>1. Beside \/ \E s \in Indexers : Step(s)
      BY StepCases DEF MapInv, IInv
    <2>2. IInv' /\ Behind' /\ UpToDate'
      BY <2>1, StepSound, MapStep DEF MapInv
    <2> QED
      BY <2>1, <2>2, UniformStep DEF MapInv
  <1> QED
    BY <1>1, <1>2, PTL DEF Spec

\* While one model answers in a run, whatever was kept from before a switch of
\* models, an outage or a failed run: a search of a ready index compares its
\* query with vectors of the query's model alone.
THEOREM OneModelHolds ==
    ASSUME OneIndexer, ~SearchWhileIndexing, ~FailOver
    PROVE  Spec => []OneModel
  <1>1. MapInv /\ Uniform => OneModel
    <2> SUFFICES ASSUME MapInv, Uniform, Quiet, meta.state = "ready", ~leftover,
                        Expected # {}, search = "vectors",
                        NEW s \in Procs, Current(s),
                        NEW i \in Ids, proc[s].map[i] # None
                 PROVE  proc[s].map[i].model = model
      BY DEF OneModel
    <2>1. proc[s].map = [k \in Ids |-> Vector(k)]
      BY MapIsWhole DEF CurrentIsWhole
    <2>2. rows[i] # None /\ rows[i].model # None /\ proc[s].map[i] = rows[i]
      BY <2>1 DEF Vector
    <2>3. NoOrphans
      BY DEF MapInv, IInv, Complete, OneIndexer, Quiet
    <2>4. InDoc(tracked, i)
      BY <2>2, <2>3 DEF NoOrphans
    <2>5. rows[i].model \in {None, meta.model}
      BY <2>2, <2>4 DEF Uniform, Plain
    <2>6. meta.model \in {None, model}
      BY DEF search
    <2> QED
      BY <2>2, <2>5, <2>6
  <1> QED
    BY <1>1, UniformInvariance, PTL
=============================================================================
