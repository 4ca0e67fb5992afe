---------------------------- MODULE TripleGraph ----------------------------
(***************************************************************************)
(* The knowledge graph of the memories: triples extracted from a memory's  *)
(* content by a language model, in a goroutine of its own after the write  *)
(* returned, and by the index-triples command, another process on the same *)
(* file; and the graph-walk recall that reads them.                        *)
(*                                                                         *)
(* A replacement of the triples of a memory takes three steps: the model   *)
(* is asked, the triples the memory has are deleted, the new ones are      *)
(* added in one transaction.  Nothing orders two replacements of one       *)
(* memory.  Relations are left out: an edge is a pair of entities.         *)
(***************************************************************************)
EXTENDS Integers, FiniteSets, GraphWalk

CONSTANTS
    Ids, Contents, Writers, None,
    Facts,       \* the edges the model finds in a content, {} when it has none
    TripleExtractor, \* MCP_TRIPLE_EXTRACTOR_*: [enabled, url, key, model]
    OpenAI,      \* the endpoint and key of the embeddings: [url, key]
    MaxHops,     \* hops of the walk, after RecallMultihop's clamp
    Limit        \* results of the walk

\* A replacement of a memory's triples, and a run of index-triples.
Replacement == [memory : Ids, content : Contents, at : {"extract", "delete", "add"},
                batch : Nat]
Options == [resume : BOOLEAN, force : BOOLEAN, dry : BOOLEAN, limit : Nat]
Indexing == [todo : SUBSET Ids, seen : [Ids -> Contents \cup {None}],
             job : Replacement \cup {None}, processed : Nat, opt : Options]

ASSUME GraphAssumption ==
    /\ TripleExtractor \in [enabled : BOOLEAN, url : STRING, key : STRING, model : STRING]
    /\ OpenAI \in [url : STRING, key : STRING]
    /\ None \notin Ids \cup Contents \cup Writers \cup Replacement \cup Indexing
    /\ MaxHops \in 1 .. 4 /\ Limit \in Nat \ {0}

VARIABLES
    rows,      \* content of each memory, None when there is no row
    used,      \* ids ever drawn: uuid.New never repeats one
    graph,     \* memory_triples: [memory, edge, batch]
    writeMu,   \* the daemon's writer lock
    jobs,      \* extraction goroutines of the daemon
    batches,   \* replacements begun so far: names the triples of each of them
    cli,       \* the index-triples process, None when it does not run
    walk,      \* a RecallMultihop call, None when there is none
    torn,      \* ghost: memories a replacement of which overlapped another write
    behind     \* ghost: memories whose present content was never extracted

-----------------------------------------------------------------------------
(* Whether there is an extractor; "" is a variable that is not set.        *)

\* An own key goes to the own endpoint; the OpenAI key to OpenAI's alone.
TripleExtractorCredentials ==
    LET own == TripleExtractor
        url == IF own.url = "" THEN OpenAI.url ELSE own.url IN
    IF own.key # "" THEN [url |-> url, key |-> own.key]
    ELSE IF url # OpenAI.url THEN [url |-> "", key |-> ""]
    ELSE [url |-> url, key |-> OpenAI.key]

\* Without an endpoint, a key or a model there is none.
NewOpenAIExtractor(credentials) ==
    "" \notin {credentials.url, credentials.key, TripleExtractor.model}

\* The daemon goes on without an extractor, the command does not start.
wireTripleExtractor ==
    TripleExtractor.enabled /\ NewOpenAIExtractor(TripleExtractorCredentials)

-----------------------------------------------------------------------------
graphVars == <<rows, used, graph, writeMu, jobs, batches, cli, walk, torn, behind>>

Live == {m \in Ids : rows[m] # None}

TriplesForMemory(g, m) == {t \in g : t.memory = m}

DeleteTriplesForMemory(g, m) == {t \in g : t.memory # m}

\* One transaction, with fresh ids: repeated batches pile up.
AddTriples(g, j) ==
    g \cup {[memory |-> j.memory, edge |-> e, batch |-> j.batch] :
            e \in Facts[j.content]}

\* Replacements of m in flight, the daemon's and the command's.
Replacing(m) ==
    {j \in jobs : j.memory = m}
    \cup (IF cli # None /\ cli.job # None /\ cli.job.memory = m
          THEN {cli.job} ELSE {})

\* The daemon opens a file whose memories r were all extracted.
GraphInit(r) ==
    /\ rows = r
    /\ used = {m \in Ids : r[m] # None}
    /\ graph = UNION {{[memory |-> m, edge |-> e, batch |-> 0] : e \in Facts[r[m]]} :
                       m \in used}
    /\ writeMu = None
    /\ jobs = {} /\ batches = 1
    /\ cli = None /\ walk = None
    /\ torn = {} /\ behind = {m \in used : Facts[r[m]] = {}}

\* A Delete is between its two statements.
Deleting(m) == writeMu # None /\ writeMu.memory = m

-----------------------------------------------------------------------------
(* Writes of the daemon, each under writeMu.                               *)

\* A goroutine with a copy of the memory.
fanoutTripleExtraction(m, b) ==
    /\ batches' = batches + 1
    /\ jobs' = IF wireTripleExtractor
               THEN jobs \cup {[memory |-> m, content |-> b, at |-> "extract",
                                batch |-> batches]}
               ELSE jobs

\* Store of a fresh id and Update with new content: the row, then the fan-out.
WriteContent(m, b) ==
    /\ writeMu = None /\ (m \in used => rows[m] # None)
    /\ rows' = [rows EXCEPT ![m] = b]
    /\ used' = used \cup {m}
    /\ fanoutTripleExtraction(m, b)
    /\ behind' = behind \cup {m}
    /\ torn' = IF Replacing(m) = {} THEN torn ELSE torn \cup {m}
    /\ UNCHANGED <<graph, writeMu, cli, walk>>

\* New content that nobody extracts: MergeDuplicates has no fan-out, and another
\* process, which has no extractor, writes when it likes.
RewriteContent(m, b) ==
    /\ (m \in used => rows[m] # None) /\ rows[m] # b
    /\ rows' = [rows EXCEPT ![m] = b]
    /\ used' = used \cup {m}
    /\ behind' = behind \cup {m}
    /\ torn' = IF Replacing(m) = {} THEN torn ELSE torn \cup {m}
    /\ UNCHANGED <<graph, writeMu, jobs, batches, cli, walk>>

\* Delete, first statement.
DeleteTriples(w, m) ==
    /\ writeMu = None /\ rows[m] # None
    /\ writeMu' = [owner |-> w, memory |-> m]
    /\ graph' = DeleteTriplesForMemory(graph, m)
    /\ behind' = behind \cup {m}
    /\ torn' = IF Replacing(m) = {} THEN torn ELSE torn \cup {m}
    /\ UNCHANGED <<rows, used, jobs, batches, cli, walk>>

\* Delete, second statement; it may fail, and then the row stays.
DeleteRow(w) ==
    /\ writeMu # None /\ writeMu.owner = w
    /\ \/ /\ rows' = [rows EXCEPT ![writeMu.memory] = None]
          /\ behind' = behind \ {writeMu.memory}
       \/ UNCHANGED <<rows, behind>>
    /\ writeMu' = None
    /\ torn' = IF Replacing(writeMu.memory) = {} THEN torn
               ELSE torn \cup {writeMu.memory}
    /\ UNCHANGED <<used, graph, jobs, batches, cli, walk>>

-----------------------------------------------------------------------------
(* The steps of a replacement.                                             *)

\* Extract: nothing valid in the answer ends the replacement, like an error.
Extracts(j) == Facts[j.content] # {}

\* Mutant: the triples of earlier extractions stay.
Dropped_none(j) == graph

\* DeleteTriplesForMemory, the first half of the replacement.
Dropped(j) == DeleteTriplesForMemory(graph, j.memory)

\* A replacement of the present content that is alone makes up for earlier ones.
Cleared(j) ==
    IF Replacing(j.memory) = {j} /\ rows[j.memory] = j.content /\ ~ Deleting(j.memory)
    THEN torn \ {j.memory} ELSE torn

\* The present content of the memory has its triples now.
Caught(j) == IF rows[j.memory] = j.content THEN behind \ {j.memory} ELSE behind

JobExtract(j) ==
    /\ j \in jobs /\ j.at = "extract"
    /\ jobs' = (jobs \ {j}) \cup {[j EXCEPT !.at = "delete"]}
    /\ Extracts(j)
    /\ UNCHANGED <<rows, used, graph, writeMu, batches, cli, walk, torn, behind>>

JobDelete(j) ==
    /\ j \in jobs /\ j.at = "delete" /\ writeMu = None
    /\ jobs' = (jobs \ {j}) \cup {[j EXCEPT !.at = "add"]}
    /\ graph' = Dropped(j)
    /\ torn' = Cleared(j)
    /\ UNCHANGED <<rows, used, writeMu, batches, cli, walk, behind>>

JobAdd(j) ==
    /\ j \in jobs /\ j.at = "add" /\ writeMu = None
    /\ jobs' = jobs \ {j}
    /\ graph' = AddTriples(graph, j)
    /\ behind' = Caught(j)
    /\ UNCHANGED <<rows, used, writeMu, batches, cli, walk, torn>>

\* Whatever step fails, or finds nothing, ends the goroutine with a warning.
JobFails(j) ==
    /\ j \in jobs
    /\ jobs' = jobs \ {j}
    /\ behind' = IF j.at = "add" THEN behind \cup {j.memory} ELSE behind
    /\ UNCHANGED <<rows, used, graph, writeMu, batches, cli, walk, torn>>

\* The daemon dies and is started again: goroutines and locks are gone.
CrashGraph ==
    /\ jobs' = {}
    /\ writeMu' = None
    /\ walk' = None
    /\ behind' = behind \cup {j.memory : j \in {k \in jobs : k.at = "add"}}
    /\ UNCHANGED <<rows, used, graph, batches, cli, torn>>

-----------------------------------------------------------------------------
(* index-triples: the list of the memories, then one after the other.      *)

CliStart(options) ==
    /\ cli = None
    /\ options.dry \/ wireTripleExtractor
    /\ cli' = [todo |-> Live, seen |-> rows, job |-> None, processed |-> 0,
               opt |-> options]
    /\ UNCHANGED <<rows, used, graph, writeMu, jobs, batches, walk, torn, behind>>

CliMore == cli.opt.limit = 0 \/ cli.processed < cli.opt.limit

Skips(m) == TriplesForMemory(graph, m) # {} /\ cli.opt.resume /\ ~ cli.opt.force

\* The loop up to Extract: the content is the one the list saw.
CliPick(m) ==
    /\ cli # None /\ cli.job = None /\ m \in cli.todo /\ CliMore
    /\ IF Skips(m) \/ cli.opt.dry \/ Facts[cli.seen[m]] = {}
       THEN /\ cli' = [cli EXCEPT !.todo = @ \ {m}]
            /\ UNCHANGED <<batches, torn>>
       ELSE /\ cli' = [cli EXCEPT !.todo = @ \ {m},
                         !.job = [memory |-> m, content |-> cli.seen[m],
                                  at |-> "delete", batch |-> batches]]
            /\ batches' = batches + 1
            /\ torn' = IF Replacing(m) = {} /\ rows[m] = cli.seen[m] /\ ~ Deleting(m)
                       THEN torn ELSE torn \cup {m}
    /\ UNCHANGED <<rows, used, graph, writeMu, jobs, walk, behind>>

\* The other process knows nothing of the daemon's writeMu.
CliDelete ==
    /\ cli # None /\ cli.job # None /\ cli.job.at = "delete"
    /\ graph' = Dropped(cli.job)
    /\ cli' = [cli EXCEPT !.job.at = "add"]
    /\ torn' = Cleared(cli.job)
    /\ UNCHANGED <<rows, used, writeMu, jobs, batches, walk, behind>>

CliAdd ==
    /\ cli # None /\ cli.job # None /\ cli.job.at = "add"
    /\ graph' = AddTriples(graph, cli.job)
    /\ cli' = [cli EXCEPT !.job = None, !.processed = @ + 1]
    /\ behind' = Caught(cli.job)
    /\ UNCHANGED <<rows, used, writeMu, jobs, batches, walk, torn>>

\* Extract or one of the statements failed: on to the next memory.
CliFails ==
    /\ cli # None /\ cli.job # None
    /\ cli' = [cli EXCEPT !.job = None]
    /\ behind' = IF cli.job.at = "add" THEN behind \cup {cli.job.memory}
                 ELSE behind
    /\ UNCHANGED <<rows, used, graph, writeMu, jobs, batches, walk, torn>>

\* The list is done or the limit reached, or the command is interrupted.
CliEnd ==
    /\ cli # None
    /\ cli' = None
    /\ behind' = IF cli.job # None /\ cli.job.at = "add"
                 THEN behind \cup {cli.job.memory} ELSE behind
    /\ UNCHANGED <<rows, used, graph, writeMu, jobs, batches, walk, torn>>

-----------------------------------------------------------------------------
(* RecallMultihop.  Recall's hits, the triples, then the rows: three reads *)
(* with nothing held between them.                                         *)

\* Recall found the seeds (what it finds is not this module's business).
WalkSeeds(seeds) ==
    /\ walk = None /\ DOMAIN seeds \subseteq Live
    /\ walk' = IF DOMAIN seeds = {} THEN [at |-> "done", found |-> {}]
               ELSE [at |-> "seeded", seeds |-> seeds]
    /\ UNCHANGED <<rows, used, graph, writeMu, jobs, batches, cli, torn, behind>>

\* allTriples and the walk over them.  Seeds that carry no triple are returned
\* as they are, marked degraded, or refused when retrieval is strict.
WalkGraph ==
    /\ walk # None /\ walk.at = "seeded"
    /\ walk' =
         IF graph = {} THEN [at |-> "done", found |-> {}]
         ELSE IF \A t \in graph : t.memory \notin DOMAIN walk.seeds
         THEN [at |-> "done", found |-> DOMAIN walk.seeds]
         ELSE [at |-> "scored", seeds |-> walk.seeds, triples |-> graph,
               score |-> perMemory(graph, walk.seeds, MaxHops)]
    /\ UNCHANGED <<rows, used, graph, writeMu, jobs, batches, cli, torn, behind>>

\* getBatch: a memory gone since is left out, and not made up for.
WalkLoad ==
    /\ walk # None /\ walk.at = "scored"
    /\ \E S \in Ranked(walk.score, Limit) :
         walk' = [at |-> "done", found |-> S \cap Live]
    /\ UNCHANGED <<rows, used, graph, writeMu, jobs, batches, cli, torn, behind>>

WalkDone ==
    /\ walk # None /\ walk.at = "done"
    /\ walk' = None
    /\ UNCHANGED <<rows, used, graph, writeMu, jobs, batches, cli, torn, behind>>

-----------------------------------------------------------------------------
(* Properties.                                                             *)

\* Unless replacements of one memory's triples overlapped another write of it,
\* the graph never holds two extractions of a memory, and once nothing is under
\* way it holds exactly what its present content says and nothing of a memory
\* that is gone (extractor.go:90-99, write.go:82, 215, 239-244,
\* index_triples_cli.go:153-176).  A memory whose content was never extracted
\* to the end may keep the triples of an earlier content, or none.
GraphFollowsContent ==
    \A m \in Ids \ torn :
        LET held == TriplesForMemory(graph, m) IN
        /\ \A t, u \in held : t.batch = u.batch
        /\ Replacing(m) = {} /\ ~ Deleting(m) /\ m \notin behind =>
             {t.edge : t \in held} = IF rows[m] = None THEN {} ELSE Facts[rows[m]]

\* The level-by-level walk, which goes on only from entities it has just reached
\* better, gives every memory the score of the best walks to its triples among
\* all walks of up to MaxHops hops (multihop.go:174-282).
WalkIsBest ==
    walk # None /\ walk.at = "scored" =>
        walk.score = Lifted(walk.triples,
                            [e \in EntitiesOf(walk.triples) |->
                               WorthOf(walk.triples, walk.seeds, e, MaxHops)])

=============================================================================
