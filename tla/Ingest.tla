------------------------------- MODULE Ingest -------------------------------
(***************************************************************************)
(* The embedder, the triple graph and their callers put together: a write  *)
(* embeds its text, commits its row and leaves an extraction behind; a     *)
(* multihop recall embeds its query, takes its seeds and walks the graph;  *)
(* the indexer embeds batches of chunks; index-triples and crashes come    *)
(* when they like.  What a row does with its vector is MemoryStore's       *)
(* business, and what the indexer does with the batch VectorIndex's.       *)
(***************************************************************************)
EXTENDS TripleGraph, Embedder

CONSTANTS
    Recaller,    \* the goroutine of a multihop recall
    Indexer,     \* the goroutine of the RAG indexer
    Size,        \* "short" or "long", for each content
    Texts,       \* contents that requests write
    StartRows,   \* what the file may hold when the daemon opens it
    Scores,      \* what Recall may find a seed to be worth, after the clamp
    CliOptions,  \* command lines of index-triples: [resume, force, dry, limit]
    Budgets      \* how often each bounded step may happen, one choice a behaviour

Kinds == {"write", "delete", "query", "batch", "cancel", "cool", "outage", "fail",
          "cli", "crash", "rewrite"}

ASSUME IngestAssumption ==
    /\ Writers \cup {Recaller, Indexer} = Callers
    /\ Recaller \notin Writers \cup {Indexer} /\ Indexer \notin Writers
    /\ Size \in [Contents -> Sizes]
    /\ Texts \subseteq Contents
    /\ StartRows \subseteq [Ids -> Contents \cup {None}]
    /\ Scores \subseteq 0 .. Unit
    /\ CliOptions \subseteq Options
    /\ Budgets \subseteq [Kinds -> Nat]

VARIABLES
    plan,   \* what each writer is writing: [memory, content]
    left    \* what is left of the budget

vars == <<graphVars, embedVars, plan, left>>

Spend(k) ==
    /\ left[k] > 0
    /\ left' = [left EXCEPT ![k] = @ - 1]

Init ==
    /\ \E r \in StartRows : GraphInit(r)
    /\ EmbedInit
    /\ plan = [w \in Writers |-> None]
    /\ left \in Budgets

-----------------------------------------------------------------------------
(* Writes.                                                                 *)

\* Store (memory None: the id is drawn under the lock) or Update, up to the
\* embedding, which comes before writeMu.
BeginWrite(w, m, b) ==
    /\ plan[w] = None
    /\ plan' = [plan EXCEPT ![w] = [memory |-> m, content |-> b]]
    /\ Embed(w, "write", Size[b])
    /\ Spend("write")
    /\ UNCHANGED graphVars

\* The row is written whether or not the text got a vector, and also when the
\* caller is gone: the row statements do not take its context.
CommitWrite(w) ==
    /\ plan[w] # None
    /\ Return(w)
    /\ plan' = [plan EXCEPT ![w] = None]
    /\ IF plan[w].memory = None
       THEN \E m \in Ids \ used : WriteContent(m, plan[w].content)
       ELSE IF rows[plan[w].memory] = None
       THEN UNCHANGED graphVars
       ELSE WriteContent(plan[w].memory, plan[w].content)
    /\ UNCHANGED left

\* A merge, or a command of another process; the embedding of the text, in the
\* other process or under writeMu, is left out.
Rewrite ==
    /\ \E m \in Ids, b \in Texts : RewriteContent(m, b)
    /\ Spend("rewrite")
    /\ UNCHANGED <<embedVars, plan>>

BeginDelete(w, m) ==
    /\ plan[w] = None /\ call[w] = Nil
    /\ DeleteTriples(w, m)
    /\ Spend("delete")
    /\ UNCHANGED <<embedVars, plan>>

EndDelete(w) == DeleteRow(w) /\ UNCHANGED <<embedVars, plan, left>>

-----------------------------------------------------------------------------
(* The embedder's other callers.                                           *)

BeginRecall ==
    /\ walk = None
    /\ Embed(Recaller, "query", "short")
    /\ Spend("query")
    /\ UNCHANGED <<graphVars, plan>>

\* Recall ranks by the vector, or by words when there is none: it may find any
\* live memories, with any score.
RecallSeeds(seeds) ==
    /\ Return(Recaller)
    /\ WalkSeeds(seeds)
    /\ UNCHANGED <<plan, left>>

BeginBatch(size) ==
    /\ BatchEmbed(Indexer, size)
    /\ Spend("batch")
    /\ UNCHANGED <<graphVars, plan>>

EndBatch == Return(Indexer) /\ UNCHANGED <<graphVars, plan, left>>

-----------------------------------------------------------------------------

EmbedderStep ==
    /\ \/ \E c \in Callers : (candidates(c) \/ exhausted(c)) /\ UNCHANGED left
       \/ \E c \in Callers, o \in Answers :
            /\ attempt(c, o)
            /\ IF o \in {"error", "mismatch"} /\ ~ call[c].dead
               THEN Spend("outage") ELSE UNCHANGED left
       \/ \E c \in Callers : Cancel(c) /\ Spend("cancel")
       \/ \E p \in Chain : Cooled(p) /\ Spend("cool")
    /\ UNCHANGED <<graphVars, plan>>

GraphStep ==
    /\ \/ \E j \in jobs : JobExtract(j) \/ JobDelete(j) \/ JobAdd(j)
       \/ \E m \in Ids : CliPick(m)
       \/ CliDelete \/ CliAdd
       \/ WalkGraph \/ WalkLoad \/ WalkDone
    /\ UNCHANGED <<embedVars, plan, left>>

\* A fan-out that finds nothing is no fault; the rest are.
GraphFault ==
    /\ \/ \E j \in jobs : JobFails(j) /\ (IF Facts[j.content] = {}
                                          THEN UNCHANGED left ELSE Spend("fail"))
       \/ CliFails /\ Spend("fail")
       \/ CliEnd /\ (IF cli.job = None /\ (cli.todo = {} \/ ~ CliMore)
                     THEN UNCHANGED left ELSE Spend("fail"))
    /\ UNCHANGED <<embedVars, plan>>

StartCli ==
    /\ \E o \in CliOptions : CliStart(o)
    /\ Spend("cli")
    /\ UNCHANGED <<embedVars, plan>>

\* The process dies with everything it has in memory, breakers included.
Crash ==
    /\ CrashGraph
    /\ errorCount' = [p \in Chain |-> 0]
    /\ disabledUntil' = [p \in Chain |-> "zero"]
    /\ call' = [c \in Callers |-> Nil]
    /\ lastModelID' = Nil
    /\ cancels' = 0
    /\ plan' = [w \in Writers |-> None]
    /\ Spend("crash")

Next ==
    \/ \E w \in Writers, b \in Texts, m \in used \cup {None} : BeginWrite(w, m, b)
    \/ \E w \in Writers : CommitWrite(w) \/ EndDelete(w)
    \/ \E w \in Writers, m \in Ids : BeginDelete(w, m)
    \/ Rewrite
    \/ BeginRecall
    \/ \E S \in SUBSET Live : \E seeds \in [S -> Scores] : RecallSeeds(seeds)
    \/ \E size \in Sizes : BeginBatch(size)
    \/ EndBatch
    \/ EmbedderStep \/ GraphStep \/ GraphFault \/ StartCli \/ Crash

Spec == Init /\ [][Next]_vars

=============================================================================
