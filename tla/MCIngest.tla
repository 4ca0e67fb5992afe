------------------------------ MODULE MCIngest ------------------------------
(***************************************************************************)
(* Three memories; three contents whose edges make one chain of five, the  *)
(* second content long, and a fourth the model finds nothing in; and one   *)
(* hosted and one local provider.  Each behaviour spends one of five       *)
(* budgets: on the breakers, on extractions that overlap, on one and a     *)
(* content nobody extracts, on deletions and crashes, or on walks over a   *)
(* graph that is there from the start.                                     *)
(***************************************************************************)
EXTENDS Ingest, TLC

CONSTANTS m1, m2, m3, b1, b2, b3, b4, w1, w2

TheFacts ==
    (b1 :> {<<"a", "b">>}) @@ (b2 :> {<<"b", "c">>, <<"c", "d">>, <<"d", "e">>})
    @@ (b3 :> {<<"e", "f">>}) @@ (b4 :> {})

TheSize == (b1 :> "short") @@ (b2 :> "long") @@ (b3 :> "short") @@ (b4 :> "short")

NoBudget == [k \in Kinds |-> 0]

Breakers == [NoBudget EXCEPT !["write"] = 1, !["batch"] = 3, !["cancel"] = 1,
                             !["cool"] = 1, !["outage"] = 3]
Extracting == [NoBudget EXCEPT !["write"] = 2, !["cli"] = 1, !["fail"] = 1]
Deletions == [NoBudget EXCEPT !["write"] = 1, !["delete"] = 1, !["cli"] = 1,
                             !["crash"] = 1]
Rewriting == [NoBudget EXCEPT !["write"] = 1, !["rewrite"] = 1, !["cli"] = 1]
Walking == [NoBudget EXCEPT !["query"] = 1, !["delete"] = 1]

TheBudgets == {Breakers, Extracting, Rewriting, Deletions, Walking}

TheRows == [Ids -> {b1, b2, b3, None}]

Plain == [resume |-> TRUE, force |-> FALSE, dry |-> FALSE, limit |-> 0]

\* The default, --force --limit 1, and --resume=false --dry-run.
TheOptions == {Plain, [Plain EXCEPT !.force = TRUE, !.limit = 1],
               [Plain EXCEPT !.resume = FALSE, !.dry = TRUE]}

\* The extractor shares endpoint and key with the embeddings.
TheExtractor == [enabled |-> TRUE, url |-> "api.openai", key |-> "", model |-> "small"]

TheOpenAI == [url |-> "api.openai", key |-> "sk"]

\* A behaviour that walks starts from a full file, the one that replaces triples
\* from a file with one memory, the one about breakers from an empty one.
SmallInit ==
    /\ Init
    /\ Cardinality(Live) = CASE left = Walking -> 3
                             [] left = Breakers -> 0
                             [] OTHER -> 1

SmallSpec == SmallInit /\ [][Next]_vars

Symmetry == Permutations(Ids) \cup Permutations(Writers)

=============================================================================
