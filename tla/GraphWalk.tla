----------------------------- MODULE GraphWalk -----------------------------
(***************************************************************************)
(* The arithmetic of RecallMultihop as operators: the weighted walk from   *)
(* the entities of the seed memories, level by level, and the score it     *)
(* gives to every memory.  G is a set of triples [memory, edge, batch]; an *)
(* edge is a pair of entities, walked both ways, of weight 1, which is     *)
(* what the extractor gives.  Seeds maps seed memories to what their       *)
(* recall score is worth.  Scores are integers: Unit is a recall score of  *)
(* one, and the damping, exact for its first two hops, rounds down.        *)
(***************************************************************************)
EXTENDS Integers, FiniteSets, FiniteSetsExt

Unit == 800

\* pprDamping = 0.85 per hop.
Damped(s) == (s * 17) \div 20

\* The floor for seeds without a recall score.
Boost(s) == IF s = 0 THEN Unit \div 2 ELSE s

Ends(t) == {t.edge[1], t.edge[2]}

EntitiesOf(G) == UNION {Ends(t) : t \in G}

\* buildEntityAdjacency: the triple leads from either end to the other.
Neighbours(G, e) ==
    {t.edge[2] : t \in {u \in G : u.edge[1] = e}}
    \cup {t.edge[1] : t \in {u \in G : u.edge[2] = e}}

Best(S) == IF S = {} THEN 0 ELSE Max(S)

\* Entities of the seeds' triples, with the best boost that reaches them.
seedEntities(G, seeds) ==
    [e \in EntitiesOf(G) |->
        Best({Boost(seeds[t.memory]) :
              t \in {u \in G : u.memory \in DOMAIN seeds /\ e \in Ends(u)}})]

\* One pass over a frontier, from the scores the level was entered with: an
\* entity reached better than before takes the score and is walked on from.
Level(G, w) ==
    LET offer(e) == Best({Damped(w.score[f]) :
                          f \in Neighbours(G, e) \cap w.frontier})
        better == {e \in EntitiesOf(G) : offer(e) > w.score[e]} IN
    [score |-> [e \in EntitiesOf(G) |->
                  IF e \in better THEN offer(e) ELSE w.score[e]],
     frontier |-> better]

\* What the first level is entered with.
SeedLevel(G, seeds) ==
    LET seed == seedEntities(G, seeds) IN
    [score |-> seed, frontier |-> {e \in EntitiesOf(G) : seed[e] > 0}]

\* Mutant: a level walks on from the scores it has just written.
visited_live(G, seeds, hops) ==
    LET walked[h \in 0 .. hops] ==
            IF h = 0 THEN SeedLevel(G, seeds) ELSE Level(G, Level(G, walked[h - 1])) IN
    walked[hops].score

visited(G, seeds, hops) ==
    LET walked[h \in 0 .. hops] ==
            IF h = 0 THEN SeedLevel(G, seeds) ELSE Level(G, walked[h - 1]) IN
    walked[hops].score

\* A triple lifts its memory once, by the better of its two ends.
Lifted(G, v) ==
    [m \in {t.memory : t \in G} |->
        MapThenSumSet(LAMBDA t : Best({v[e] : e \in Ends(t)}),
                      {t \in G : t.memory = m})]

perMemory(G, seeds, hops) == Lifted(G, visited(G, seeds, hops))

\* The memories a walk returns: the best Limit of those it touched, ties broken
\* either way.
Ranked(score, limit) ==
    LET touched == {m \in DOMAIN score : score[m] > 0} IN
    {S \in SUBSET touched :
        /\ Cardinality(S) = Min({limit, Cardinality(touched)})
        /\ \A m \in S, n \in touched \ S : score[m] >= score[n]}

-----------------------------------------------------------------------------
(* What the walk is meant to compute, from its description alone.          *)

\* All walks of k hops from a seed entity, worth the seed's boost damped once
\* per hop.
WalksOf(G, seeds, k) ==
    LET seed == seedEntities(G, seeds)
        ents == EntitiesOf(G) IN
    {w \in [0 .. k -> ents] :
        /\ seed[w[0]] > 0
        /\ \A i \in 1 .. k : w[i] \in Neighbours(G, w[i - 1])}

Faded(s, k) ==
    LET fade[i \in 0 .. k] == IF i = 0 THEN s ELSE Damped(fade[i - 1]) IN
    fade[k]

WorthOf(G, seeds, e, hops) ==
    Best(UNION {{Faded(seedEntities(G, seeds)[w[0]], k) :
                 w \in {x \in WalksOf(G, seeds, k) : x[k] = e}} : k \in 0 .. hops})

=============================================================================
