---------------------------- MODULE IngestProofs ----------------------------
(***************************************************************************)
(* Proofs about Ingest: the triples of the memories, the breakers of the   *)
(* embedder and the scores of a walk, for every set of memories, contents, *)
(* writers and configured providers, every budget, every file to start     *)
(* from and every recall score.                                            *)
(***************************************************************************)
EXTENDS Ingest, WellFoundedInduction, TLAPS

-----------------------------------------------------------------------------
(* The triples of the memories.                                            *)

GraphTypes ==
    /\ rows \in [Ids -> Contents \cup {None}]
    /\ used \subseteq Ids
    /\ jobs \subseteq Replacement /\ batches \in Nat
    /\ cli \in Indexing \cup {None}
    /\ cli # None => \A m \in cli.todo : cli.seen[m] # None

\* No two replacements have the same name.
Named ==
    /\ \A j \in jobs : j.batch < batches
    /\ \A j, k \in jobs : j.batch = k.batch => j = k
    /\ cli # None /\ cli.job # None =>
         /\ cli.job.batch < batches
         /\ \A j \in jobs : j.batch # cli.job.batch

Edges(g) == {t.edge : t \in g}

Held(m) == Edges(TriplesForMemory(graph, m))

\* The triples one replacement adds.
Added(m, F, b) == {[memory |-> m, edge |-> e, batch |-> b] : e \in F}

Said(m) == IF rows[m] = None THEN {} ELSE Facts[rows[m]]

\* A memory no write of which overlapped a replacement has one replacement at
\* most, of its present content, and never during a Delete.
Alone(m) ==
    /\ \A j, k \in Replacing(m) : j = k
    /\ \A j \in Replacing(m) : rows[m] = j.content /\ ~ Deleting(m)

\* Its triples are of one batch, there are none between the two halves of a
\* replacement or of a Delete, and else they are what its content says, unless
\* that is known not to have been extracted.
Faithful(m) ==
    /\ \A t, u \in TriplesForMemory(graph, m) : t.batch = u.batch
    /\ (\E j \in Replacing(m) : j.at = "add") \/ Deleting(m) => Held(m) = {}
    /\ Deleting(m) => m \in behind
    /\ (\A j \in Replacing(m) : j.at # "add") /\ ~ Deleting(m) /\ m \notin behind
         => Held(m) = Said(m)

GraphInv == GraphTypes /\ Named /\ \A m \in Ids \ torn : Alone(m) /\ Faithful(m)

\* What the steps that leave a memory alone leave of it.
LEMMA Untouched ==
    ASSUME NEW m \in Ids, Alone(m), Faithful(m), rows'[m] = rows[m],
           TriplesForMemory(graph', m) = TriplesForMemory(graph, m),
           Replacing(m)' = Replacing(m), Deleting(m)' <=> Deleting(m),
           m \in behind' <=> m \in behind
    PROVE  Alone(m)' /\ Faithful(m)'
  BY DEF Alone, Faithful, Held, Said, TriplesForMemory

\* A replacement in flight is typed, its content is one of the contents.
LEMMA Replacements ==
    ASSUME GraphTypes, NEW m \in Ids, NEW j \in Replacing(m)
    PROVE  j \in Replacement /\ j.memory = m
  BY DEF GraphTypes, Replacing, Indexing

\* The edges of a batch are those it was made of.
LEMMA EdgesOf ==
    ASSUME NEW m, NEW F, NEW b
    PROVE  Edges(Added(m, F, b)) = F
  <1>1. ASSUME NEW e \in F PROVE e \in Edges(Added(m, F, b))
    <2>1. [memory |-> m, edge |-> e, batch |-> b] \in Added(m, F, b)
      BY DEF Added
    <2>2. [memory |-> m, edge |-> e, batch |-> b].edge = e
      OBVIOUS
    <2> QED
      BY <2>1, <2>2 DEF Edges
  <1>2. ASSUME NEW e \in Edges(Added(m, F, b)) PROVE e \in F
    BY <1>2 DEF Edges, Added
  <1> QED
    BY <1>1, <1>2 DEF Edges

LEMMA StartsFaithful == ASSUME NEW r \in [Ids -> Contents \cup {None}], GraphInit(r)
                        PROVE  GraphInv
  <1>1. GraphTypes /\ Named
    BY DEF GraphInit, GraphTypes, Named
  <1>2. ASSUME NEW m \in Ids
        PROVE  Alone(m) /\ Faithful(m)
    <2>1. Replacing(m) = {} /\ ~ Deleting(m)
      BY DEF GraphInit, Replacing, Deleting
    <2>2. TriplesForMemory(graph, m)
            = IF rows[m] = None THEN {}
              ELSE Added(m, Facts[rows[m]], 0)
      <3>1. \A t : t \in graph <=> \E n \in Ids :
               /\ rows[n] # None
               /\ \E e \in Facts[rows[n]] : t = [memory |-> n, edge |-> e, batch |-> 0]
        BY DEF GraphInit
      <3>2. \A t : t \in TriplesForMemory(graph, m) <=>
               /\ rows[m] # None
               /\ \E e \in Facts[rows[m]] : t = [memory |-> m, edge |-> e, batch |-> 0]
        BY <3>1 DEF TriplesForMemory
      <3>3. rows[m] # None => TriplesForMemory(graph, m) = Added(m, Facts[rows[m]], 0)
        BY <3>2 DEF Added
      <3>4. rows[m] = None => TriplesForMemory(graph, m) = {}
        BY <3>2
      <3> QED
        BY <3>3, <3>4
    <2>3. Held(m) = Said(m)
      <3>1. CASE rows[m] = None
        BY <2>2, <3>1 DEF Held, Said, Edges
      <3>2. CASE rows[m] # None
        BY <2>2, <3>2, EdgesOf DEF Held, Said
      <3> QED
        BY <3>1, <3>2
    <2>4. \A t, u \in TriplesForMemory(graph, m) : t.batch = u.batch
      BY <2>2 DEF Added
    <2> QED
      BY <2>1, <2>3, <2>4 DEF Alone, Faithful
  <1> QED
    BY <1>1, <1>2 DEF GraphInv

\* The row is written, and an extraction of it begins if there is an extractor.
LEMMA Writes ==
    ASSUME GraphInv, NEW x \in Ids, NEW b \in Contents, WriteContent(x, b)
    PROVE  GraphInv'
  <1> DEFINE new == [memory |-> x, content |-> b, at |-> "extract", batch |-> batches]
  <1>0. GraphTypes /\ Named
    BY DEF GraphInv
  <1>1. /\ jobs' = jobs \cup {new} \/ jobs' = jobs
        /\ batches' = batches + 1 /\ UNCHANGED <<graph, writeMu, cli>>
        /\ writeMu = None /\ rows' = [rows EXCEPT ![x] = b]
        /\ used' = used \cup {x} /\ behind' = behind \cup {x}
        /\ torn' = IF Replacing(x) = {} THEN torn ELSE torn \cup {x}
    BY DEF WriteContent, fanoutTripleExtraction
  <1>2. new \in Replacement
    BY <1>0 DEF Replacement, GraphTypes
  <1>3. GraphTypes'
    BY <1>0, <1>1, <1>2 DEF GraphTypes
  <1>4. \A j \in jobs : j.batch \in Nat
    BY <1>0 DEF GraphTypes, Replacement
  <1>5. cli # None /\ cli.job # None => cli.job.batch \in Nat
    BY <1>0 DEF GraphTypes, Replacement, Indexing
  <1>6. Named'
    BY <1>0, <1>1, <1>4, <1>5 DEF Named, GraphTypes
  <1>7. ASSUME NEW m \in Ids \ torn'
        PROVE  Alone(m)' /\ Faithful(m)'
    <2>1. m \notin torn /\ Alone(m) /\ Faithful(m)
      BY <1>1 DEF GraphInv
    <2>2. CASE m # x
      <3>1. Replacing(m)' = Replacing(m)
        BY <1>1, <2>2 DEF Replacing
      <3> QED
        BY <1>0, <1>1, <2>1, <2>2, <3>1, Untouched DEF Deleting, GraphTypes
    <2>3. CASE m = x
      <3>1. Replacing(m) = {}
        BY <1>1, <2>3
      <3>2. Replacing(m)' \subseteq {new}
        BY <1>1, <2>3, <3>1 DEF Replacing
      <3>3. ~ Deleting(m)' /\ m \in behind' /\ rows'[m] = b
        BY <1>0, <1>1, <2>3 DEF Deleting, GraphTypes
      <3> QED
        BY <1>1, <2>1, <3>2, <3>3 DEF Alone, Faithful
    <2> QED
      BY <2>2, <2>3
  <1> QED
    BY <1>3, <1>6, <1>7 DEF GraphInv

\* The row is written, and nothing extracts it.
LEMMA Rewrites ==
    ASSUME GraphInv, NEW x \in Ids, NEW b \in Contents, RewriteContent(x, b)
    PROVE  GraphInv'
  <1>0. GraphTypes /\ Named
    BY DEF GraphInv
  <1>1. /\ UNCHANGED <<graph, writeMu, jobs, batches, cli>>
        /\ rows' = [rows EXCEPT ![x] = b]
        /\ used' = used \cup {x} /\ behind' = behind \cup {x}
        /\ torn' = IF Replacing(x) = {} THEN torn ELSE torn \cup {x}
    BY DEF RewriteContent
  <1>2. GraphTypes' /\ Named'
    BY <1>0, <1>1 DEF GraphTypes, Named
  <1>3. ASSUME NEW m \in Ids \ torn'
        PROVE  Alone(m)' /\ Faithful(m)'
    <2>1. m \notin torn /\ Alone(m) /\ Faithful(m)
      BY <1>1 DEF GraphInv
    <2>2. Replacing(m)' = Replacing(m) /\ (Deleting(m)' <=> Deleting(m))
      BY <1>1 DEF Replacing, Deleting
    <2>3. CASE m # x
      BY <1>0, <1>1, <2>1, <2>2, <2>3, Untouched DEF GraphTypes
    <2>4. CASE m = x
      <3>1. Replacing(m) = {} /\ m \in behind'
        BY <1>1, <2>4
      <3>2. Held(m)' = Held(m)
        BY <1>1 DEF Held
      <3> QED
        BY <1>1, <2>1, <2>2, <3>1, <3>2 DEF Alone, Faithful
    <2> QED
      BY <2>3, <2>4
  <1> QED
    BY <1>2, <1>3 DEF GraphInv

\* The two statements of Delete.
LEMMA Deletes ==
    ASSUME GraphInv, NEW w, NEW x \in Ids, DeleteTriples(w, x)
    PROVE  GraphInv'
  <1>1. GraphTypes' /\ Named'
    BY DEF GraphInv, GraphTypes, Named, DeleteTriples
  <1>2. ASSUME NEW m \in Ids \ torn'
        PROVE  Alone(m)' /\ Faithful(m)'
    <2>1. m \notin torn /\ Alone(m) /\ Faithful(m)
      BY DEF DeleteTriples, GraphInv
    <2>2. Replacing(m)' = Replacing(m)
      BY DEF DeleteTriples, Replacing
    <2>3. CASE m # x
      <3>1. TriplesForMemory(graph', m) = TriplesForMemory(graph, m)
        BY <2>3 DEF DeleteTriples, TriplesForMemory, DeleteTriplesForMemory
      <3>2. ~ Deleting(m)' /\ ~ Deleting(m)
        BY <2>3 DEF DeleteTriples, Deleting
      <3> QED
        BY <2>1, <2>2, <2>3, <3>1, <3>2, Untouched DEF DeleteTriples
    <2>4. CASE m = x
      <3>1. Replacing(m) = {} /\ m \in behind'
        BY <2>4 DEF DeleteTriples
      <3>2. TriplesForMemory(graph', m) = {}
        BY <2>4 DEF DeleteTriples, TriplesForMemory, DeleteTriplesForMemory
      <3>3. Held(m)' = {}
        BY <3>2 DEF Held, Edges
      <3> QED
        BY <2>2, <3>1, <3>2, <3>3 DEF Alone, Faithful
    <2> QED
      BY <2>3, <2>4
  <1> QED
    BY <1>1, <1>2 DEF GraphInv

LEMMA DeletesRow ==
    ASSUME GraphInv, NEW w, DeleteRow(w)
    PROVE  GraphInv'
  <1>1. GraphTypes' /\ Named'
    BY DEF GraphInv, GraphTypes, Named, DeleteRow
  <1>2. ASSUME NEW m \in Ids \ torn'
        PROVE  Alone(m)' /\ Faithful(m)'
    <2>1. m \notin torn /\ Alone(m) /\ Faithful(m)
      BY DEF DeleteRow, GraphInv
    <2>2. Replacing(m)' = Replacing(m) /\ ~ Deleting(m)' /\ graph' = graph
      BY DEF DeleteRow, Replacing, Deleting
    <2>3. CASE ~ Deleting(m)
      <3>1. rows'[m] = rows[m] /\ (m \in behind' <=> m \in behind)
        BY <2>3 DEF DeleteRow, Deleting, GraphInv, GraphTypes
      <3> QED
        BY <2>1, <2>2, <2>3, <3>1, Untouched
    <2>4. CASE Deleting(m)
      <3>1. Replacing(m) = {} /\ Held(m) = {} /\ m \in behind
        BY <2>1, <2>4 DEF Alone, Faithful
      <3>2. m \in behind' \/ rows'[m] = None
        BY <2>4, <3>1 DEF DeleteRow, Deleting, GraphInv, GraphTypes
      <3>3. Held(m)' = {}
        BY <2>2, <3>1 DEF Held
      <3>4. m \notin behind' => Said(m)' = {}
        BY <3>2 DEF Said
      <3> QED
        BY <2>1, <2>2, <3>1, <3>3, <3>4 DEF Alone, Faithful
    <2> QED
      BY <2>3, <2>4
  <1> QED
    BY <1>1, <1>2 DEF GraphInv


-----------------------------------------------------------------------------
(* The steps of a replacement, the daemon's or the command's.              *)

InFlight == jobs \cup (IF cli # None /\ cli.job # None THEN {cli.job} ELSE {})

LEMMA OfMemory ==
    ASSUME NEW m
    PROVE  /\ Replacing(m) = {j \in InFlight : j.memory = m}
           /\ Replacing(m)' = {j \in InFlight' : j.memory = m}
  BY DEF Replacing, InFlight

Flight == /\ InFlight \subseteq Replacement
          /\ \A j, k \in InFlight : j.batch = k.batch => j = k

LEMMA Flying == ASSUME GraphTypes, Named PROVE Flight
  BY DEF Flight, InFlight, GraphTypes, Named, Indexing

\* A step that takes replacements of a memory away, or nothing.
LEMMA Weaker ==
    ASSUME NEW m \in Ids, Alone(m), Faithful(m), rows'[m] = rows[m],
           TriplesForMemory(graph', m) = TriplesForMemory(graph, m),
           Replacing(m)' \subseteq Replacing(m),
           Deleting(m)' => Deleting(m),
           m \in behind => m \in behind',
           Deleting(m) => Deleting(m)' \/ m \in behind',
           \A j \in Replacing(m) : j.at = "add" =>
              j \in Replacing(m)' \/ m \in behind'
    PROVE  Alone(m)' /\ Faithful(m)'
  BY DEF Alone, Faithful, Held, Said

\* The model has answered.
LEMMA Extracted ==
    ASSUME GraphInv, NEW j \in InFlight, j.at = "extract", torn' = torn,
           InFlight' = (InFlight \ {j}) \cup {[j EXCEPT !.at = "delete"]},
           UNCHANGED <<rows, graph, writeMu, behind>>
    PROVE  \A m \in Ids \ torn' : Alone(m)' /\ Faithful(m)'
  <1>1. j \in Replacement
    BY Flying DEF GraphInv, Flight
  <1> DEFINE k == [j EXCEPT !.at = "delete"]
  <1>2. /\ k.memory = j.memory /\ k.content = j.content /\ k.at = "delete"
        /\ InFlight' = (InFlight \ {j}) \cup {k}
    BY <1>1 DEF Replacement
  <1> HIDE DEF k
  <1>3. ASSUME NEW m \in Ids \ torn'
        PROVE  Alone(m)' /\ Faithful(m)'
    <2>1. Alone(m) /\ Faithful(m) /\ (Deleting(m)' <=> Deleting(m))
      BY DEF GraphInv, Deleting
    <2>2. CASE j.memory # m
      <3>0. \A i : i \in InFlight' /\ i.memory = m <=> i \in InFlight /\ i.memory = m
        BY <1>2, <2>2
      <3>1. Replacing(m)' = Replacing(m)
        BY <3>0, OfMemory
      <3> QED
        BY <2>1, <3>1, Untouched
    <2>3. CASE j.memory = m
      <3>1. Replacing(m) = {j}
        BY <2>1, <2>3, OfMemory DEF Alone
      <3>2. Replacing(m)' = {k}
        BY <1>2, <2>3, <3>1, OfMemory
      <3>3. Held(m)' = Held(m) /\ Said(m)' = Said(m)
        BY DEF Held, Said
      <3> QED
        BY <1>2, <2>1, <3>1, <3>2, <3>3 DEF Alone, Faithful
    <2> QED
      BY <2>2, <2>3
  <1> QED
    BY <1>3

\* The triples there were are gone.
LEMMA Dropping ==
    ASSUME GraphInv, NEW j \in InFlight, j.at = "delete",
           InFlight' = (InFlight \ {j}) \cup {[j EXCEPT !.at = "add"]},
           graph' = Dropped(j), torn' = Cleared(j),
           UNCHANGED <<rows, writeMu, behind>>
    PROVE  \A m \in Ids \ torn' : Alone(m)' /\ Faithful(m)'
  <1>1. j \in Replacement
    BY Flying DEF GraphInv, Flight
  <1> DEFINE k == [j EXCEPT !.at = "add"]
  <1>2. /\ k.memory = j.memory /\ k.content = j.content /\ k.at = "add"
        /\ InFlight' = (InFlight \ {j}) \cup {k}
    BY <1>1 DEF Replacement
  <1> HIDE DEF k
  <1>3. ASSUME NEW m \in Ids \ torn'
        PROVE  Alone(m)' /\ Faithful(m)'
    <2>1. Deleting(m)' <=> Deleting(m)
      BY DEF Deleting
    <2>2. CASE j.memory # m
      <3>0. \A i : i \in InFlight' /\ i.memory = m <=> i \in InFlight /\ i.memory = m
        BY <1>2, <2>2
      <3>1. Replacing(m)' = Replacing(m)
        BY <3>0, OfMemory
      <3>2. TriplesForMemory(graph', m) = TriplesForMemory(graph, m)
        BY <2>2 DEF TriplesForMemory, Dropped, DeleteTriplesForMemory
      <3>3. Alone(m) /\ Faithful(m)
        BY <2>2 DEF GraphInv, Cleared
      <3> QED
        BY <2>1, <3>1, <3>2, <3>3, Untouched
    <2>3. CASE j.memory = m
      <3>1. Replacing(m) = {j} /\ rows[m] = j.content /\ ~ Deleting(m)
        <4>1. CASE m \in torn
          BY <2>3, <4>1 DEF Cleared
        <4>2. CASE m \notin torn
          BY <2>3, <4>2, OfMemory DEF GraphInv, Alone
        <4> QED
          BY <4>1, <4>2
      <3>2. Replacing(m)' = {k}
        BY <1>2, <2>3, <3>1, OfMemory
      <3>3. TriplesForMemory(graph, m)' = {}
        BY <2>3 DEF TriplesForMemory, Dropped, DeleteTriplesForMemory
      <3>4. Held(m)' = {}
        BY <3>3 DEF Held, Edges
      <3> QED
        BY <1>2, <2>1, <3>1, <3>2, <3>3, <3>4 DEF Alone, Faithful
    <2> QED
      BY <2>2, <2>3
  <1> QED
    BY <1>3

\* The new ones are there.
LEMMA Adding ==
    ASSUME GraphInv, NEW j \in InFlight, j.at = "add", torn' = torn,
           InFlight' = InFlight \ {j},
           graph' = AddTriples(graph, j), behind' = Caught(j),
           UNCHANGED <<rows, writeMu>>
    PROVE  \A m \in Ids \ torn' : Alone(m)' /\ Faithful(m)'
  <1>1. j \in Replacement
    BY Flying DEF GraphInv, Flight
  <1>2. graph' = graph \cup Added(j.memory, Facts[j.content], j.batch)
    BY DEF AddTriples, Added
  <1>3. ASSUME NEW m \in Ids \ torn'
        PROVE  Alone(m)' /\ Faithful(m)'
    <2>1. Alone(m) /\ Faithful(m) /\ (Deleting(m)' <=> Deleting(m))
      BY DEF GraphInv, Deleting
    <2>2. CASE j.memory # m
      <3>1. Replacing(m)' = Replacing(m)
        BY <2>2, OfMemory
      <3>2. TriplesForMemory(graph', m) = TriplesForMemory(graph, m)
        BY <1>2, <2>2 DEF TriplesForMemory, Added
      <3>3. m \in behind' <=> m \in behind
        BY <2>2 DEF Caught
      <3> QED
        BY <2>1, <3>1, <3>2, <3>3, Untouched
    <2>3. CASE j.memory = m
      <3>1. Replacing(m) = {j} /\ rows[m] = j.content /\ ~ Deleting(m)
        BY <2>1, <2>3, OfMemory DEF Alone
      <3>2. Replacing(m)' = {}
        BY <3>1, OfMemory
      <3>3. Held(m) = {}
        BY <2>1, <3>1 DEF Faithful
      <3>4. TriplesForMemory(graph, m) = {}
        <4>1. ASSUME NEW t \in TriplesForMemory(graph, m) PROVE FALSE
          BY <3>3 DEF Held, Edges
        <4> QED
          BY <4>1
      <3>5. TriplesForMemory(graph, m)' = Added(m, Facts[j.content], j.batch)
        BY <1>2, <2>3, <3>4 DEF TriplesForMemory, Added
      <3>6. rows'[m] # None
        BY <1>1, <3>1, GraphAssumption DEF Replacement
      <3>7. Held(m)' = Said(m)'
        BY <3>1, <3>5, <3>6, EdgesOf DEF Held, Said
      <3>8. \A t, u \in TriplesForMemory(graph, m)' : t.batch = u.batch
        BY <3>5 DEF Added
      <3> QED
        BY <2>1, <3>1, <3>2, <3>7, <3>8 DEF Alone, Faithful
    <2> QED
      BY <2>2, <2>3
  <1> QED
    BY <1>3

\* It ends without them.
LEMMA GivingUp ==
    ASSUME GraphInv, NEW j \in InFlight, torn' = torn,
           InFlight' = InFlight \ {j},
           behind' = IF j.at = "add" THEN behind \cup {j.memory} ELSE behind,
           UNCHANGED <<rows, graph, writeMu>>
    PROVE  \A m \in Ids \ torn' : Alone(m)' /\ Faithful(m)'
  <1>1. ASSUME NEW m \in Ids \ torn'
        PROVE  Alone(m)' /\ Faithful(m)'
    <2>1. Alone(m) /\ Faithful(m) /\ (Deleting(m)' <=> Deleting(m))
      BY DEF GraphInv, Deleting
    <2>2. Replacing(m)' \subseteq Replacing(m)
      BY OfMemory
    <2>3. \A k \in Replacing(m) : k.at = "add" =>
             k \in Replacing(m)' \/ m \in behind'
      BY OfMemory
    <2> QED
      BY <2>1, <2>2, <2>3, Weaker
  <1> QED
    BY <1>1


\* The goroutines of the daemon.
LEMMA JobStep ==
    ASSUME GraphInv, NEW j \in jobs,
           JobExtract(j) \/ JobDelete(j) \/ JobAdd(j) \/ JobFails(j)
    PROVE  GraphInv'
  <1>0. GraphTypes /\ Named /\ j \in Replacement /\ j \in InFlight
    BY DEF GraphInv, GraphTypes, InFlight
  <1>1. UNCHANGED <<rows, used, batches, cli, writeMu>>
    BY DEF JobExtract, JobDelete, JobAdd, JobFails
  <1>2. cli # None /\ cli.job # None => cli.job # j
    BY <1>0 DEF Named
  <1>3. CASE JobExtract(j) \/ JobDelete(j)
    <2>1. PICK at \in {"delete", "add"} :
            /\ jobs' = (jobs \ {j}) \cup {[j EXCEPT !.at = at]}
            /\ \/ j.at = "extract" /\ at = "delete" /\ UNCHANGED <<graph, torn>>
               \/ j.at = "delete" /\ at = "add" /\ graph' = Dropped(j) /\ torn' = Cleared(j)
            /\ behind' = behind
      BY <1>3 DEF JobExtract, JobDelete
    <2> DEFINE k == [j EXCEPT !.at = at]
    <2>2. k \in Replacement /\ k.batch = j.batch
      BY <1>0 DEF Replacement
    <2>3. InFlight' = (InFlight \ {j}) \cup {k}
      BY <1>1, <1>2, <2>1 DEF InFlight
    <2>4. \A m \in Ids \ torn' : Alone(m)' /\ Faithful(m)'
      BY <1>0, <1>1, <2>1, <2>3, Extracted, Dropping
    <2>5. jobs' = (jobs \ {j}) \cup {k}
      BY <2>1
    <2> HIDE DEF k
    <2>6. GraphTypes'
      BY <1>0, <1>1, <2>2, <2>5 DEF GraphTypes
    <2>7. Named'
      BY <1>0, <1>1, <2>2, <2>5 DEF Named
    <2> QED
      BY <2>4, <2>6, <2>7 DEF GraphInv
  <1>4. CASE JobAdd(j) \/ JobFails(j)
    <2>1. jobs' = jobs \ {j} /\ torn' = torn
      BY <1>4 DEF JobAdd, JobFails
    <2>2. InFlight' = InFlight \ {j}
      BY <1>1, <1>2, <2>1 DEF InFlight
    <2>3. \A m \in Ids \ torn' : Alone(m)' /\ Faithful(m)'
      <3>1. CASE JobAdd(j)
        BY <1>0, <1>1, <2>1, <2>2, <3>1, Adding DEF JobAdd
      <3>2. CASE JobFails(j)
        BY <1>0, <1>1, <2>1, <2>2, <3>2, GivingUp DEF JobFails
      <3> QED
        BY <1>4, <3>1, <3>2
    <2>4. GraphTypes' /\ Named'
      BY <1>0, <1>1, <2>1 DEF GraphTypes, Named
    <2> QED
      BY <2>3, <2>4 DEF GraphInv
  <1> QED
    BY <1>3, <1>4

\* The command, up to the model's answer.
LEMMA CliBegins ==
    ASSUME GraphInv,
           (\E o \in Options : CliStart(o)) \/ \E m \in Ids : CliPick(m)
    PROVE  GraphInv'
  <1>0. GraphTypes /\ Named
    BY DEF GraphInv
  <1>P. PICK m0 : (\E o \in Options : CliStart(o)) \/ (m0 \in Ids /\ CliPick(m0))
    OBVIOUS
  <1>1. UNCHANGED <<rows, used, graph, writeMu, jobs, behind>>
    BY <1>P DEF CliStart, CliPick
  <1>2. CASE (\E o \in Options : CliStart(o))
              \/ (m0 \in Ids /\ CliPick(m0) /\ batches' = batches)
    <2>1. /\ cli' \in Indexing /\ cli'.job = None
          /\ \A m \in cli'.todo : cli'.seen[m] # None
      <3>1. CASE \E o \in Options : CliStart(o)
        BY <1>0, <3>1 DEF CliStart, GraphTypes, Indexing, Live
      <3>2. CASE m0 \in Ids /\ CliPick(m0) /\ batches' = batches
        <4>0. batches' # batches + 1 /\ cli # None /\ cli \in Indexing
          <5>1. batches \in Nat
            BY <1>0 DEF GraphTypes
          <5>2. batches # batches + 1
            BY <5>1
          <5>3. cli # None
            BY <3>2 DEF CliPick
          <5>4. cli \in Indexing
            BY <1>0, <5>3 DEF GraphTypes
          <5> QED
            BY <3>2, <5>2, <5>3, <5>4
        <4>1. cli' = [cli EXCEPT !.todo = cli.todo \ {m0}] /\ cli.job = None
          BY <3>2, <4>0 DEF CliPick
        <4>2. cli' = [todo |-> cli.todo \ {m0}, seen |-> cli.seen, job |-> cli.job,
                      processed |-> cli.processed, opt |-> cli.opt]
          BY <4>0, <4>1 DEF Indexing
        <4> QED
          BY <1>0, <4>0, <4>1, <4>2 DEF GraphTypes, Indexing
      <3> QED
        BY <1>2, <3>1, <3>2
    <2>2. cli = None \/ cli.job = None
      BY <1>2 DEF CliStart, CliPick
    <2>3. batches' = batches /\ torn' = torn
      <3>1. CASE \E o \in Options : CliStart(o)
        BY <3>1 DEF CliStart
      <3>2. CASE m0 \in Ids /\ CliPick(m0) /\ batches' = batches
        <4>1. batches \in Nat /\ batches # batches + 1
          BY <1>0 DEF GraphTypes
        <4> QED
          BY <3>2, <4>1 DEF CliPick
      <3> QED
        BY <1>2, <3>1, <3>2
    <2>4. GraphTypes' /\ Named'
      BY <1>0, <1>1, <2>1, <2>3 DEF GraphTypes, Named
    <2>5. ASSUME NEW m \in Ids \ torn'
          PROVE  Alone(m)' /\ Faithful(m)'
      <3>1. Replacing(m)' = Replacing(m) /\ (Deleting(m)' <=> Deleting(m))
        BY <1>1, <2>1, <2>2 DEF Replacing, Deleting
      <3> QED
        BY <1>1, <2>3, <3>1, Untouched DEF GraphInv
    <2> QED
      BY <2>4, <2>5 DEF GraphInv
  <1>3. CASE m0 \in Ids /\ CliPick(m0) /\ batches' # batches
    <2> DEFINE k == [memory |-> m0, content |-> cli.seen[m0], at |-> "delete",
                     batch |-> batches]
    <2>1. /\ cli' = [cli EXCEPT !.todo = @ \ {m0}, !.job = k]
          /\ batches' = batches + 1 /\ cli # None /\ cli.job = None
          /\ m0 \in cli.todo
          /\ torn' = IF Replacing(m0) = {} /\ rows[m0] = cli.seen[m0] /\ ~ Deleting(m0)
                     THEN torn ELSE torn \cup {m0}
      BY <1>3 DEF CliPick
    <2>2. k \in Replacement /\ cli \in Indexing /\ k # None
      BY <1>0, <2>1, GraphAssumption DEF GraphTypes, Replacement, Indexing
    <2>3. /\ k.batch = batches /\ k.memory = m0 /\ k.content = cli.seen[m0]
          /\ k.at = "delete"
      OBVIOUS
    <2> HIDE DEF k
    <2>4. /\ cli' \in Indexing /\ cli'.job = k /\ cli'.seen = cli.seen
          /\ cli'.todo \subseteq cli.todo /\ cli' # None
      <3>1. cli' = [todo |-> cli.todo \ {m0}, seen |-> cli.seen, job |-> k,
                    processed |-> cli.processed, opt |-> cli.opt]
        BY <2>1, <2>2 DEF Indexing
      <3>2. cli' \in Indexing
        BY <2>2, <3>1 DEF Indexing
      <3> QED
        BY <3>1, <3>2, GraphAssumption
    <2>5. GraphTypes'
      BY <1>0, <1>1, <2>1, <2>4 DEF GraphTypes
    <2>6. \A j \in jobs : j.batch \in Nat /\ j.batch < batches
      BY <1>0 DEF GraphTypes, Named, Replacement
    <2>7. Named'
      BY <1>0, <1>1, <2>1, <2>3, <2>4, <2>6 DEF Named, GraphTypes
    <2>8. ASSUME NEW m \in Ids \ torn'
          PROVE  Alone(m)' /\ Faithful(m)'
      <3>1. Alone(m) /\ Faithful(m) /\ (Deleting(m)' <=> Deleting(m))
        BY <1>1, <2>1, <2>8 DEF GraphInv, Deleting
      <3>2. CASE m # m0
        <4>1. Replacing(m)' = Replacing(m)
          BY <1>1, <2>1, <2>3, <2>4, <3>2 DEF Replacing
        <4> QED
          BY <1>1, <3>1, <4>1, Untouched
      <3>3. CASE m = m0
        <4>1. Replacing(m) = {} /\ rows[m] = k.content /\ ~ Deleting(m)
          BY <2>1, <2>3, <2>8, <3>3
        <4>2. Replacing(m)' = {k}
          BY <1>1, <2>2, <2>3, <2>4, <3>3, <4>1 DEF Replacing
        <4>3. Held(m)' = Held(m) /\ Said(m)' = Said(m)
          BY <1>1 DEF Held, Said
        <4> QED
          BY <1>1, <2>3, <3>1, <4>1, <4>2, <4>3 DEF Alone, Faithful
      <3> QED
        BY <3>2, <3>3
    <2> QED
      BY <2>5, <2>7, <2>8 DEF GraphInv
  <1> QED
    BY <1>P, <1>2, <1>3

\* The command, on one memory, and its end.
LEMMA CliStep ==
    ASSUME GraphInv, CliDelete \/ CliAdd \/ CliFails \/ CliEnd
    PROVE  GraphInv'
  <1>0. GraphTypes /\ Named
    BY DEF GraphInv
  <1>1. UNCHANGED <<rows, used, writeMu, jobs, batches>> /\ cli # None /\ cli \in Indexing
    BY <1>0 DEF CliDelete, CliAdd, CliFails, CliEnd, GraphTypes
  <1> DEFINE j == cli.job
  <1>2. j # None => j \in Replacement /\ j \in InFlight /\ j \notin jobs
    BY <1>0, <1>1 DEF Indexing, InFlight, Named
  <1>3. CASE CliDelete
    <2> DEFINE k == [j EXCEPT !.at = "add"]
    <2>1. /\ j # None /\ j.at = "delete" /\ graph' = Dropped(j) /\ torn' = Cleared(j)
          /\ cli' = [cli EXCEPT !.job = k] /\ behind' = behind
      BY <1>1, <1>3 DEF CliDelete, Indexing
    <2>2. k \in Replacement /\ k.batch = j.batch
      BY <1>2, <2>1 DEF Replacement
    <2>3. /\ cli' \in Indexing /\ cli'.job = k /\ cli'.seen = cli.seen
          /\ cli'.todo = cli.todo /\ cli' # None /\ k # None
      BY <1>1, <2>1, <2>2, GraphAssumption DEF Indexing
    <2>4. InFlight' = (InFlight \ {j}) \cup {k}
      BY <1>1, <1>2, <2>1, <2>3 DEF InFlight
    <2>5. \A m \in Ids \ torn' : Alone(m)' /\ Faithful(m)'
      BY <1>1, <1>2, <2>1, <2>4, Dropping
    <2> HIDE DEF k
    <2>6. GraphTypes' /\ Named'
      BY <1>0, <1>1, <2>1, <2>2, <2>3 DEF GraphTypes, Named
    <2> QED
      BY <2>5, <2>6 DEF GraphInv
  <1>4. CASE j # None /\ (CliAdd \/ CliFails \/ CliEnd)
    <2>1. torn' = torn /\ (cli' = None \/ (cli' \in Indexing /\ cli'.job = None
            /\ cli'.seen = cli.seen /\ cli'.todo = cli.todo))
      <3>1. CASE CliAdd
        <4>1. cli' = [todo |-> cli.todo, seen |-> cli.seen, job |-> None,
                      processed |-> cli.processed + 1, opt |-> cli.opt]
          BY <1>1, <3>1 DEF CliAdd, Indexing
        <4> QED
          BY <1>1, <3>1, <4>1 DEF CliAdd, Indexing
      <3>2. CASE CliFails
        BY <1>1, <3>2 DEF CliFails, Indexing
      <3>3. CASE CliEnd
        BY <3>3 DEF CliEnd
      <3> QED
        BY <1>4, <3>1, <3>2, <3>3
    <2>2. InFlight' = InFlight \ {j}
      BY <1>1, <1>2, <1>4, <2>1 DEF InFlight
    <2>3. \A m \in Ids \ torn' : Alone(m)' /\ Faithful(m)'
      <3>1. CASE CliAdd
        BY <1>1, <1>2, <2>1, <2>2, <3>1, Adding DEF CliAdd
      <3>2. CASE CliFails \/ CliEnd
        <4>1. /\ behind' = IF j.at = "add" THEN behind \cup {j.memory} ELSE behind
              /\ UNCHANGED <<rows, graph, writeMu>>
          BY <1>4, <3>2 DEF CliFails, CliEnd
        <4> QED
          BY <1>2, <1>4, <2>1, <2>2, <4>1, GivingUp
      <3> QED
        BY <1>4, <3>1, <3>2
    <2>4. GraphTypes' /\ Named'
      BY <1>0, <1>1, <2>1 DEF GraphTypes, Named
    <2> QED
      BY <2>3, <2>4 DEF GraphInv
  <1>5. CASE j = None /\ CliEnd
    <2>1. cli' = None /\ UNCHANGED <<graph, torn, behind>>
      BY <1>5 DEF CliEnd
    <2>2. GraphTypes' /\ Named'
      BY <1>0, <1>1, <2>1 DEF GraphTypes, Named
    <2>3. ASSUME NEW m \in Ids \ torn'
          PROVE  Alone(m)' /\ Faithful(m)'
      <3>1. Replacing(m)' = Replacing(m) /\ (Deleting(m)' <=> Deleting(m))
        BY <1>1, <1>5, <2>1 DEF Replacing, Deleting
      <3> QED
        BY <1>1, <2>1, <3>1, Untouched DEF GraphInv
    <2> QED
      BY <2>2, <2>3 DEF GraphInv
  <1> QED
    BY <1>3, <1>4, <1>5 DEF CliDelete, CliAdd, CliFails, CliEnd

\* The daemon dies: its goroutines are gone, the command goes on.
LEMMA Crashes == ASSUME GraphInv, CrashGraph PROVE GraphInv'
  <1>0. GraphTypes /\ Named
    BY DEF GraphInv
  <1>1. GraphTypes' /\ Named'
    BY <1>0 DEF CrashGraph, GraphTypes, Named
  <1>2. ASSUME NEW m \in Ids \ torn'
        PROVE  Alone(m)' /\ Faithful(m)'
    <2>1. Alone(m) /\ Faithful(m)
      BY DEF CrashGraph, GraphInv
    <2>2. ~ Deleting(m)' /\ (Deleting(m) => m \in behind')
      BY <2>1 DEF CrashGraph, Deleting, Faithful
    <2>3. Replacing(m)' \subseteq Replacing(m)
      BY DEF CrashGraph, Replacing
    <2>4. \A j \in Replacing(m) : j.at = "add" => j \in Replacing(m)' \/ m \in behind'
      BY DEF CrashGraph, Replacing
    <2> QED
      BY <2>1, <2>2, <2>3, <2>4, Weaker DEF CrashGraph
  <1> QED
    BY <1>1, <1>2 DEF GraphInv

\* A recall reads.
LEMMA Walks ==
    ASSUME GraphInv,
           UNCHANGED <<rows, used, graph, writeMu, jobs, batches, cli, torn, behind>>
    PROVE  GraphInv'
  BY DEF GraphInv, GraphTypes, Named, Alone, Faithful, Held, Said, Replacing, Deleting


-----------------------------------------------------------------------------
(* The composition.                                                        *)

\* What a writer is writing.
Plans == plan \in [Writers -> [memory : Ids \cup {None}, content : Contents]
                              \cup {None}]

IInv == GraphInv /\ Plans

LEMMA Initially == Init => IInv
  <1> SUFFICES ASSUME Init PROVE IInv
    OBVIOUS
  <1>1. GraphInv
    BY IngestAssumption, StartsFaithful DEF Init
  <1> QED
    BY <1>1 DEF Init, IInv, Plans

LEMMA NextKeeps == IInv /\ [Next]_vars => IInv'
  <1> SUFFICES ASSUME IInv, [Next]_vars PROVE IInv'
    OBVIOUS
  <1>0. GraphInv /\ Plans /\ used \subseteq Ids
    BY DEF IInv, GraphInv, GraphTypes
  <1>1. ASSUME UNCHANGED <<rows, used, graph, writeMu, jobs, batches, cli, torn, behind>>,
               UNCHANGED plan
        PROVE  IInv'
    BY <1>0, <1>1, Walks DEF IInv, Plans
  <1>2. ASSUME GraphInv', UNCHANGED plan
        PROVE  IInv'
    BY <1>0, <1>2 DEF IInv, Plans
  <1>3. ASSUME NEW w \in Writers, NEW b \in Texts, NEW m \in used \cup {None},
               BeginWrite(w, m, b)
        PROVE  IInv'
    <2>1. GraphInv'
      BY <1>0, <1>3, Walks DEF BeginWrite, graphVars
    <2>2. /\ m \in Ids \cup {None} /\ b \in Contents
          /\ plan' = [plan EXCEPT ![w] = [memory |-> m, content |-> b]]
      BY <1>0, <1>3, IngestAssumption DEF BeginWrite
    <2> QED
      BY <1>0, <2>1, <2>2 DEF IInv, Plans
  <1>4. ASSUME NEW w \in Writers, CommitWrite(w)
        PROVE  IInv'
    <2>1. plan[w] # None /\ plan' = [plan EXCEPT ![w] = None]
      BY <1>4 DEF CommitWrite
    <2>2. plan[w].content \in Contents /\ plan[w].memory \in Ids \cup {None}
      BY <1>0, <2>1 DEF Plans
    <2>3. CASE UNCHANGED graphVars
      BY <1>0, <2>1, <2>3, Walks DEF graphVars, IInv, Plans
    <2>4. CASE \E m \in Ids : WriteContent(m, plan[w].content)
      BY <1>0, <2>1, <2>2, <2>4, Writes DEF IInv, Plans
    <2> QED
      BY <1>4, <2>2, <2>3, <2>4 DEF CommitWrite
  <1>5. ASSUME NEW w \in Writers, NEW m \in Ids, BeginDelete(w, m)
        PROVE  IInv'
    BY <1>0, <1>2, <1>5, Deletes DEF BeginDelete
  <1>6. ASSUME NEW w \in Writers, EndDelete(w)
        PROVE  IInv'
    BY <1>0, <1>2, <1>6, DeletesRow DEF EndDelete
  <1>7. CASE GraphStep
    <2>1. UNCHANGED plan
      BY <1>7 DEF GraphStep
    <2>2. ASSUME NEW j \in jobs, JobExtract(j) \/ JobDelete(j) \/ JobAdd(j)
          PROVE  IInv'
      BY <1>0, <1>2, <2>1, <2>2, JobStep
    <2>3. ASSUME NEW m \in Ids, CliPick(m)
          PROVE  IInv'
      BY <1>0, <1>2, <2>1, <2>3, CliBegins
    <2>4. CASE CliDelete \/ CliAdd
      BY <1>0, <1>2, <2>1, <2>4, CliStep
    <2>5. CASE WalkGraph \/ WalkLoad \/ WalkDone
      BY <1>1, <2>1, <2>5 DEF WalkGraph, WalkLoad, WalkDone
    <2> QED
      BY <1>7, <2>2, <2>3, <2>4, <2>5 DEF GraphStep
  <1>8. CASE GraphFault
    <2>1. UNCHANGED plan
      BY <1>8 DEF GraphFault
    <2>2. ASSUME NEW j \in jobs, JobFails(j)
          PROVE  IInv'
      BY <1>0, <1>2, <2>1, <2>2, JobStep
    <2>3. CASE CliFails \/ CliEnd
      BY <1>0, <1>2, <2>1, <2>3, CliStep
    <2> QED
      BY <1>8, <2>2, <2>3 DEF GraphFault
  <1>9. CASE StartCli
    <2>1. UNCHANGED plan /\ \E o \in Options : CliStart(o)
      BY <1>9, IngestAssumption DEF StartCli
    <2> QED
      BY <1>0, <1>2, <2>1, CliBegins
  <1>10. CASE Crash
    BY <1>0, <1>10, Crashes DEF Crash, IInv, Plans
  <1>11. CASE EmbedderStep \/ EndBatch \/ BeginRecall \/ \E size \in Sizes : BeginBatch(size)
    BY <1>1, <1>11 DEF EmbedderStep, EndBatch, BeginRecall, BeginBatch, graphVars
  <1>12. ASSUME NEW seeds, RecallSeeds(seeds)
         PROVE  IInv'
    BY <1>1, <1>12 DEF RecallSeeds, WalkSeeds
  <1>13. CASE Rewrite
    BY <1>0, <1>2, <1>13, IngestAssumption, Rewrites DEF Rewrite
  <1>14. CASE UNCHANGED vars
    BY <1>1, <1>14 DEF vars, graphVars
  <1> QED
    BY <1>3, <1>4, <1>5, <1>6, <1>7, <1>8, <1>9, <1>10, <1>11, <1>12, <1>13, <1>14
       DEF Next

\* The inductive invariant of the composition.
THEOREM Invariance == Spec => []IInv
  BY Initially, NextKeeps, PTL DEF Spec

\* The graph follows the contents, whatever extractions, commands, failures and
\* crashes interleave: of a memory no write of which overlapped a replacement of
\* its triples the graph holds one extraction at most, and at rest exactly that
\* of its present content, or what an extraction that never came to its end left.
THEOREM GraphFollowsContentHolds == Spec => []GraphFollowsContent
  <1>1. IInv => GraphFollowsContent
    <2> SUFFICES ASSUME IInv, NEW m \in Ids \ torn
                 PROVE  /\ \A t, u \in TriplesForMemory(graph, m) : t.batch = u.batch
                        /\ Replacing(m) = {} /\ ~ Deleting(m) /\ m \notin behind =>
                             Held(m) = Said(m)
      BY DEF GraphFollowsContent, Held, Edges, Said
    <2> QED
      BY DEF IInv, GraphInv, Faithful
  <1> QED
    BY <1>1, Invariance, PTL


-----------------------------------------------------------------------------
(* The embedder.                                                           *)

\* The providers that never fail, among those that are asked.
Reliable == Sound \cap Chain

EmbedTypes ==
    /\ errorCount \in [Chain -> Nat]
    /\ disabledUntil \in [Chain -> {"zero", "future", "past"}]
    /\ call \in [Callers -> Call \cup {Nil}]
    /\ cancels \in Nat

\* A call that will go down the chain once more.
Again(k) == k.task = "write" /\ k.size = "long" /\ k.whole

\* A reliable provider is asked and then tried, unless the text is too long for
\* it; who lost it in the end is dead, or could not shorten the text.
Served(k) ==
    ~ k.dead =>
      /\ k.at \in {"ask", "try"} /\ (k.size = "short" \/ ~ k.whole) =>
           Reliable \subseteq k.asks \cup k.cands
      /\ k.at = "done" /\ k.vec = Nil =>
           Reliable = {} \/ (k.size = "long" /\ k.task # "write")

Staged(k) == /\ k.at = "try" <=> k.asks = {} /\ k.at # "done"
             /\ k.asks \cap k.cands = {}

\* What one dead call has done to the breaker of a reliable provider, and may
\* still do to it.
Owes(k, p) ==
    /\ errorCount[p] <= 2
    /\ k.at \in {"ask", "try"} =>
         /\ p \in k.asks \cup k.cands \/ Again(k) => errorCount[p] <= 1
         /\ p \in k.asks \cup k.cands /\ Again(k) => errorCount[p] = 0

\* Up to one cancelled call, no reliable provider is taken away.
Healthy ==
    /\ \A p \in Reliable : disabledUntil[p] = "zero" /\ errorCount[p] <= 2
    /\ cancels = 0 => \A p \in Reliable : errorCount[p] = 0
    /\ cancels = 0 => \A c \in Callers : call[c] # Nil => ~ call[c].dead
    /\ \A c, d \in Callers :
          call[c] # Nil /\ call[c].dead /\ call[d] # Nil /\ call[d].dead => c = d
    /\ \A c \in Callers, p \in Reliable :
          call[c] # Nil /\ call[c].dead => Owes(call[c], p)

EmbedInv ==
    /\ EmbedTypes
    /\ \A c \in Callers : call[c] # Nil => Staged(call[c])
    /\ cancels < 2 => Healthy /\ \A c \in Callers : call[c] # Nil => Served(call[c])

\* Somebody is first in every list.
LEMMA FirstOf ==
    ASSUME NEW S \in SUBSET Chain, S # {}
    PROVE  First(S) \in S
  <1>1. Chain \subseteq Providers
    BY EmbedderAssumption DEF Chain, New, Providers, Order
  <1>2. Order = <<"jina", "openai", "llamacpp", "ollama/bge-m3",
                  "ollama/mxbai-embed-large">>
    BY DEF Order
  <1>3. DOMAIN Order = 1 .. 5
    BY <1>2
  <1>4. \E i \in 1 .. 5 : Order[i] \in S
    BY <1>1, <1>3 DEF Providers
  <1> DEFINE least(i) == Order[i] \in S /\ \A k \in 1 .. (i - 1) : Order[k] \notin S
  <1>5. \E i \in 1 .. 5 : least(i)
    <2>1. CASE Order[1] \in S
      BY <2>1
    <2>2. CASE Order[1] \notin S /\ Order[2] \in S
      BY <2>2
    <2>3. CASE Order[1] \notin S /\ Order[2] \notin S /\ Order[3] \in S
      BY <2>3
    <2>4. CASE Order[1] \notin S /\ Order[2] \notin S /\ Order[3] \notin S
               /\ Order[4] \in S
      BY <2>4
    <2>5. CASE Order[1] \notin S /\ Order[2] \notin S /\ Order[3] \notin S
               /\ Order[4] \notin S /\ Order[5] \in S
      BY <2>5
    <2> QED
      BY <1>4, <2>1, <2>2, <2>3, <2>4, <2>5
  <1>6. least(CHOOSE i \in 1 .. 5 : least(i))
    BY <1>5
  <1> QED
    BY <1>3, <1>6 DEF First

LEMMA SomeProvider == Chain # {}
  <1>1. "ollama/bge-m3" \in New \/ \E p \in New : isLocalProvider(p)
    BY DEF New
  <1>2. isLocalProvider("ollama/bge-m3")
    BY DEF isLocalProvider
  <1> QED
    BY <1>1, <1>2 DEF Chain

LEMMA EmbedStarts == EmbedInit => EmbedInv
  BY DEF EmbedInit, EmbedInv, EmbedTypes, Healthy, Reliable

\* A call that begins, or is returned.
LEMMA Entered ==
    ASSUME EmbedInv, NEW c \in Callers, NEW task \in Tasks, NEW size \in Sizes,
           Embed(c, task, size)
    PROVE  EmbedInv'
  <1> DEFINE k == [task |-> task, size |-> size, whole |-> TRUE, dead |-> FALSE,
                   at |-> "ask", asks |-> Chain, cands |-> {}, vec |-> Nil]
  <1>1. /\ k \in Call /\ Staged(k) /\ Served(k) /\ ~ k.dead
    BY SomeProvider DEF Call, Staged, Served, Reliable
  <1>2. call' = [call EXCEPT ![c] = k] /\ UNCHANGED <<errorCount, disabledUntil, cancels>>
    BY DEF Embed
  <1> HIDE DEF k
  <1> QED
    BY <1>1, <1>2 DEF EmbedInv, EmbedTypes, Healthy, Owes

LEMMA Returned ==
    ASSUME EmbedInv, NEW c \in Callers, Return(c)
    PROVE  EmbedInv'
  BY DEF Return, EmbedInv, EmbedTypes, Healthy, Owes

LEMMA CooledDown ==
    ASSUME EmbedInv, NEW p \in Chain, Cooled(p)
    PROVE  EmbedInv'
  BY DEF Cooled, EmbedInv, EmbedTypes, Healthy, Owes, Reliable

\* One step of one call.
LEMMA Stepped ==
    ASSUME EmbedInv, EmbedTypes', NEW c \in Callers, NEW k \in Call, NEW n \in Call,
           call[c] = k, call' = [call EXCEPT ![c] = n], cancels' = cancels,
           Staged(n), n.dead = k.dead,
           cancels < 2 /\ Healthy /\ Served(k) =>
             /\ Served(n)
             /\ \A q \in Reliable :
                  /\ disabledUntil'[q] = "zero"
                  /\ ~ k.dead => errorCount'[q] <= errorCount[q]
                  /\ k.dead /\ Owes(k, q) => Owes(n, q)'
    PROVE  EmbedInv'
  <1>1. k # Nil /\ n # Nil
    BY EmbedderAssumption
  <1>2. \A d \in Callers : call'[d] = IF d = c THEN n ELSE call[d]
    BY DEF EmbedInv, EmbedTypes
  <1>3. \A d \in Callers : call'[d] # Nil => Staged(call'[d])
    BY <1>2 DEF EmbedInv
  <1>4. ASSUME cancels' < 2
        PROVE  Healthy' /\ \A d \in Callers : call'[d] # Nil => Served(call'[d])
    <2>1. Healthy /\ \A d \in Callers : call[d] # Nil => Served(call[d])
      BY <1>4 DEF EmbedInv
    <2>2. /\ Served(n)
          /\ \A q \in Reliable :
               /\ disabledUntil'[q] = "zero"
               /\ ~ k.dead => errorCount'[q] <= errorCount[q]
               /\ k.dead => Owes(n, q)'
      BY <1>1, <1>4, <2>1 DEF Healthy
    <2>3. \A q \in Reliable : errorCount[q] \in Nat /\ errorCount'[q] \in Nat
      BY DEF EmbedInv, EmbedTypes, Reliable
    <2>4. \A d \in Callers : (call'[d] # Nil /\ call'[d].dead)
                             <=> (call[d] # Nil /\ call[d].dead)
      BY <1>1, <1>2
    <2>5. CASE k.dead
      <3>1. cancels # 0 /\ \A d \in Callers : call[d] # Nil /\ call[d].dead => d = c
        BY <1>1, <2>1, <2>5 DEF Healthy
      <3>2. \A q \in Reliable : errorCount'[q] <= 2
        BY <2>2, <2>5 DEF Owes
      <3>3. \A d \in Callers, q \in Reliable :
               call'[d] # Nil /\ call'[d].dead => Owes(call[d], q)'
        BY <1>2, <2>2, <2>4, <2>5, <3>1
      <3> QED
        BY <1>2, <2>1, <2>2, <2>4, <3>1, <3>2, <3>3 DEF Healthy
    <2>6. CASE ~ k.dead
      <3>1. \A d \in Callers : call[d] # Nil /\ call[d].dead => d # c
        BY <2>6
      <3>2. \A q \in Reliable : errorCount'[q] <= errorCount[q]
        BY <2>2, <2>6
      <3>3. ASSUME NEW d \in Callers, NEW q \in Reliable,
                   call'[d] # Nil /\ call'[d].dead
            PROVE  Owes(call[d], q)'
        <4>1. d # c /\ call'[d] = call[d] /\ Owes(call[d], q)
          BY <1>2, <2>1, <2>4, <3>1, <3>3 DEF Healthy
        <4>2. errorCount'[q] <= errorCount[q]
          BY <3>2
        <4> QED
          BY <2>3, <4>1, <4>2 DEF Owes
      <3>4. \A q \in Reliable : disabledUntil'[q] = "zero" /\ errorCount'[q] <= 2
        BY <2>1, <2>2, <2>3, <3>2 DEF Healthy
      <3>5. cancels' = 0 => \A q \in Reliable : errorCount'[q] = 0
        BY <2>1, <2>3, <3>2 DEF Healthy
      <3>6. \A d \in Callers : call'[d] # Nil /\ call'[d].dead
                             => call[d] # Nil /\ call[d].dead
        BY <2>4
      <3>7. cancels' = 0 => \A d \in Callers : call'[d] # Nil => ~ call'[d].dead
        <4> SUFFICES ASSUME cancels' = 0, NEW d \in Callers, call'[d] # Nil, call'[d].dead
                     PROVE  FALSE
          OBVIOUS
        <4>1. cancels = 0 /\ call[d] # Nil /\ call[d].dead
          BY <3>6
        <4> QED
          BY <2>1, <4>1 DEF Healthy
      <3>8. \A d, e \in Callers :
               call'[d] # Nil /\ call'[d].dead /\ call'[e] # Nil /\ call'[e].dead => d = e
        <4> SUFFICES ASSUME NEW d \in Callers, NEW e \in Callers,
                            call'[d] # Nil, call'[d].dead, call'[e] # Nil, call'[e].dead
                     PROVE  d = e
          OBVIOUS
        <4>1. /\ call[d] # Nil /\ call[d].dead
              /\ call[e] # Nil /\ call[e].dead
          BY <3>6
        <4> QED
          BY <2>1, <4>1 DEF Healthy
      <3>9. Healthy'
        BY <3>3, <3>4, <3>5, <3>7, <3>8 DEF Healthy
      <3> QED
        BY <1>2, <2>1, <2>2, <3>9
    <2> QED
      BY <1>2, <2>1, <2>2, <2>5, <2>6
  <1> QED
    BY <1>3, <1>4 DEF EmbedInv

\* The breakers of the reliable providers are closed, and who asks them keeps them.
LEMMA Asked ==
    ASSUME EmbedInv, NEW c \in Callers, candidates(c)
    PROVE  EmbedInv'
  <1>0. PICK k \in Call : call[c] = k
    BY DEF candidates, Inside, EmbedInv, EmbedTypes
  <1>1. k.at = "ask" /\ Staged(k) /\ EmbedTypes
    BY <1>0 DEF candidates, Inside, EmbedInv
  <1>2. k.asks # {} /\ k.asks \subseteq Chain /\ k.asks \cap k.cands = {}
    BY <1>1 DEF Staged, Call
  <1>3. PICK p : p = First(k.asks)
    OBVIOUS
  <1>4. p \in k.asks /\ p \in Chain
    BY <1>2, <1>3, FirstOf
  <1>5. PICK n : n = [k EXCEPT !.asks = @ \ {p},
                               !.cands = IF available(p) THEN @ \cup {p} ELSE @,
                               !.at = IF k.asks = {p} THEN "try" ELSE @]
    OBVIOUS
  <1>6. call' = [call EXCEPT ![c] = n] /\ cancels' = cancels
    BY <1>0, <1>3, <1>5 DEF candidates
  <1>7. \/ UNCHANGED <<errorCount, disabledUntil>>
        \/ disabledUntil[p] = "past" /\ markSuccess(p)
    BY <1>0, <1>3 DEF candidates
  <1>8. /\ n.asks = k.asks \ {p} /\ n.dead = k.dead /\ n.task = k.task
        /\ n.size = k.size /\ n.whole = k.whole /\ n.vec = k.vec
        /\ n.at \in {"ask", "try"} /\ (n.at = "try" <=> k.asks = {p})
        /\ n.cands = IF available(p) THEN k.cands \cup {p} ELSE k.cands
        /\ n \in Call
    BY <1>1, <1>4, <1>5 DEF Call
  <1>9. Staged(n) /\ (Again(n) <=> Again(k))
    BY <1>1, <1>2, <1>4, <1>8 DEF Staged, Again
  <1>10. EmbedTypes'
    BY <1>1, <1>4, <1>6, <1>7, <1>8 DEF EmbedTypes, markSuccess
  <1>11. ASSUME Healthy, Served(k), NEW q \in Reliable
         PROVE  /\ errorCount'[q] = errorCount[q] /\ disabledUntil'[q] = "zero"
                /\ Owes(k, q) => Owes(n, q)'
    <2>1. q \in Chain /\ disabledUntil[q] = "zero"
      BY <1>11 DEF Healthy, Reliable
    <2>2. errorCount'[q] = errorCount[q] /\ disabledUntil'[q] = "zero"
      BY <1>1, <1>7, <2>1 DEF markSuccess, EmbedTypes
    <2>3. n.asks \cup n.cands \subseteq k.asks \cup k.cands
      BY <1>4, <1>8
    <2> QED
      BY <1>1, <1>8, <1>9, <2>2, <2>3 DEF Owes
  <1>12. Healthy /\ Served(k) => Served(n)
    <2>1. ASSUME Healthy, p \in Reliable PROVE available(p)
      BY <2>1 DEF Healthy, available
    <2>2. Healthy => Reliable \cap (k.asks \cup k.cands) \subseteq n.asks \cup n.cands
      BY <1>8, <2>1
    <2> QED
      BY <1>1, <1>8, <2>2 DEF Served
  <1>13. \A q \in Reliable : errorCount[q] \in Nat
    BY <1>1 DEF EmbedTypes, Reliable
  <1>14. Healthy /\ Served(k) =>
           /\ Served(n)
           /\ \A q \in Reliable :
                /\ disabledUntil'[q] = "zero"
                /\ ~ k.dead => errorCount'[q] <= errorCount[q]
                /\ k.dead /\ Owes(k, q) => Owes(n, q)'
    BY <1>11, <1>12, <1>13
  <1> QED
    BY <1>0, <1>6, <1>8, <1>9, <1>10, <1>14, Stepped

\* A reliable provider that is tried answers with a vector, or refuses a text
\* sent whole; only a dead call makes it fail.
LEMMA Tried ==
    ASSUME EmbedInv, NEW c \in Callers, NEW o \in Answers, attempt(c, o)
    PROVE  EmbedInv'
  <1>0. PICK k \in Call : call[c] = k
    BY DEF attempt, Inside, EmbedInv, EmbedTypes
  <1>1. k.at = "try" /\ k.cands # {} /\ Staged(k) /\ EmbedTypes
    BY <1>0 DEF attempt, Inside, EmbedInv
  <1>2. PICK p : p = First(k.cands)
    OBVIOUS
  <1>3. p \in k.cands /\ p \in Chain /\ k.asks = {}
    BY <1>1, <1>2, FirstOf DEF Call, Staged
  <1>4. o \in Outcomes(p, k) /\ cancels' = cancels
    BY <1>0, <1>2 DEF attempt
  <1>5. CASE o = "vector"
    <2>1. PICK n : n = [k EXCEPT !.at = "done", !.vec = p]
      OBVIOUS
    <2>2. call' = [call EXCEPT ![c] = n] /\ markSuccess(p)
      BY <1>0, <1>2, <1>5, <2>1 DEF attempt
    <2>3. n \in Call /\ n.at = "done" /\ n.vec # Nil /\ n.dead = k.dead
          /\ n.asks = k.asks /\ n.cands = k.cands
      <3>1. p # Nil
        BY <1>3, EmbedderAssumption DEF Chain, New, Providers, Order
      <3> QED
        BY <1>3, <2>1, <3>1 DEF Call
    <2>4. Staged(n) /\ Served(n)
      BY <1>3, <2>3 DEF Staged, Served
    <2>5. EmbedTypes'
      BY <1>1, <1>3, <1>4, <2>2, <2>3 DEF EmbedTypes, markSuccess
    <2>6. ASSUME Healthy, NEW q \in Reliable
          PROVE  /\ disabledUntil'[q] = "zero" /\ errorCount'[q] <= errorCount[q]
                 /\ Owes(k, q) => Owes(n, q)'
      <3>1. q \in Chain /\ disabledUntil[q] = "zero" /\ errorCount[q] \in Nat
        BY <1>1, <2>6 DEF Healthy, Reliable, EmbedTypes
      <3>2. disabledUntil'[q] = "zero" /\ errorCount'[q] \in {0, errorCount[q]}
        BY <1>1, <2>2, <3>1 DEF markSuccess, EmbedTypes
      <3> QED
        BY <2>3, <3>1, <3>2 DEF Owes
    <2> QED
      BY <1>0, <1>4, <2>2, <2>3, <2>4, <2>5, <2>6, Stepped
  <1>6. CASE o # "vector"
    <2>1. PICK n : n = [k EXCEPT !.cands = @ \ {p}]
      OBVIOUS
    <2>2. call' = [call EXCEPT ![c] = n] /\ onFailure(p, o)
      BY <1>0, <1>2, <1>6, <2>1 DEF attempt
    <2>3. /\ n \in Call /\ n.at = "try" /\ n.dead = k.dead /\ n.asks = {}
          /\ n.cands = k.cands \ {p} /\ n.size = k.size /\ n.whole = k.whole
          /\ n.task = k.task /\ n.vec = k.vec
      BY <1>1, <1>3, <2>1 DEF Call
    <2>4. Staged(n) /\ (Again(n) <=> Again(k))
      BY <1>1, <1>3, <2>3 DEF Staged, Again
    <2>5. EmbedTypes'
      BY <1>1, <1>3, <1>4, <2>2, <2>3 DEF EmbedTypes, onFailure, markFailure
    <2>6. p \in Reliable /\ ~ k.dead => o = "rejected" /\ k.size = "long" /\ k.whole
      BY <1>4, <1>6 DEF Outcomes, Reliable
    <2>7. Served(k) => Served(n)
      <3>1. ASSUME ~ k.dead, k.size = "short" \/ ~ k.whole
            PROVE  Reliable \cap (k.asks \cup k.cands) \subseteq n.asks \cup n.cands
        <4>1. p \notin Reliable
          BY <2>6, <3>1
        <4> QED
          BY <1>3, <2>3, <4>1
      <3> QED
        BY <1>1, <2>3, <3>1 DEF Served
    <2>8. ASSUME Healthy, NEW q \in Reliable
          PROVE  /\ k.dead /\ Owes(k, q) => disabledUntil'[q] = "zero" /\ Owes(n, q)'
                 /\ ~ k.dead => disabledUntil'[q] = "zero"
                               /\ errorCount'[q] <= errorCount[q]
      <3>1. q \in Chain /\ disabledUntil[q] = "zero" /\ errorCount[q] \in Nat
        BY <1>1, <2>8 DEF Healthy, Reliable, EmbedTypes
      <3>2. CASE UNCHANGED <<errorCount, disabledUntil>>
        BY <1>1, <2>3, <2>4, <3>1, <3>2 DEF Owes
      <3>3. CASE q # p /\ markFailure(p)
        <4>1. disabledUntil'[q] = "zero" /\ errorCount'[q] = errorCount[q]
          BY <1>1, <3>1, <3>3 DEF markFailure, EmbedTypes
        <4> QED
          BY <1>1, <2>3, <2>4, <3>1, <4>1 DEF Owes
      <3>4. CASE q = p /\ markFailure(p) /\ k.dead
        <4>1. ASSUME Owes(k, q)
              PROVE  disabledUntil'[q] = "zero" /\ Owes(n, q)'
          <5>1. /\ errorCount[q] <= 1 /\ (Again(k) => errorCount[q] = 0)
            BY <1>1, <1>3, <3>4, <4>1 DEF Owes
          <5>2. errorCount'[q] = errorCount[q] + 1 /\ disabledUntil'[q] = "zero"
            BY <1>1, <3>1, <3>4, <5>1
               DEF markFailure, EmbedTypes, providerFailureThreshold
          <5>3. q \notin n.asks \cup n.cands
            BY <2>3, <3>4
          <5> QED
            BY <2>4, <3>1, <5>1, <5>2, <5>3 DEF Owes
        <4> QED
          BY <3>4, <4>1
      <3>5. \/ UNCHANGED <<errorCount, disabledUntil>>
            \/ markFailure(p) /\ (p \in Reliable => k.dead)
        BY <2>2, <2>6 DEF onFailure, isInputRejection
      <3> QED
        BY <2>8, <3>2, <3>3, <3>4, <3>5
    <2>9. ASSUME Healthy, NEW q \in Reliable, k.dead
          PROVE  Owes(k, q)
      BY <1>0, <2>9, EmbedderAssumption DEF Healthy
    <2> QED
      BY <1>0, <1>4, <2>2, <2>3, <2>4, <2>5, <2>7, <2>8, <2>9, Stepped
  <1> QED
    BY <1>5, <1>6

\* The end of the chain, or the way down once more with the opening of the text.
LEMMA Exhausts ==
    ASSUME EmbedInv, NEW c \in Callers, exhausted(c)
    PROVE  EmbedInv'
  <1>0. PICK k \in Call : call[c] = k
    BY DEF exhausted, Inside, EmbedInv, EmbedTypes
  <1>1. k.at = "try" /\ k.cands = {} /\ k.asks = {} /\ EmbedTypes
    BY <1>0 DEF exhausted, Inside, EmbedInv, Staged
  <1>2. PICK n : n = IF Again(k)
                     THEN [k EXCEPT !.whole = FALSE, !.at = "ask", !.asks = Chain]
                     ELSE [k EXCEPT !.at = "done"]
    OBVIOUS
  <1>3. call' = [call EXCEPT ![c] = n] /\ UNCHANGED <<errorCount, disabledUntil, cancels>>
    BY <1>0, <1>2 DEF exhausted, Again
  <1>4. /\ n \in Call /\ n.dead = k.dead /\ n.task = k.task /\ n.size = k.size
        /\ n.vec = k.vec /\ n.cands = {}
        /\ Again(k) => n.at = "ask" /\ n.asks = Chain /\ ~ n.whole
        /\ ~ Again(k) => n.at = "done" /\ n.asks = {}
    BY <1>1, <1>2 DEF Call
  <1>5. Staged(n)
    BY <1>4, SomeProvider DEF Staged
  <1>6. EmbedTypes'
    BY <1>1, <1>3, <1>4 DEF EmbedTypes
  <1>7. Served(k) => Served(n)
    <2>1. k.size \in {"short", "long"}
      BY DEF Call, Sizes
    <2>2. CASE Again(k)
      BY <1>4, <2>2 DEF Served, Reliable
    <2>3. CASE ~ Again(k)
      BY <1>1, <1>4, <2>1, <2>3 DEF Served, Again
    <2> QED
      BY <2>2, <2>3
  <1>8. \A q \in Reliable : Owes(k, q) => Owes(n, q)'
    BY <1>1, <1>3, <1>4 DEF Owes, Again
  <1>9. \A q \in Reliable : errorCount[q] \in Nat
    BY <1>1 DEF EmbedTypes, Reliable
  <1>10. Healthy /\ Served(k) =>
           /\ Served(n)
           /\ \A q \in Reliable :
                /\ disabledUntil'[q] = "zero"
                /\ ~ k.dead => errorCount'[q] <= errorCount[q]
                /\ k.dead /\ Owes(k, q) => Owes(n, q)'
    BY <1>3, <1>7, <1>8, <1>9 DEF Healthy
  <1> QED
    BY <1>0, <1>3, <1>4, <1>5, <1>6, <1>10, Stepped

\* The first call that dies finds the reliable providers without a failure.
LEMMA Cancelled ==
    ASSUME EmbedInv, NEW c \in Callers, Cancel(c)
    PROVE  EmbedInv'
  <1>0. PICK k \in Call : call[c] = k
    BY DEF Cancel, Inside, EmbedInv, EmbedTypes
  <1>1. PICK n : n = [k EXCEPT !.dead = TRUE]
    OBVIOUS
  <1>2. /\ call' = [call EXCEPT ![c] = n] /\ cancels' = cancels + 1
        /\ UNCHANGED <<errorCount, disabledUntil>>
    BY <1>0, <1>1 DEF Cancel
  <1>3. /\ n \in Call /\ n.dead /\ n.at = k.at /\ n.asks = k.asks /\ n.cands = k.cands
    BY <1>1 DEF Call
  <1>4. k # Nil /\ n # Nil
    BY <1>3, EmbedderAssumption
  <1>5. EmbedTypes'
    BY <1>2, <1>3 DEF EmbedInv, EmbedTypes
  <1>6. \A d \in Callers : call'[d] = IF d = c THEN n ELSE call[d]
    BY <1>2 DEF EmbedInv, EmbedTypes
  <1>7. \A d \in Callers : call'[d] # Nil => Staged(call'[d])
    BY <1>0, <1>3, <1>4, <1>6 DEF EmbedInv, Staged
  <1>8. ASSUME cancels' < 2
        PROVE  Healthy' /\ \A d \in Callers : call'[d] # Nil => Served(call'[d])
    <2>1. cancels = 0 /\ cancels' = 1
      BY <1>2, <1>8 DEF EmbedInv, EmbedTypes
    <2>2. Healthy /\ \A d \in Callers : call[d] # Nil => Served(call[d])
      BY <2>1 DEF EmbedInv
    <2>3. \A d \in Callers : call'[d] # Nil /\ call'[d].dead => d = c
      BY <1>6, <2>1, <2>2 DEF Healthy
    <2>4. \A q \in Reliable : errorCount'[q] = 0 /\ disabledUntil'[q] = "zero"
      BY <1>2, <2>1, <2>2 DEF Healthy
    <2>5. \A d \in Callers, q \in Reliable : Owes(call[d], q)'
      BY <2>4 DEF Owes
    <2>6. Served(n)
      BY <1>3 DEF Served
    <2> QED
      BY <1>6, <2>1, <2>2, <2>3, <2>4, <2>5, <2>6 DEF Healthy
  <1> QED
    BY <1>5, <1>7, <1>8 DEF EmbedInv

\* Every step of the composition that has to do with the embedder.
LEMMA NextEmbeds == EmbedInv /\ [Next]_vars => EmbedInv'
  <1> SUFFICES ASSUME EmbedInv, [Next]_vars PROVE EmbedInv'
    OBVIOUS
  <1>1. CASE UNCHANGED embedVars
    BY <1>1 DEF embedVars, EmbedInv, EmbedTypes, Healthy, Owes
  <1>2. ASSUME NEW w \in Writers, NEW b \in Texts, NEW m \in used \cup {None},
               BeginWrite(w, m, b)
        PROVE  EmbedInv'
    <2>1. w \in Callers /\ "write" \in Tasks /\ Size[b] \in Sizes
      BY IngestAssumption DEF Tasks
    <2> QED
      BY <1>2, <2>1, Entered DEF BeginWrite
  <1>3. CASE BeginRecall
    <2>1. Recaller \in Callers /\ "query" \in Tasks /\ "short" \in Sizes
      BY IngestAssumption DEF Tasks, Sizes
    <2> QED
      BY <1>3, <2>1, Entered DEF BeginRecall
  <1>4. ASSUME NEW size \in Sizes, BeginBatch(size)
        PROVE  EmbedInv'
    <2>1. Indexer \in Callers /\ "batch" \in Tasks
      BY IngestAssumption DEF Tasks
    <2> QED
      BY <1>4, <2>1, Entered DEF BeginBatch, BatchEmbed
  <1>5. ASSUME NEW w \in Writers, CommitWrite(w)
        PROVE  EmbedInv'
    BY <1>5, Returned, IngestAssumption DEF CommitWrite
  <1>6. ASSUME NEW seeds, RecallSeeds(seeds)
        PROVE  EmbedInv'
    BY <1>6, Returned, IngestAssumption DEF RecallSeeds
  <1>7. CASE EndBatch
    BY <1>7, Returned, IngestAssumption DEF EndBatch
  <1>8. CASE EmbedderStep
    <2>1. ASSUME NEW c \in Callers, candidates(c) \/ exhausted(c)
          PROVE  EmbedInv'
      BY <2>1, Asked, Exhausts
    <2>2. ASSUME NEW c \in Callers, NEW o \in Answers, attempt(c, o)
          PROVE  EmbedInv'
      BY <2>2, Tried
    <2>3. ASSUME NEW c \in Callers, Cancel(c)
          PROVE  EmbedInv'
      BY <2>3, Cancelled
    <2>4. ASSUME NEW p \in Chain, Cooled(p)
          PROVE  EmbedInv'
      BY <2>4, CooledDown
    <2> QED
      BY <1>8, <2>1, <2>2, <2>3, <2>4 DEF EmbedderStep
  <1>9. CASE Crash
    <2>1. /\ errorCount' = [p \in Chain |-> 0]
          /\ disabledUntil' = [p \in Chain |-> "zero"]
          /\ call' = [c \in Callers |-> Nil] /\ cancels' = 0
      BY <1>9 DEF Crash
    <2> QED
      BY <2>1 DEF EmbedInv, EmbedTypes, Healthy, Reliable
  <1>10. ASSUME NEW w \in Writers, EndDelete(w) \/ \E m \in Ids : BeginDelete(w, m)
         PROVE  EmbedInv'
    BY <1>1, <1>10 DEF EndDelete, BeginDelete
  <1>11. CASE Rewrite \/ GraphStep \/ GraphFault \/ StartCli \/ UNCHANGED vars
    BY <1>1, <1>11 DEF Rewrite, GraphStep, GraphFault, StartCli, vars
  <1> QED
    BY <1>2, <1>3, <1>4, <1>5, <1>6, <1>7, <1>8, <1>9, <1>10, <1>11 DEF Next

\* A text gets its vector whenever one provider of the chain is reliable,
\* whatever the others do and whoever shares its breaker, unless its own context
\* dies, or two calls' have since the start: a single one is never enough.
THEOREM TextIsEmbeddedHolds == Spec => []TextIsEmbedded
  <1>1. Init => EmbedInv
    BY EmbedStarts DEF Init
  <1>2. EmbedInv => TextIsEmbedded
    <2> SUFFICES ASSUME EmbedInv, NEW c \in Callers, Inside(c, "done"),
                        call[c].vec = Nil, cancels < 2, ~ call[c].dead
                 PROVE  \/ Sound \cap Chain = {}
                        \/ call[c].size = "long" /\ call[c].task # "write"
      BY DEF TextIsEmbedded, EmbedInv, EmbedTypes
    <2> QED
      BY DEF EmbedInv, Inside, Served, Reliable
  <1> QED
    BY <1>1, <1>2, NextEmbeds, PTL DEF Spec

-----------------------------------------------------------------------------
(* The walk.                                                               *)

\* What a recall score may be.
Worth == 0 .. Unit

\* A set of natural numbers that is not empty has a least element.
LEMMA Least ==
    ASSUME NEW S \in SUBSET Nat, S # {}
    PROVE  \E n \in S : \A m \in S : n <= m
  <1>1. \A n \in S : \E x \in S : \A y \in S : ~ (<<y, x>> \in OpToRel(<, Nat))
    BY WFMin, NatLessThanWellFounded, Zenon
  <1>2. PICK x \in S : \A y \in S : ~ (<<y, x>> \in OpToRel(<, Nat))
    BY <1>1, Zenon
  <1>3. \A y \in S : ~ (y < x)
    BY <1>2 DEF OpToRel
  <1> QED
    BY <1>3

\* Damping keeps a score a score, and keeps the order of two scores.
LEMMA DampedIs ==
    /\ \A s \in Worth : Damped(s) \in Worth
    /\ \A s, t \in Worth : s <= t => Damped(s) <= Damped(t)
    /\ Damped(0) = 0
  BY DEF Damped, Worth, Unit

\* A set of scores that is not empty has a greatest element, however large it is.
LEMMA Greatest ==
    ASSUME NEW S \in SUBSET Worth, S # {}
    PROVE  \E n \in S : \A m \in S : m <= n
  <1> DEFINE T == {Unit - n : n \in S}
  <1>1. \A n \in S : n \in Int /\ Unit - n \in Nat
    BY DEF Worth, Unit
  <1>2. T \in SUBSET Nat /\ T # {}
    BY <1>1
  <1>3. \A n \in S : Unit - n \in T
    OBVIOUS
  <1>4. \A t \in T : \E n \in S : t = Unit - n
    OBVIOUS
  <1> HIDE DEF T
  <1>5. PICK t \in T : \A u \in T : t <= u
    BY <1>2, Least
  <1>6. PICK n \in S : t = Unit - n
    BY <1>4
  <1>7. \A m \in S : m <= n
    BY <1>1, <1>3, <1>5, <1>6 DEF Unit
  <1> QED
    BY <1>7

\* The best of a set of scores is one of them and bounds them.
LEMMA BestIs ==
    ASSUME NEW S \in SUBSET Worth
    PROVE  /\ Best(S) \in Worth
           /\ \A n \in S : n <= Best(S)
           /\ S # {} => Best(S) \in S
           /\ S = {} => Best(S) = 0
  <1>1. CASE S = {}
    BY <1>1 DEF Best, Worth, Unit
  <1>2. CASE S # {}
    <2>1. \E n \in S : \A m \in S : n >= m
      BY <1>2, Greatest DEF Worth
    <2>2. Max(S) \in S /\ \A m \in S : Max(S) >= m
      BY <2>1 DEF Max
    <2> QED
      BY <1>2, <2>2 DEF Best, Worth
  <1> QED
    BY <1>1, <1>2


\* f fades a score hop by hop, up to n hops.
Fades(s, n, f) ==
    f = [i \in 0 .. n |-> IF i = 0 THEN s ELSE Damped(f[i - 1])]

\* There is one way to fade a score,
LEMMA FadesOnce ==
    ASSUME NEW s, NEW n \in Nat, NEW f, NEW g, Fades(s, n, f), Fades(s, n, g)
    PROVE  f[n] = g[n]
  <1> DEFINE S == {i \in 0 .. n : f[i] # g[i]}
  <1>1. ASSUME S # {} PROVE FALSE
    <2>0. S \in SUBSET Nat
      OBVIOUS
    <2>1. PICK i \in S : \A j \in S : i <= j
      <3> HIDE DEF S
      <3> QED
        BY <1>1, <2>0, Least
    <2>2. i \in 0 .. n /\ f[i] # g[i]
      OBVIOUS
    <2>3. i # 0 /\ f[i] = Damped(f[i - 1]) /\ g[i] = Damped(g[i - 1])
      BY <2>2 DEF Fades
    <2>4. i - 1 \in 0 .. n /\ f[i - 1] = g[i - 1]
      BY <2>1, <2>2, <2>3
    <2> QED
      BY <2>2, <2>3, <2>4
  <1> QED
    BY <1>1

\* and there is a way.
LEMMA SomethingFades ==
    ASSUME NEW s, NEW k \in Nat
    PROVE  \E f : Fades(s, k, f)
  <1> DEFINE S == {n \in Nat : ~ \E f : Fades(s, n, f)}
  <1>1. ASSUME S # {} PROVE FALSE
    <2>1. PICK n \in S : \A m \in S : n <= m
      BY <1>1, Least
    <2>2. n # 0
      <3>1. Fades(s, 0, [i \in 0 .. 0 |-> s])
        BY DEF Fades
      <3> QED
        BY <3>1
    <2>3. n - 1 \in Nat /\ n - 1 \notin S
      BY <2>1, <2>2
    <2>4. PICK f : Fades(s, n - 1, f)
      BY <2>3
    <2> DEFINE g == [i \in 0 .. n |-> IF i = n THEN Damped(f[n - 1]) ELSE f[i]]
    <2>5. ASSUME NEW i \in 0 .. n
          PROVE  g[i] = IF i = 0 THEN s ELSE Damped(g[i - 1])
      BY <2>2, <2>3, <2>4 DEF Fades
    <2>6. Fades(s, n, g)
      BY <2>5 DEF Fades
    <2> QED
      BY <2>6
  <1> QED
    BY <1>1

\* A hop more is damped once more.
LEMMA FadedAgain ==
    ASSUME NEW s, NEW k \in Nat
    PROVE  /\ Faded(s, 0) = s
           /\ Faded(s, k + 1) = Damped(Faded(s, k))
  <1>1. \A n \in Nat : \E f : Fades(s, n, f) /\ Faded(s, n) = f[n]
    BY SomethingFades DEF Faded, Fades
  <1>2. Faded(s, 0) = s
    BY <1>1 DEF Fades
  <1>3. PICK f : Fades(s, k, f) /\ Faded(s, k) = f[k]
    BY <1>1
  <1>4. PICK g : Fades(s, k + 1, g) /\ Faded(s, k + 1) = g[k + 1]
    BY <1>1
  <1>5. g[k + 1] = Damped(g[k])
    BY <1>4 DEF Fades
  <1> DEFINE h == [i \in 0 .. k |-> g[i]]
  <1>6. Fades(s, k, h)
    BY <1>4 DEF Fades
  <1>7. h[k] = f[k]
    BY <1>3, <1>6, FadesOnce
  <1> QED
    BY <1>2, <1>3, <1>4, <1>5, <1>7

\* Whatever a score fades to is a score.
LEMMA FadedIs ==
    ASSUME NEW s \in Worth, NEW k \in Nat
    PROVE  Faded(s, k) \in Worth
  <1> DEFINE S == {n \in Nat : Faded(s, n) \notin Worth}
  <1>1. ASSUME S # {} PROVE FALSE
    <2>1. PICK n \in S : \A m \in S : n <= m
      BY <1>1, Least
    <2>2. n # 0
      BY FadedAgain
    <2>3. n - 1 \in Nat /\ Faded(s, n - 1) \in Worth
      BY <2>1, <2>2
    <2>4. Faded(s, (n - 1) + 1) \in Worth
      BY <2>3, FadedAgain, DampedIs
    <2> QED
      BY <2>3, <2>4
  <1> QED
    BY <1>1

\* Triples are walked both ways, between entities of the graph.
LEMMA Symmetric ==
    ASSUME NEW G, NEW e, NEW f
    PROVE  /\ f \in Neighbours(G, e) <=> e \in Neighbours(G, f)
           /\ Neighbours(G, e) \subseteq EntitiesOf(G)
  <1>1. ASSUME NEW t \in G
        PROVE  t.edge[1] \in EntitiesOf(G) /\ t.edge[2] \in EntitiesOf(G)
    BY DEF EntitiesOf, Ends
  <1>2. \A x, y : y \in Neighbours(G, x) <=>
           \E t \in G : \/ t.edge[1] = x /\ t.edge[2] = y
                        \/ t.edge[2] = x /\ t.edge[1] = y
    BY DEF Neighbours
  <1> QED
    BY <1>1, <1>2


\* The score s is what a walk of k hops to e is worth.
Reached(G, seeds, k, e, s) ==
    \E x \in WalksOf(G, seeds, k) :
        x[k] = e /\ s = Faded(seedEntities(G, seeds)[x[0]], k)

\* Seed memories have scores.
Valued(seeds) == \A m \in DOMAIN seeds : seeds[m] \in Worth

\* The entities of seeds have scores.
LEMMA SeedsAre ==
    ASSUME NEW G, NEW seeds, Valued(seeds)
    PROVE  seedEntities(G, seeds) \in [EntitiesOf(G) -> Worth]
  <1> DEFINE S(e) == {Boost(seeds[t.memory]) :
                      t \in {u \in G : u.memory \in DOMAIN seeds /\ e \in Ends(u)}}
  <1>1. \A e : S(e) \in SUBSET Worth
    BY DEF Valued, Worth, Boost, Unit
  <1>2. seedEntities(G, seeds) = [e \in EntitiesOf(G) |-> Best(S(e))]
    BY DEF seedEntities
  <1> HIDE DEF S
  <1>3. \A e : Best(S(e)) \in Worth
    BY <1>1, BestIs
  <1> QED
    BY <1>2, <1>3

\* The walks of no hops are the seed entities.
LEMMA ReachedFirst ==
    ASSUME NEW G, NEW seeds, Valued(seeds), NEW e, NEW s
    PROVE  Reached(G, seeds, 0, e, s) <=>
             /\ e \in EntitiesOf(G)
             /\ seedEntities(G, seeds)[e] > 0 /\ s = seedEntities(G, seeds)[e]
  <1>1. \A r : Faded(r, 0) = r
    BY FadedAgain
  <1>2. ASSUME Reached(G, seeds, 0, e, s)
        PROVE  /\ e \in EntitiesOf(G)
               /\ seedEntities(G, seeds)[e] > 0 /\ s = seedEntities(G, seeds)[e]
    BY <1>1, <1>2 DEF Reached, WalksOf
  <1>3. ASSUME e \in EntitiesOf(G), seedEntities(G, seeds)[e] > 0,
               s = seedEntities(G, seeds)[e]
        PROVE  Reached(G, seeds, 0, e, s)
    <2> DEFINE x == [i \in 0 .. 0 |-> e]
    <2>1. x \in WalksOf(G, seeds, 0)
      BY <1>3 DEF WalksOf
    <2>2. x[0] = e
      OBVIOUS
    <2> QED
      BY <1>1, <1>3, <2>1, <2>2 DEF Reached
  <1> QED
    BY <1>2, <1>3

\* A walk of one hop more is a walk and a neighbour of where it ends.
LEMMA ReachedNext ==
    ASSUME NEW G, NEW seeds, NEW k \in Nat, NEW e, NEW s
    PROVE  Reached(G, seeds, k + 1, e, s) <=>
             \E f, r : Reached(G, seeds, k, f, r) /\ e \in Neighbours(G, f)
                       /\ s = Damped(r)
  <1>1. \A r : Faded(r, k + 1) = Damped(Faded(r, k))
    BY FadedAgain
  <1>2. ASSUME Reached(G, seeds, k + 1, e, s)
        PROVE  \E f, r : Reached(G, seeds, k, f, r) /\ e \in Neighbours(G, f)
                         /\ s = Damped(r)
    <2>1. PICK x \in WalksOf(G, seeds, k + 1) :
            x[k + 1] = e /\ s = Faded(seedEntities(G, seeds)[x[0]], k + 1)
      BY <1>2 DEF Reached
    <2> DEFINE y == [i \in 0 .. k |-> x[i]]
    <2>2. /\ x \in [0 .. k + 1 -> EntitiesOf(G)] /\ seedEntities(G, seeds)[x[0]] > 0
          /\ \A i \in 1 .. k + 1 : x[i] \in Neighbours(G, x[i - 1])
      BY DEF WalksOf
    <2>3. y \in [0 .. k -> EntitiesOf(G)] /\ y[0] = x[0]
      BY <2>2
    <2>4. \A i \in 1 .. k : y[i] \in Neighbours(G, y[i - 1])
      BY <2>2
    <2>5. y \in WalksOf(G, seeds, k)
      BY <2>2, <2>3, <2>4 DEF WalksOf
    <2>6. Reached(G, seeds, k, x[k], Faded(seedEntities(G, seeds)[x[0]], k))
      <3>1. y[k] = x[k]
        OBVIOUS
      <3> HIDE DEF y
      <3> QED
        BY <2>3, <2>5, <3>1 DEF Reached
    <2>7. e \in Neighbours(G, x[k])
      <3>1. x[k + 1] \in Neighbours(G, x[(k + 1) - 1]) /\ (k + 1) - 1 = k
        BY <2>2
      <3> QED
        BY <2>1, <3>1
    <2> QED
      BY <1>1, <2>1, <2>6, <2>7
  <1>3. ASSUME NEW f, NEW r, Reached(G, seeds, k, f, r), e \in Neighbours(G, f),
               s = Damped(r)
        PROVE  Reached(G, seeds, k + 1, e, s)
    <2>1. PICK x \in WalksOf(G, seeds, k) :
            x[k] = f /\ r = Faded(seedEntities(G, seeds)[x[0]], k)
      BY <1>3 DEF Reached
    <2>2. /\ x \in [0 .. k -> EntitiesOf(G)] /\ seedEntities(G, seeds)[x[0]] > 0
          /\ \A i \in 1 .. k : x[i] \in Neighbours(G, x[i - 1])
      BY DEF WalksOf
    <2> DEFINE y == [i \in 0 .. k + 1 |-> IF i = k + 1 THEN e ELSE x[i]]
    <2>3. e \in EntitiesOf(G)
      BY <1>3, Symmetric
    <2>4. y \in [0 .. k + 1 -> EntitiesOf(G)] /\ y[0] = x[0] /\ y[k + 1] = e
      BY <2>2, <2>3
    <2>5. ASSUME NEW i \in 1 .. k + 1
          PROVE  y[i] \in Neighbours(G, y[i - 1])
      <3>1. CASE i = k + 1
        <4>1. y[i] = e /\ y[i - 1] = x[k]
          BY <3>1
        <4> HIDE DEF y
        <4> QED
          BY <4>1, <1>3, <2>1
      <3>2. CASE i # k + 1
        <4>1. i \in 1 .. k /\ y[i] = x[i] /\ y[i - 1] = x[i - 1]
          BY <3>2
        <4> HIDE DEF y
        <4> QED
          BY <4>1, <2>2
      <3> QED
        BY <3>1, <3>2
    <2> HIDE DEF y
    <2>6. y \in WalksOf(G, seeds, k + 1)
      BY <2>2, <2>4, <2>5 DEF WalksOf
    <2> QED
      BY <1>1, <1>3, <2>1, <2>4, <2>6 DEF Reached
  <1> QED
    BY <1>2, <1>3


\* What a walk is worth is a score.
LEMMA ReachedIs ==
    ASSUME NEW G, NEW seeds, Valued(seeds), NEW k \in Nat, NEW e, NEW s,
           Reached(G, seeds, k, e, s)
    PROVE  s \in Worth /\ e \in EntitiesOf(G)
  <1>1. PICK x \in WalksOf(G, seeds, k) :
          x[k] = e /\ s = Faded(seedEntities(G, seeds)[x[0]], k)
    BY DEF Reached
  <1>2. x \in [0 .. k -> EntitiesOf(G)] /\ 0 \in 0 .. k /\ k \in 0 .. k
    BY DEF WalksOf
  <1>3. seedEntities(G, seeds)[x[0]] \in Worth
    BY <1>2, SeedsAre
  <1> QED
    BY <1>1, <1>2, <1>3, FadedIs

\* After h levels: an entity that is not walked on from has nothing better for
\* its neighbours, every score is that of a walk, and no walk of up to h hops
\* is worth more.
LevelTypes(G, w) ==
    w.score \in [EntitiesOf(G) -> Worth] /\ w.frontier \subseteq EntitiesOf(G)

Settled(G, w) ==
    \A e \in EntitiesOf(G) : \A f \in Neighbours(G, e) \ w.frontier :
        Damped(w.score[f]) <= w.score[e]

Earned(G, seeds, h, w) ==
    \A e \in EntitiesOf(G) : w.score[e] # 0 =>
        \E k \in 0 .. h : Reached(G, seeds, k, e, w.score[e])

Unbeaten(G, seeds, h, w) ==
    \A k \in 0 .. h : \A e \in EntitiesOf(G) : \A s :
        Reached(G, seeds, k, e, s) => s <= w.score[e]

Walked(G, seeds, h, w) ==
    LevelTypes(G, w) /\ Settled(G, w) /\ Earned(G, seeds, h, w) /\ Unbeaten(G, seeds, h, w)

\* The first level is entered with the walks of no hops.
LEMMA WalkBegins ==
    ASSUME NEW G, NEW seeds, Valued(seeds)
    PROVE  Walked(G, seeds, 0, SeedLevel(G, seeds))
  <1> DEFINE w == SeedLevel(G, seeds)
  <1>1. /\ w.score = seedEntities(G, seeds)
        /\ w.frontier = {e \in EntitiesOf(G) : seedEntities(G, seeds)[e] > 0}
    BY DEF SeedLevel
  <1> HIDE DEF w
  <1>2. w.score \in [EntitiesOf(G) -> Worth]
    BY <1>1, SeedsAre
  <1>3. Settled(G, w)
    <2>1. ASSUME NEW e \in EntitiesOf(G), NEW f \in Neighbours(G, e) \ w.frontier
          PROVE  Damped(w.score[f]) <= w.score[e]
      <3>1. f \in EntitiesOf(G)
        BY Symmetric
      <3>2. w.score[f] = 0
        BY <1>1, <1>2, <3>1 DEF Worth
      <3> QED
        BY <1>2, <3>2, DampedIs DEF Worth
    <2> QED
      BY <2>1 DEF Settled
  <1>4. Earned(G, seeds, 0, w)
    BY <1>1, <1>2, ReachedFirst DEF Earned, Worth
  <1>5. Unbeaten(G, seeds, 0, w)
    BY <1>1, <1>2, ReachedFirst DEF Unbeaten, Worth
  <1>6. LevelTypes(G, w)
    BY <1>1, <1>2 DEF LevelTypes
  <1>7. Walked(G, seeds, 0, w)
    BY <1>3, <1>4, <1>5, <1>6 DEF Walked
  <1> QED
    BY <1>7 DEF w

\* What the entities just reached better offer to e.
Offer(G, w, e) == Best({Damped(w.score[f]) : f \in Neighbours(G, e) \cap w.frontier})

\* The offer to e is the best of its walked-on neighbours, if there is any.
LEMMA OfferIs ==
    ASSUME NEW G, NEW w, LevelTypes(G, w), NEW e
    PROVE  /\ Offer(G, w, e) \in Worth
           /\ \A f \in Neighbours(G, e) \cap w.frontier : Damped(w.score[f]) <= Offer(G, w, e)
           /\ Offer(G, w, e) # 0 =>
                \E f \in Neighbours(G, e) \cap w.frontier : Offer(G, w, e) = Damped(w.score[f])
  <1> DEFINE S == {Damped(w.score[f]) : f \in Neighbours(G, e) \cap w.frontier}
  <1>1. \A f \in Neighbours(G, e) : w.score[f] \in Worth
    BY Symmetric DEF LevelTypes
  <1>2. S \in SUBSET Worth
    BY <1>1, DampedIs
  <1>3. \A f \in Neighbours(G, e) \cap w.frontier : Damped(w.score[f]) \in S
    OBVIOUS
  <1>4. \A s \in S : \E f \in Neighbours(G, e) \cap w.frontier : s = Damped(w.score[f])
    OBVIOUS
  <1>5. Offer(G, w, e) = Best(S)
    BY DEF Offer
  <1> HIDE DEF S
  <1> QED
    BY <1>2, <1>3, <1>4, <1>5, BestIs

\* A level never lowers a score, and takes every offer that is better.
LEMMA LevelIs ==
    ASSUME NEW G, NEW w, LevelTypes(G, w)
    PROVE  /\ LevelTypes(G, Level(G, w))
           /\ \A e \in EntitiesOf(G) :
                /\ w.score[e] <= Level(G, w).score[e]
                /\ Offer(G, w, e) <= Level(G, w).score[e]
                /\ e \in Level(G, w).frontier => Level(G, w).score[e] = Offer(G, w, e)
                /\ e \notin Level(G, w).frontier => Level(G, w).score[e] = w.score[e]
  <1> DEFINE v == Level(G, w)
  <1>1. /\ v.frontier = {e \in EntitiesOf(G) : Offer(G, w, e) > w.score[e]}
        /\ v.score = [e \in EntitiesOf(G) |->
                        IF e \in v.frontier THEN Offer(G, w, e) ELSE w.score[e]]
    BY DEF Level, Offer
  <1> HIDE DEF v
  <1>2. \A e \in EntitiesOf(G) : w.score[e] \in Worth /\ Offer(G, w, e) \in Worth
    BY OfferIs DEF LevelTypes
  <1>3. LevelTypes(G, v)
    BY <1>1, <1>2 DEF LevelTypes
  <1>4. ASSUME NEW e \in EntitiesOf(G)
        PROVE  /\ w.score[e] <= v.score[e]
               /\ Offer(G, w, e) <= v.score[e]
               /\ e \in v.frontier => v.score[e] = Offer(G, w, e)
               /\ e \notin v.frontier => v.score[e] = w.score[e]
    <2>1. v.score[e] = IF e \in v.frontier THEN Offer(G, w, e) ELSE w.score[e]
      BY <1>1
    <2>2. e \in v.frontier <=> Offer(G, w, e) > w.score[e]
      BY <1>1
    <2> QED
      BY <1>2, <2>1, <2>2 DEF Worth
  <1> QED
    BY <1>3, <1>4 DEF v

\* Each level accounts for the walks of one hop more: those that do not end on
\* an entity just reached better have been accounted for by Settled.
LEMMA WalkGoesOn ==
    ASSUME NEW G, NEW seeds, Valued(seeds), NEW h \in Nat, NEW w, Walked(G, seeds, h, w)
    PROVE  Walked(G, seeds, h + 1, Level(G, w))
  <1> DEFINE v == Level(G, w)
  <1>0. LevelTypes(G, w) /\ Settled(G, w) /\ Earned(G, seeds, h, w) /\ Unbeaten(G, seeds, h, w)
    BY DEF Walked
  <1>1. /\ LevelTypes(G, v)
        /\ \A e \in EntitiesOf(G) :
             /\ w.score[e] <= v.score[e]
             /\ Offer(G, w, e) <= v.score[e]
             /\ e \in v.frontier => v.score[e] = Offer(G, w, e)
             /\ e \notin v.frontier => v.score[e] = w.score[e]
    BY <1>0, LevelIs
  <1> HIDE DEF v
  <1>2. \A e \in EntitiesOf(G) : w.score[e] \in Worth /\ v.score[e] \in Worth
    BY <1>0, <1>1 DEF LevelTypes
  <1>3. ASSUME NEW e \in EntitiesOf(G), NEW f \in Neighbours(G, e)
        PROVE  Damped(w.score[f]) <= v.score[e]
    <2>1. f \in EntitiesOf(G)
      BY Symmetric
    <2>2. Damped(w.score[f]) \in Worth
      BY <1>2, <2>1, DampedIs
    <2>3. CASE f \in w.frontier
      <3>1. Damped(w.score[f]) <= Offer(G, w, e) /\ Offer(G, w, e) \in Worth
        BY <1>0, <2>3, OfferIs
      <3> QED
        BY <1>1, <1>2, <2>2, <3>1 DEF Worth
    <2>4. CASE f \notin w.frontier
      <3>1. Damped(w.score[f]) <= w.score[e]
        BY <1>0, <2>4 DEF Settled
      <3> QED
        BY <1>1, <1>2, <2>2, <3>1 DEF Worth
    <2> QED
      BY <2>3, <2>4
  <1>4. Settled(G, v)
    <2>1. ASSUME NEW e \in EntitiesOf(G), NEW f \in Neighbours(G, e) \ v.frontier
          PROVE  Damped(v.score[f]) <= v.score[e]
      <3>1. f \in EntitiesOf(G)
        BY Symmetric
      <3> QED
        BY <1>1, <1>3, <3>1
    <2> QED
      BY <2>1 DEF Settled
  <1>5. Earned(G, seeds, h + 1, v)
    <2>1. ASSUME NEW e \in EntitiesOf(G), v.score[e] # 0
          PROVE  \E k \in 0 .. h + 1 : Reached(G, seeds, k, e, v.score[e])
      <3>1. CASE e \in v.frontier
        <4>1. v.score[e] = Offer(G, w, e)
          BY <1>1, <3>1
        <4>2. PICK f \in Neighbours(G, e) \cap w.frontier : v.score[e] = Damped(w.score[f])
          BY <1>0, <2>1, <4>1, OfferIs
        <4>3. f \in EntitiesOf(G) /\ e \in Neighbours(G, f)
          BY Symmetric
        <4>4. w.score[f] # 0
          BY <2>1, <4>2, DampedIs
        <4>5. PICK k \in 0 .. h : Reached(G, seeds, k, f, w.score[f])
          BY <1>0, <4>3, <4>4 DEF Earned
        <4>6. Reached(G, seeds, k + 1, e, v.score[e])
          BY <4>2, <4>3, <4>5, ReachedNext
        <4> QED
          BY <4>6
      <3>2. CASE e \notin v.frontier
        <4>1. v.score[e] = w.score[e]
          BY <1>1, <3>2
        <4>2. PICK k \in 0 .. h : Reached(G, seeds, k, e, w.score[e])
          BY <1>0, <2>1, <4>1 DEF Earned
        <4> QED
          BY <4>1, <4>2
      <3> QED
        BY <3>1, <3>2
    <2> QED
      BY <2>1 DEF Earned
  <1>6. Unbeaten(G, seeds, h + 1, v)
    <2>1. ASSUME NEW k \in 0 .. h + 1, NEW e \in EntitiesOf(G), NEW s,
                 Reached(G, seeds, k, e, s)
          PROVE  s <= v.score[e]
      <3>0. s \in Worth
        BY <2>1, ReachedIs
      <3>1. CASE k \in 0 .. h
        <4>1. s <= w.score[e]
          BY <1>0, <2>1, <3>1 DEF Unbeaten
        <4> QED
          BY <1>1, <1>2, <3>0, <4>1 DEF Worth
      <3>2. CASE k = h + 1
        <4>1. PICK f, r : Reached(G, seeds, h, f, r) /\ e \in Neighbours(G, f)
                          /\ s = Damped(r)
          <5>1. Reached(G, seeds, h + 1, e, s)
            BY <2>1, <3>2
          <5> QED
            BY <5>1, ReachedNext
        <4>2. f \in EntitiesOf(G) /\ r \in Worth
          BY <4>1, ReachedIs
        <4>3. r <= w.score[f]
          BY <1>0, <4>1, <4>2 DEF Unbeaten
        <4>4. s <= Damped(w.score[f]) /\ Damped(w.score[f]) \in Worth
          BY <1>2, <4>1, <4>2, <4>3, DampedIs
        <4>5. f \in Neighbours(G, e)
          BY <4>1, Symmetric
        <4>6. Damped(w.score[f]) <= v.score[e]
          BY <1>3, <4>5
        <4> QED
          BY <1>2, <3>0, <4>4, <4>6 DEF Worth
      <3> QED
        BY <3>1, <3>2
    <2> QED
      BY <2>1 DEF Unbeaten
  <1>7. Walked(G, seeds, h + 1, v)
    BY <1>1, <1>4, <1>5, <1>6 DEF Walked
  <1> QED
    BY <1>7 DEF v


\* w holds what the walk has after each level, up to n levels.
Levels(G, seeds, n, w) ==
    w = [h \in 0 .. n |->
           IF h = 0 THEN SeedLevel(G, seeds) ELSE Level(G, w[h - 1])]

\* The walk is defined for every number of hops.
LEMMA SomethingLevels ==
    ASSUME NEW G, NEW seeds, NEW hops \in Nat
    PROVE  \E w : Levels(G, seeds, hops, w)
  <1> DEFINE S == {n \in Nat : ~ \E w : Levels(G, seeds, n, w)}
  <1>1. ASSUME S # {} PROVE FALSE
    <2>1. PICK n \in S : \A m \in S : n <= m
      BY <1>1, Least
    <2>2. n # 0
      <3>1. Levels(G, seeds, 0, [h \in 0 .. 0 |-> SeedLevel(G, seeds)])
        BY DEF Levels
      <3> QED
        BY <3>1
    <2>3. n - 1 \in Nat /\ n - 1 \notin S
      BY <2>1, <2>2
    <2>4. PICK w : Levels(G, seeds, n - 1, w)
      BY <2>3
    <2> DEFINE v == [h \in 0 .. n |-> IF h = n THEN Level(G, w[n - 1]) ELSE w[h]]
    <2>5. ASSUME NEW h \in 0 .. n
          PROVE  v[h] = IF h = 0 THEN SeedLevel(G, seeds) ELSE Level(G, v[h - 1])
      BY <2>2, <2>3, <2>4 DEF Levels
    <2>6. Levels(G, seeds, n, v)
      BY <2>5 DEF Levels
    <2> QED
      BY <2>6
  <1> QED
    BY <1>1

\* So is what holds after its last level.
LEMMA AllWalked ==
    ASSUME NEW G, NEW seeds, Valued(seeds), NEW hops \in Nat, NEW w,
           Levels(G, seeds, hops, w)
    PROVE  Walked(G, seeds, hops, w[hops])
  <1> DEFINE S == {h \in 0 .. hops : ~ Walked(G, seeds, h, w[h])}
  <1>1. ASSUME S # {} PROVE FALSE
    <2>1. S \in SUBSET Nat
      OBVIOUS
    <2>2. PICK h \in S : \A m \in S : h <= m
      <3> HIDE DEF S
      <3> QED
        BY <1>1, <2>1, Least
    <2>3. h \in 0 .. hops /\ ~ Walked(G, seeds, h, w[h])
      OBVIOUS
    <2>4. h # 0
      BY <2>3, WalkBegins DEF Levels
    <2>5. h - 1 \in Nat /\ Walked(G, seeds, h - 1, w[h - 1])
      BY <2>2, <2>3, <2>4
    <2>6. w[h] = Level(G, w[h - 1])
      BY <2>3, <2>4 DEF Levels
    <2>7. Walked(G, seeds, (h - 1) + 1, w[h])
      BY <2>5, <2>6, WalkGoesOn
    <2> QED
      BY <2>3, <2>5, <2>7
  <1> QED
    BY <1>1

\* The level-by-level walk gives every entity what the best walk to it is worth.
LEMMA VisitedIsBest ==
    ASSUME NEW G, NEW seeds, Valued(seeds), NEW hops \in Nat
    PROVE  visited(G, seeds, hops) = [e \in EntitiesOf(G) |-> WorthOf(G, seeds, e, hops)]
  <1>1. \E w : Levels(G, seeds, hops, w) /\ visited(G, seeds, hops) = w[hops].score
    <2> DEFINE c == CHOOSE w : Levels(G, seeds, hops, w)
    <2>1. Levels(G, seeds, hops, c)
      <3>1. \E w : Levels(G, seeds, hops, w)
        BY SomethingLevels
      <3> QED
        BY <3>1, Zenon
    <2>2. visited(G, seeds, hops) = c[hops].score
      BY Zenon DEF visited, Levels
    <2> QED
      BY <2>1, <2>2, Zenon
  <1>2. PICK w : Levels(G, seeds, hops, w) /\ visited(G, seeds, hops) = w[hops].score
    BY <1>1
  <1> DEFINE v == w[hops]
  <1>3. Walked(G, seeds, hops, v)
    BY <1>2, AllWalked
  <1> HIDE DEF v
  <1>4. /\ v.score \in [EntitiesOf(G) -> Worth]
        /\ Earned(G, seeds, hops, v) /\ Unbeaten(G, seeds, hops, v)
    BY <1>3 DEF Walked, LevelTypes
  <1>5. ASSUME NEW e \in EntitiesOf(G)
        PROVE  v.score[e] = WorthOf(G, seeds, e, hops)
    <2> DEFINE S == UNION {{Faded(seedEntities(G, seeds)[x[0]], k) :
                            x \in {y \in WalksOf(G, seeds, k) : y[k] = e}} :
                           k \in 0 .. hops}
    <2>1. \A s : s \in S <=> \E k \in 0 .. hops : Reached(G, seeds, k, e, s)
      BY DEF Reached
    <2>2. WorthOf(G, seeds, e, hops) = Best(S)
      BY DEF WorthOf
    <2> HIDE DEF S
    <2>3. S \in SUBSET Worth
      BY <2>1, ReachedIs
    <2>4. v.score[e] \in Worth
      BY <1>4
    <2>5. \A s \in S : s <= v.score[e]
      BY <1>4, <2>1 DEF Unbeaten
    <2>6. v.score[e] # 0 => v.score[e] \in S
      BY <1>4, <2>1 DEF Earned
    <2>7. Best(S) <= v.score[e] /\ v.score[e] <= Best(S) /\ Best(S) \in Worth
      <3>1. CASE S = {}
        BY <2>3, <2>4, <2>6, <3>1, BestIs DEF Worth
      <3>2. CASE S # {}
        BY <2>3, <2>4, <2>5, <2>6, <3>2, BestIs DEF Worth
      <3> QED
        BY <3>1, <3>2
    <2> QED
      BY <2>2, <2>4, <2>7 DEF Worth
  <1> QED
    BY <1>2, <1>4, <1>5 DEF v

\* The walk in flight: its seeds have scores, and what it has found is what the
\* walk over the triples it has read finds.
WalkInv ==
    walk # None =>
        /\ walk.at \in {"seeded", "scored"} => Valued(walk.seeds)
        /\ walk.at = "scored" => walk.score = perMemory(walk.triples, walk.seeds, MaxHops)

\* The steps of a recall keep it,
LEMMA WalkSteps ==
    ASSUME WalkInv, WalkGraph \/ WalkLoad \/ WalkDone
    PROVE  WalkInv'
  <1>1. CASE WalkGraph
    <2>1. walk # None /\ walk.at = "seeded" /\ Valued(walk.seeds)
      BY <1>1 DEF WalkGraph, WalkInv
    <2>2. CASE walk'.at = "done"
      BY <2>2 DEF WalkInv
    <2>3. CASE walk' = [at |-> "scored", seeds |-> walk.seeds, triples |-> graph,
                        score |-> perMemory(graph, walk.seeds, MaxHops)]
      BY <2>1, <2>3 DEF WalkInv
    <2> QED
      BY <1>1, <2>2, <2>3 DEF WalkGraph
  <1>2. CASE WalkLoad
    BY <1>2 DEF WalkLoad, WalkInv
  <1>3. CASE WalkDone
    BY <1>3 DEF WalkDone, WalkInv
  <1> QED
    BY <1>1, <1>2, <1>3

\* and the others leave it alone, or end it.
LEMMA NextWalks == WalkInv /\ [Next]_vars => WalkInv'
  <1> SUFFICES ASSUME WalkInv, [Next]_vars PROVE WalkInv'
    OBVIOUS
  <1>1. ASSUME UNCHANGED walk PROVE WalkInv'
    BY <1>1 DEF WalkInv
  <1>2. ASSUME NEW w \in Writers, NEW b \in Texts, NEW m \in used \cup {None},
               BeginWrite(w, m, b)
        PROVE  WalkInv'
    BY <1>1, <1>2 DEF BeginWrite, graphVars
  <1>3. ASSUME NEW w \in Writers, CommitWrite(w) \/ EndDelete(w)
        PROVE  WalkInv'
    BY <1>1, <1>3 DEF CommitWrite, EndDelete, WriteContent, DeleteRow, graphVars
  <1>4. ASSUME NEW w \in Writers, NEW m \in Ids, BeginDelete(w, m)
        PROVE  WalkInv'
    BY <1>1, <1>4 DEF BeginDelete, DeleteTriples
  <1>5. CASE GraphStep
    <2>1. ASSUME NEW j \in jobs, JobExtract(j) \/ JobDelete(j) \/ JobAdd(j)
          PROVE  WalkInv'
      BY <1>1, <2>1 DEF JobExtract, JobDelete, JobAdd
    <2>2. ASSUME NEW m \in Ids, CliPick(m)
          PROVE  WalkInv'
      BY <1>1, <2>2 DEF CliPick
    <2>3. CASE CliDelete \/ CliAdd
      BY <1>1, <2>3 DEF CliDelete, CliAdd
    <2> QED
      BY <1>5, <2>1, <2>2, <2>3, WalkSteps DEF GraphStep
  <1>6. CASE GraphFault
    BY <1>1, <1>6 DEF GraphFault, JobFails, CliFails, CliEnd
  <1>7. CASE StartCli
    BY <1>1, <1>7 DEF StartCli, CliStart
  <1>8. CASE Crash
    BY <1>8 DEF Crash, CrashGraph, WalkInv
  <1>9. CASE EmbedderStep \/ EndBatch \/ BeginRecall \/ \E size \in Sizes : BeginBatch(size)
    BY <1>1, <1>9 DEF EmbedderStep, EndBatch, BeginRecall, BeginBatch, graphVars
  <1>10. ASSUME NEW S \in SUBSET Live, NEW seeds \in [S -> Scores], RecallSeeds(seeds)
         PROVE  WalkInv'
    <2>1. Valued(seeds)
      BY IngestAssumption DEF Valued, Worth
    <2>2. CASE walk' = [at |-> "done", found |-> {}]
      BY <2>2 DEF WalkInv
    <2>3. CASE walk' = [at |-> "seeded", seeds |-> seeds]
      BY <2>1, <2>3 DEF WalkInv
    <2> QED
      BY <1>10, <2>2, <2>3 DEF RecallSeeds, WalkSeeds
  <1>11. CASE Rewrite
    BY <1>1, <1>11 DEF Rewrite, RewriteContent
  <1>12. CASE UNCHANGED vars
    BY <1>1, <1>12 DEF vars, graphVars
  <1> QED
    BY <1>2, <1>3, <1>4, <1>5, <1>6, <1>7, <1>8, <1>9, <1>10, <1>11, <1>12 DEF Next

\* A walk gives every memory the score of the best walks to its triples, among
\* all walks of up to MaxHops hops over the triples it has read, whatever those
\* are and whatever the seeds are worth.
THEOREM WalkIsBestHolds == Spec => []WalkIsBest
  <1>1. Init => WalkInv
    BY DEF Init, GraphInit, WalkInv
  <1>2. WalkInv => WalkIsBest
    <2> SUFFICES ASSUME WalkInv, walk # None, walk.at = "scored"
                 PROVE  walk.score = Lifted(walk.triples,
                                            [e \in EntitiesOf(walk.triples) |->
                                               WorthOf(walk.triples, walk.seeds, e, MaxHops)])
      BY DEF WalkIsBest
    <2>1. Valued(walk.seeds) /\ walk.score = perMemory(walk.triples, walk.seeds, MaxHops)
      BY DEF WalkInv
    <2>2. visited(walk.triples, walk.seeds, MaxHops)
            = [e \in EntitiesOf(walk.triples) |->
                 WorthOf(walk.triples, walk.seeds, e, MaxHops)]
      BY <2>1, VisitedIsBest, GraphAssumption
    <2> QED
      BY <2>1, <2>2 DEF perMemory
  <1> QED
    BY <1>1, <1>2, NextWalks, PTL DEF Spec

=============================================================================
