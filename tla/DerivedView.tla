---------------------------- MODULE DerivedView ----------------------------
(***************************************************************************)
(* What the memory store promises about its cache: "the file is the source *)
(* of truth, the cache is a derived view that has to converge".            *)
(*                                                                         *)
(* The daemon makes one write at a time: the file first, then the view.    *)
(* While nothing is in flight the view shows the file, except for the ids  *)
(* in doubt: those another process may have written since the last reload. *)
(* A reload is the only step that takes an id out of doubt.                *)
(***************************************************************************)
CONSTANTS
    Ids,       \* ids of the records
    Versions,  \* versions a record goes through
    Absent,    \* no record under an id, not a version
    NoId       \* no write in flight, not an id

VARIABLES
    file,      \* version of each id in the file
    view,      \* version of each id the daemon serves
    doubt,     \* ids whose view is not vouched for
    inflight,  \* id committed by the daemon and not yet in the view
    serving    \* the daemon runs

vars == <<file, view, doubt, inflight, serving>>

Version == Versions \cup {Absent}

Empty == [i \in Ids |-> Absent]

Init ==
    /\ file = Empty /\ view = Empty
    /\ doubt = {} /\ inflight = NoId /\ serving = FALSE

\* g is f with another version at i, or the same.
ChangesOnly(i, f, g) ==
    /\ g \in [Ids -> Version]
    /\ \A j \in Ids \ {i} : g[j] = f[j]

\* The daemon writes id i: durable before it is visible, one id at a time.
Commit(i) ==
    /\ serving /\ inflight = NoId
    /\ ChangesOnly(i, file, file')
    /\ inflight' = i
    /\ UNCHANGED <<view, doubt, serving>>

\* The write in flight reaches the view.  It shows what was committed; only
\* for an id in doubt may it show something the file has left behind.
Publish ==
    /\ inflight # NoId
    /\ ChangesOnly(inflight, view, view')
    /\ inflight \in doubt \/ view'[inflight] = file[inflight]
    /\ inflight' = NoId
    /\ UNCHANGED <<file, doubt, serving>>

\* Another process writes id i.
Foreign(i) ==
    /\ ChangesOnly(i, file, file')
    /\ doubt' = doubt \cup {i}
    /\ UNCHANGED <<view, inflight, serving>>

\* The daemon stops vouching for its view: a reload has begun.
Suspect ==
    /\ serving /\ inflight = NoId
    /\ doubt' = Ids
    /\ UNCHANGED <<file, view, inflight, serving>>

\* The view is rebuilt; it vouches for the ids outside D.
Reload(D) ==
    /\ serving /\ inflight = NoId
    /\ view' \in [Ids -> Version]
    /\ \A i \in Ids \ D : view'[i] = file[i]
    /\ doubt' = D
    /\ UNCHANGED <<file, inflight, serving>>

Start ==
    /\ ~serving
    /\ serving' = TRUE
    /\ view' = file
    /\ doubt' = {}
    /\ UNCHANGED <<file, inflight>>

\* A crash forgets the view; a committed write stays committed.
Stop ==
    /\ serving
    /\ serving' = FALSE
    /\ view' = Empty
    /\ doubt' = {}
    /\ inflight' = NoId
    /\ UNCHANGED file

Next == \/ \E i \in Ids : Commit(i) \/ Foreign(i)
        \/ Publish \/ Suspect
        \/ \E D \in SUBSET Ids : Reload(D)
        \/ Start \/ Stop

Spec == Init /\ [][Next]_vars

\* The promise: at rest the view is the file, outside the ids in doubt.
ViewIsFile ==
    serving /\ inflight = NoId => \A i \in Ids \ doubt : view[i] = file[i]
=============================================================================
