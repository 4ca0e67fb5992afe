------------------------------- MODULE MCServer -------------------------------
(* Small instances of Server for TLC.                                       *)
EXTENDS Server

Line(k, t) == [key |-> k, text |-> t]

\* "base" and "dirs" differ in what is indexed, "ranked" in a setting nobody
\* looks at, "off" has no RAG, "typo" does not load, "gone" is no file; "jobs"
\* turns the schedulers on.
Quiet == <<Line("MCP_MEMORY_ENABLED", "false"), Line("", "a comment")>>

TheContents ==
  [base   |-> Quiet,
   dirs   |-> Quiet \o <<Line("MCP_INDEX_DIRS", "notes"), Line("MCP_INDEX_DIRS", "src")>>,
   ranked |-> Quiet \o <<Line("MCP_RAG_FUSION", "rrf")>>,
   off    |-> Quiet \o <<Line("MCP_RAG_ENABLED", "false")>>,
   typo   |-> <<Line("MCP_CHUNK_SIZE", "0")>>,
   gone   |-> Missing,
   jobs   |-> <<Line("MCP_SEDIMENT_ENABLED", "true"), Line("MCP_STEWARD_ENABLED", "true"),
                Line("MCP_RAG_ENABLED", "false")>>]

TheLaterFiles == <<<<Line("MCP_INDEX_DIRS", "docs"), Line("MCP_DATA_SCOPE", "project")>>, Missing>>
TheEnvironment == [MCP_STEWARD_MODE |-> "event_driven"]
TheCommandLine == [MCP_ROOT |-> "worktree"]
TheCwd  == <<"repo">>
TheHome == <<"home">>
TheMarkers == (<<"repo">> :> [kind |-> "directory"])
              @@ (<<"repo", "worktree">> :> [kind |-> "worktree", git |-> <<"repo", ".git">>])

\* The schedulers are explored without reloads, the reloads without schedulers.
SmallInit ==
  /\ Init
  /\ \/ file = "base" /\ bounds = [edits |-> MaxEdits, signals |-> MaxSignals, faults |-> 1]
     \/ file = "jobs" /\ bounds = [edits |-> 0, signals |-> 1, faults |-> MaxFaults]

SmallSpec == SmallInit /\ [][Next]_vars /\ Fairness
===============================================================================
