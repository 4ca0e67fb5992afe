-------------------------------- MODULE Config --------------------------------
(***************************************************************************)
(* How a configuration comes about (internal/config): the .env files are    *)
(* parsed, the environment is laid over them, the command line over both,   *)
(* and the texts become a Config, or the load fails as a whole.  One        *)
(* variable stands for each way a setting is used: the ones a reload        *)
(* applies, the ones it applies without looking for them, and the ones     *)
(* that need a restart.                                                     *)
(*                                                                         *)
(* A text is a string, "" is no text.  A path is a sequence of names.       *)
(* A file is a sequence of lines [key, text], or Missing, or Unreadable.    *)
(***************************************************************************)
EXTENDS Naturals, Sequences, SequencesExt

CONSTANTS
  Environment,  \* the process environment: a function from some keys to texts
  CommandLine,  \* the flags given to serve: a function from some keys to texts
  Cwd, Home,    \* paths; Home is <<>> when the user has no directory
  Absolute,     \* the texts that are absolute paths
  Outside,      \* the relative texts that lead out of the root
  Markers,      \* what is in the .git of a directory: see findGitRepository
  Missing, Unreadable,  \* files that are not there, or cannot be read
  LoadError,    \* what a failed load yields
  NoConfig      \* the zero Config, which a watcher keeps whose first load failed

(***************************************************************************)
(* The variables of the environment that are told apart, with what an unset *)
(* one means.                                                              *)
(***************************************************************************)
Fallback ==
  [MCP_ROOT |-> "", MCP_ALLOW_DIRS |-> "", MCP_DATA_PATH |-> "", MCP_DATA_SCOPE |-> "",
   MCP_RAG_INDEX_PATH |-> "", MCP_INDEX_DIRS |-> "docs", MCP_TASK_ARCHIVE_ROOTS |-> "",
   MCP_EMBEDDING_MODE |-> "auto", MCP_RAG_FUSION |-> "weighted", MCP_HTTP_MODE |-> "stdio",
   MCP_STEWARD_MODE |-> "manual", MCP_TOOL_PROFILE |-> "full",
   OPENAI_API_KEY |-> "", OPENAI_BASE_URL |-> "openai",
   MCP_RAG_ENABLED |-> "true", MCP_MEMORY_ENABLED |-> "true",
   MCP_SEDIMENT_ENABLED |-> "false", MCP_ARCHIVE_SWEEP_ENABLED |-> "true",
   MCP_STEWARD_ENABLED |-> "false",
   MCP_CHUNK_SIZE |-> "2000", MCP_SESSION_MIN_EVENTS |-> "2"]

Keys      == DOMAIN Fallback
Booleans  == {k \in Keys : Fallback[k] \in {"true", "false"}}
Integers_ == {"MCP_CHUNK_SIZE", "MCP_SESSION_MIN_EVENTS"}
Flagged   == {"MCP_ROOT", "MCP_ALLOW_DIRS"}

(***************************************************************************)
(* Reading the files.                                                      *)
(***************************************************************************)

\* The first line of a key decides; lines with no key are passed over.
parseDotEnvFile(file) ==
  CASE file = Missing -> [k \in {} |-> ""]
    [] file = Unreadable -> LoadError
    [] OTHER ->
         LET lines == SelectSeq(file, LAMBDA l : l.key # "")
             given == {lines[i].key : i \in DOMAIN lines}
         IN  [k \in given |-> SelectSeq(lines, LAMBDA l : l.key = k)[1].text]

\* The chain .env, XDG, Homebrew, or the one file --config names: values of
\* an earlier file win.  resolved is the file a reload reads from then on
\* (0 when there is none).
collectConfigPaths(chain, explicit) == IF explicit > 0 THEN <<explicit>>
                                       ELSE [i \in DOMAIN chain |-> i]

loadDotEnvFiles(chain, explicit) ==
  LET paths    == SelectSeq(collectConfigPaths(chain, explicit),
                            LAMBDA i : explicit > 0 \/ chain[i] # Missing)
      parsed   == [i \in DOMAIN paths |-> parseDotEnvFile(chain[paths[i]])]
      having(k) == SelectSeq(parsed, LAMBDA values : k \in DOMAIN values)
  IN  [resolved |-> IF paths = <<>> THEN 0 ELSE paths[1],
       values   |-> IF \E i \in DOMAIN parsed : parsed[i] = LoadError THEN LoadError
                    ELSE [k \in UNION {DOMAIN parsed[i] : i \in DOMAIN parsed} |->
                            having(k)[1][k]]]

(***************************************************************************)
(* From texts to values.                                                   *)
(***************************************************************************)

TextIn(texts, k) == IF k \in DOMAIN texts THEN texts[k] ELSE ""

\* The environment first, the file where it is silent.
raw(dotenv, k) == IF TextIn(Environment, k) # "" THEN TextIn(Environment, k)
                  ELSE TextIn(dotenv, k)

Parses(k, text) == \/ text = ""
                   \/ k \in Booleans /\ text \in {"true", "false"}
                   \/ k \in Integers_ /\ text \in {"-1", "0", "2", "2000", "4000"}
                   \/ k \notin Booleans \union Integers_

normalize(k, text) == IF k = "MCP_EMBEDDING_MODE" /\ text # "local-only" THEN "auto"
                      ELSE IF k = "MCP_RAG_FUSION" /\ text \notin {"rrf", "rrf-boosted"}
                      THEN "weighted" ELSE text

\* One text that is set and does not parse fails the whole load.
readEnvValues(dotenv) ==
  IF dotenv = LoadError \/ \E k \in Keys : ~Parses(k, raw(dotenv, k)) THEN LoadError
  ELSE [k \in Keys |-> IF raw(dotenv, k) = "" THEN Fallback[k]
                       ELSE normalize(k, raw(dotenv, k))]
       @@ [stewardEnabledSet |-> raw(dotenv, "MCP_STEWARD_ENABLED") # ""]

(***************************************************************************)
(* Where a project keeps its data.  A .git is a directory, or a file that   *)
(* names the git directory of a worktree (which has a commondir) or of a    *)
(* submodule (which has none), or a file that names nothing.                *)
(***************************************************************************)
NoRepository == [commonDir |-> <<>>, mainCheckout |-> <<>>]

repositoryFromGitFile(marker, checkout) ==
  CASE marker.kind = "worktree"  -> [commonDir |-> marker.git,
                                     mainCheckout |-> IF Last(marker.git) = ".git"
                                                      THEN Front(marker.git) ELSE <<>>]
    [] marker.kind = "submodule" -> [commonDir |-> marker.git, mainCheckout |-> checkout]
    [] OTHER                     -> NoRepository

RepositoryAt(dir) ==
  IF Markers[dir].kind = "directory"
  THEN [commonDir |-> Append(dir, ".git"), mainCheckout |-> dir]
  ELSE repositoryFromGitFile(Markers[dir], dir)

\* The nearest directory upwards that has a .git.
findGitRepository(start) ==
  LET found == {n \in 0..Len(start) : SubSeq(start, 1, n) \in DOMAIN Markers}
  IN  IF found = {} THEN NoRepository ELSE RepositoryAt(SubSeq(start, 1, Max(found)))

ProjectData(root, repo) ==
  [indexRoot |-> repo.mainCheckout,
   dataPath  |-> IF Home = <<>> THEN Append(root, ".agent-memory")
                 ELSE Home \o <<".local", "share", "projects">>
                      \o (IF repo.commonDir # <<>> THEN repo.commonDir ELSE root)]

resolveProjectData(root) == ProjectData(root, findGitRepository(root))

(***************************************************************************)
(* From values to a Config.                                                *)
(***************************************************************************)
Under(root, text) == IF text \in Absolute THEN <<text>> ELSE Append(root, text)

validateAllowedPaths(allowed) == allowed \notin Absolute \union Outside

validateResolvedConfig(c) ==
  /\ c.chunkSize \notin {"0", "-1"}
  /\ c.toolProfile \in {"", "full", "core"}
  /\ validateAllowedPaths(c.allowed)

resolveStewardEnabled(ev) ==
  IF ~ev.stewardEnabledSet /\ ev.MCP_HTTP_MODE = "http" /\ ev.MCP_MEMORY_ENABLED = "true"
  THEN "true" ELSE ev.MCP_STEWARD_ENABLED

parseArchiveRoots(text, root) == IF text = "" THEN <<>> ELSE Under(root, text)

ResolvedRoot(ev) == IF ev.MCP_ROOT = "" THEN Cwd ELSE Under(Cwd, ev.MCP_ROOT)

ResolvedDataPath(ev, root, project) ==
  IF ev.MCP_DATA_PATH # "" THEN Under(root, ev.MCP_DATA_PATH)
  ELSE IF ev.MCP_DATA_SCOPE = "project" THEN project.dataPath ELSE Append(root, "data")

ResolvedIndexPath(ev, root, dataPath) ==
  IF ev.MCP_RAG_INDEX_PATH # "" THEN Under(root, ev.MCP_RAG_INDEX_PATH)
  ELSE Append(dataPath, "rag-index")

ResolvedConfig(ev, root, project, dataPath) ==
  [root            |-> root,
   dataPath        |-> dataPath,
   indexPath       |-> ResolvedIndexPath(ev, root, dataPath),
   indexRoot       |-> IF ev.MCP_DATA_SCOPE = "project" THEN project.indexRoot ELSE <<>>,
   allowed         |-> ev.MCP_ALLOW_DIRS,
   ragEnabled      |-> ev.MCP_RAG_ENABLED = "true",
   indexDirs       |-> ev.MCP_INDEX_DIRS,
   chunkSize       |-> ev.MCP_CHUNK_SIZE,
   embeddingMode   |-> ev.MCP_EMBEDDING_MODE,
   fusion          |-> ev.MCP_RAG_FUSION,
   archiveRoots    |-> parseArchiveRoots(ev.MCP_TASK_ARCHIVE_ROOTS, root),
   archiveSweep    |-> ev.MCP_ARCHIVE_SWEEP_ENABLED = "true",
   sediment        |-> ev.MCP_SEDIMENT_ENABLED = "true",
   memoryEnabled   |-> ev.MCP_MEMORY_ENABLED = "true",
   stewardEnabled  |-> resolveStewardEnabled(ev) = "true",
   stewardMode     |-> ev.MCP_STEWARD_MODE,
   httpMode        |-> ev.MCP_HTTP_MODE,
   toolProfile     |-> ev.MCP_TOOL_PROFILE,
   minEvents       |-> IF ev.MCP_SESSION_MIN_EVENTS \in {"0", "-1"} THEN "2"
                       ELSE ev.MCP_SESSION_MIN_EVENTS,
   openAI          |-> [url |-> ev.OPENAI_BASE_URL, key |-> ev.OPENAI_API_KEY]]

WithData(ev, root, project) ==
  ResolvedConfig(ev, root, project, ResolvedDataPath(ev, root, project))

WithRoot(ev, root) == WithData(ev, root, resolveProjectData(root))

Validated(c) == IF validateResolvedConfig(c) THEN c ELSE LoadError

resolvePaths(ev) == IF ev = LoadError THEN LoadError
                    ELSE Validated(WithRoot(ev, ResolvedRoot(ev)))

(***************************************************************************)
(* The two ways the server loads a configuration.  Only the first sees the  *)
(* command line and the whole chain of files.                              *)
(***************************************************************************)
WithFlags(ev) ==
  IF ev = LoadError THEN LoadError
  ELSE [k \in DOMAIN ev |-> IF k \in Flagged \intersect DOMAIN CommandLine
                            THEN CommandLine[k] ELSE ev[k]]

Load(chain, explicit) ==
  resolvePaths(WithFlags(readEnvValues(loadDotEnvFiles(chain, explicit).values)))

LoadFromFile(file) == resolvePaths(readEnvValues(parseDotEnvFile(file)))

(***************************************************************************)
(* Comparing two configurations.                                           *)
(***************************************************************************)

\* What the watcher of the file looks at, and nothing else.
ragFingerprintOf(c) ==
  [enabled |-> c.ragEnabled, root |-> c.root, index |-> c.indexPath,
   mode |-> c.embeddingMode, openAI |-> c.openAI, chunk |-> c.chunkSize, dirs |-> c.indexDirs]

ragConfigChanged(old, new) ==
  old = NoConfig \/ ragFingerprintOf(old) # ragFingerprintOf(new)
===============================================================================
