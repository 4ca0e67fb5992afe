------------------------------ MODULE Embedder ------------------------------
(***************************************************************************)
(* The embedding service: an ordered chain of providers, each behind a     *)
(* circuit breaker shared by every caller, and the retry on a prefix that  *)
(* the store adds for a body no provider takes whole.                      *)
(*                                                                         *)
(* A call first collects its candidates, asking one breaker after the      *)
(* other, and only then goes down that list: while it waits for a provider *)
(* other calls trip and clear the same breakers.  A text is "short" (every *)
(* provider takes it) or "long" (a provider may refuse it for its size); a *)
(* vector is known by the provider whose model made it.  Time is reduced   *)
(* to whether a cooldown is still running.                                 *)
(***************************************************************************)
EXTENDS Integers

CONSTANTS
    Configured,  \* providers the configuration names
    LocalOnly,   \* MCP_EMBEDDING_MODE=local-only
    Sound,       \* providers that never fail: they refuse long texts at most
    Callers,     \* goroutines that may be inside the embedder
    Nil

Order == <<"jina", "openai", "llamacpp", "ollama/bge-m3",
           "ollama/mxbai-embed-large">>

Providers == {Order[i] : i \in DOMAIN Order}

isLocalProvider(p) == p \notin {"jina", "openai"}

\* Ollama is the default only when no other local backend is configured.
New == IF \E p \in Configured : isLocalProvider(p) THEN Configured
       ELSE Configured \cup {"ollama/bge-m3", "ollama/mxbai-embed-large"}

\* The chain the configuration gives: local-only keeps hosted providers out.
\* Every list of providers is in this order, so that its members say it all.
Chain == {p \in New : LocalOnly => isLocalProvider(p)}

First(S) == Order[CHOOSE i \in DOMAIN Order :
                    Order[i] \in S /\ \A k \in 1 .. (i - 1) : Order[k] \notin S]

providerFailureThreshold == 3

Tasks == {"write", "query", "batch"}
Sizes == {"short", "long"}

\* A call: asks are the breakers it has still to ask, cands the candidates it
\* has still to try.
Call == [task : Tasks, size : Sizes, whole : BOOLEAN, dead : BOOLEAN,
         at : {"ask", "try", "done"}, asks : SUBSET Chain, cands : SUBSET Chain,
         vec : Chain \cup {Nil}]

ASSUME EmbedderAssumption ==
    /\ Configured \subseteq Providers /\ Sound \subseteq Configured
    /\ LocalOnly \in BOOLEAN
    /\ Nil \notin Callers \cup Providers \cup Call

VARIABLES
    errorCount,     \* providerHealth.errorCount
    disabledUntil,  \* "zero", "future" (the breaker is open) or "past"
    call,           \* what each caller is doing, Nil when it is not embedding
    lastModelID,
    cancels         \* ghost: calls whose context died

embedVars == <<errorCount, disabledUntil, call, lastModelID, cancels>>

EmbedInit ==
    /\ errorCount = [p \in Chain |-> 0]
    /\ disabledUntil = [p \in Chain |-> "zero"]
    /\ call = [c \in Callers |-> Nil]
    /\ lastModelID = Nil
    /\ cancels = 0

Inside(c, at) == call[c] # Nil /\ call[c].at = at

-----------------------------------------------------------------------------
(* The breaker.                                                            *)

available(p) == disabledUntil[p] # "future"

markSuccess(p) ==
    /\ errorCount' = [errorCount EXCEPT ![p] = 0]
    /\ disabledUntil' = [disabledUntil EXCEPT ![p] = "zero"]

\* A breaker that is already disabled keeps its deadline.  The counter is only
\* compared with the threshold, so it stops there.
markFailure(p) ==
    /\ errorCount' = [errorCount EXCEPT ![p] =
         IF @ < providerFailureThreshold THEN @ + 1 ELSE @]
    /\ disabledUntil' = [disabledUntil EXCEPT ![p] =
         IF errorCount[p] + 1 >= providerFailureThreshold /\ @ = "zero"
         THEN "future" ELSE @]

isInputRejection(o) == o = "rejected"

\* Mutant: a refused text counts like a failing service.
onFailure_counts(p, o) == markFailure(p)

\* A refusal for the size of the text says nothing of the provider's health; a
\* wrong dimension, an error and a dead context all count.
onFailure(p, o) ==
    IF isInputRejection(o) THEN UNCHANGED <<errorCount, disabledUntil>>
    ELSE markFailure(p)

\* The cooldown, an hour or a minute, runs out.
Cooled(p) ==
    /\ disabledUntil[p] = "future"
    /\ disabledUntil' = [disabledUntil EXCEPT ![p] = "past"]
    /\ UNCHANGED <<errorCount, call, lastModelID, cancels>>

-----------------------------------------------------------------------------
(* A call.  Nil -> ask -> try -> (ask -> try) -> done -> Nil             *)

\* EmbedDetailed or EmbedQueryDetailed is entered.
Embed(c, task, size) ==
    /\ call[c] = Nil
    /\ call' = [call EXCEPT ![c] =
         [task |-> task, size |-> size, whole |-> TRUE, dead |-> FALSE,
          at |-> "ask", asks |-> Chain, cands |-> {}, vec |-> Nil]]
    /\ UNCHANGED <<errorCount, disabledUntil, lastModelID, cancels>>

\* BatchEmbedDetailed goes down the same chain with the same breakers: one text
\* that is refused, one vector missing or of another dimension fails the batch.
BatchEmbed(c, size) == Embed(c, "batch", size)

\* candidates, one breaker at a time: an elapsed one is closed by the asking.
candidates(c) ==
    /\ Inside(c, "ask")
    /\ LET p == First(call[c].asks) IN
       /\ call' = [call EXCEPT ![c].asks = @ \ {p},
                               ![c].cands = IF available(p) THEN @ \cup {p} ELSE @,
                               ![c].at = IF call[c].asks = {p} THEN "try" ELSE @]
       /\ IF available(p) /\ disabledUntil[p] = "past"
          THEN markSuccess(p)
          ELSE UNCHANGED <<errorCount, disabledUntil>>
    /\ UNCHANGED <<lastModelID, cancels>>

\* An error of any kind, a vector of another dimension (or too few of them in
\* a batch), a refusal of the text for its size.
Answers == {"vector", "error", "mismatch", "rejected"}

\* What a provider can do with a call: a sound one refuses a long text sent
\* whole, at most; the context of a cancelled call fails everywhere.
Outcomes(p, k) ==
    LET long == k.size = "long" /\ k.whole IN
    IF k.dead THEN {"error"}
    ELSE IF p \in Sound THEN {"vector"} \cup (IF long THEN {"rejected"} ELSE {})
    ELSE {"vector", "error", "mismatch"} \cup (IF long THEN {"rejected"} ELSE {})

\* One pass of the loop over the candidates: the answer of the first of them.
attempt(c, o) ==
    /\ Inside(c, "try") /\ call[c].cands # {}
    /\ LET p == First(call[c].cands) IN
       /\ o \in Outcomes(p, call[c])
       /\ IF o = "vector"
          THEN /\ markSuccess(p)
               /\ lastModelID' = p
               /\ call' = [call EXCEPT ![c].at = "done", ![c].vec = p]
          ELSE /\ onFailure(p, o)
               /\ call' = [call EXCEPT ![c].cands = @ \ {p}]
               /\ UNCHANGED lastModelID
    /\ UNCHANGED cancels

\* No candidate is left.  embedForWrite goes down the chain once more with the
\* opening of a text that is longer than that, whatever the errors were.
exhausted(c) ==
    /\ Inside(c, "try") /\ call[c].cands = {}
    /\ call' = [call EXCEPT ![c] =
         IF @.task = "write" /\ @.size = "long" /\ @.whole
         THEN [@ EXCEPT !.whole = FALSE, !.at = "ask", !.asks = Chain]
         ELSE [@ EXCEPT !.at = "done"]]
    /\ UNCHANGED <<errorCount, disabledUntil, lastModelID, cancels>>

\* The caller's context dies under the call.
Cancel(c) ==
    /\ \E at \in {"ask", "try"} : Inside(c, at)
    /\ ~ call[c].dead
    /\ call' = [call EXCEPT ![c].dead = TRUE]
    /\ cancels' = cancels + 1
    /\ UNCHANGED <<errorCount, disabledUntil, lastModelID>>

\* The caller takes the answer.
Return(c) ==
    /\ Inside(c, "done")
    /\ call' = [call EXCEPT ![c] = Nil]
    /\ UNCHANGED <<errorCount, disabledUntil, lastModelID, cancels>>


-----------------------------------------------------------------------------
(* Properties.                                                             *)

\* A text gets its vector whenever one provider of the chain is sound: what the
\* other providers do, and texts that are too long for it, never take that
\* provider away (embedder.go:347-403, 458-497; embedwrite.go:40).  Only dead
\* contexts may: the breakers of the whole chain count them as failures, and a
\* long write cancelled counts twice, so that two cancelled calls are enough.
TextIsEmbedded ==
    \A c \in Callers :
        Inside(c, "done") /\ call[c].vec = Nil =>
            \/ Sound \cap Chain = {}
            \/ call[c].dead
            \/ cancels >= 2
            \/ call[c].size = "long" /\ call[c].task # "write"

=============================================================================
