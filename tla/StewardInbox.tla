--------------------------- MODULE StewardInbox ---------------------------
(***************************************************************************)
(* The steward beside the requests of the server.  A run (one at a time,   *)
(* under runMu) reconciles the inbox against one reading of the cache,     *)
(* plans on another, applies what is safe to the rows as they have become, *)
(* and files the rest as inbox items.  A reviewer's resolution reads the   *)
(* item, executes the verb and closes the item, in three steps; nothing    *)
(* keeps two of them apart.  Policy patches are saved and then published,  *)
(* and a run copies the policy without the lock that guards it.            *)
(***************************************************************************)
EXTENDS StewardScan

CONSTANTS
    Items,      \* rows of steward_inbox
    Runners,    \* callers of Run: scheduler, session_close, steward_run
    Resolvers,  \* requests that resolve an item
    Seeds,      \* what callers store: type, importance, text and face
    Texts,      \* contents an update may bring
    Policies,   \* policies the steward is given
    Decisions,  \* what reviewers decide
    Kinds,      \* requests admitted: subset of AllKinds
    MaxOps,     \* bound on requests
    MaxRuns     \* bound on runs begun

Verbs == {"merge", "mark_outdated", "mark_superseded", "promote", "verify",
          "delete"}

AllKinds == {"edit", "write", "verify", "delete", "mark", "promote", "patch"}

\* Rows of steward_inbox of the kinds a run files; lead is target_ids[0], and
\* state is the resolution once there is one.
Item == [kind : {"duplicate_candidate", "contradiction_candidate",
                 "stale_entry", "promotion_candidate"},
         lead : Ids, rest : SUBSET Ids,
         state : Verbs \cup {"pending", "suppress", "deferred", "obsolete"}]

ASSUME StewardAssumption ==
    /\ Seeds \subseteq [type : Types, important : BOOLEAN,
                        text : SUBSET Facts, face : Face]
    /\ Texts \subseteq SUBSET Facts /\ Policies \subseteq Policy
    /\ Kinds \subseteq AllKinds /\ MaxOps \in Nat /\ MaxRuns \in Nat
    /\ Decisions \subseteq Verbs \cup {"suppress"}
    /\ None \notin Items \cup Item \cup Face

VARIABLES
    rec, text, face, \* rows and contents; their titles, services, entities
    old,             \* ids past the age thresholds
    inbox,           \* items: kind, lead, rest, state; or None
    policy,          \* s.policy
    saved,           \* row of steward_policy, ahead while a patch publishes
    run,             \* per runner: its stage and what it holds
    res,             \* per resolver: its item, verb and stage, or None
    done,            \* ghost: <<item, verb>> executed without an error
    ops, runs        \* counters for MaxOps, MaxRuns

vars == <<rec, text, face, old, inbox, policy, saved, run, res, done, ops, runs>>

memVars == <<rec, text, face, old>>
policyVars == <<policy, saved>>

corpus == [rec |-> rec, text |-> text, face |-> face, old |-> old]

\* canon and gone: ids canonical in the reading planned on, gone in the one
\* reconciled against; listed: items still to reconcile; plan: actions left.
Idle == [pc |-> "idle", listed |-> {}, gone |-> {}, plan |-> {}, canon |-> {}]

Init ==
    /\ rec = [i \in Ids |-> None] /\ text = [i \in Ids |-> {}]
    /\ face = [i \in Ids |-> None] /\ old = {}
    /\ inbox = [n \in Items |-> None]
    /\ policy \in Policies /\ saved = policy
    /\ run = [r \in Runners |-> Idle]
    /\ res = [q \in Resolvers |-> None]
    /\ done = {} /\ ops = 0 /\ runs = 0

-----------------------------------------------------------------------------
(* Requests on memories.                                                   *)

Request(kind) ==
    /\ kind \in Kinds /\ ops < MaxOps /\ ops' = ops + 1
    /\ UNCHANGED <<inbox, policyVars, run, res, done, runs>>

Store(i, s) ==
    /\ ops < MaxOps /\ ops' = ops + 1
    /\ face[i] = None
    /\ rec' = [rec EXCEPT ![i] = NewRecord(s.type, s.important, "absent", None)]
    /\ text' = [text EXCEPT ![i] = s.text]
    /\ face' = [face EXCEPT ![i] = s.face]
    /\ UNCHANGED <<old, inbox, policyVars, run, res, done, runs>>

\* A status in the metadata: UpdatedAt, and LastVerifiedAt unless it is set.
Edit(i, s) ==
    /\ Request("edit")
    /\ rec' = [rec EXCEPT ![i] = WithStatus(@, s)]
    /\ old' \in {old, old \ {i}}
    /\ UNCHANGED <<text, face>>

\* New content.
Write(i, x) ==
    /\ Request("write")
    /\ text' = [text EXCEPT ![i] = x]
    /\ old' \in {old, old \ {i}}
    /\ UNCHANGED <<rec, face>>

\* verify_entry: last_verified_at.
VerifyEntry(i) ==
    /\ Request("verify")
    /\ old' = old \ {i}
    /\ UNCHANGED <<rec, text, face>>

Retire(i, s) ==
    /\ rec' = MarkOutdated(rec, i, s)
    /\ old' = old \ {i}
    /\ UNCHANGED <<text, face>>

Remove(i) ==
    /\ rec' = [rec EXCEPT ![i] = None]
    /\ UNCHANGED <<text, face, old>>

MakeCanonical(i, verified) ==
    /\ PromotionAllowed(rec[i], verified)
    /\ rec' = PromoteToCanonical(rec, i, verified)
    /\ old' = old \ {i}
    /\ UNCHANGED <<text, face>>

\* Time passes for a record.
Age(i) ==
    /\ i \notin old /\ rec[i] # None
    /\ old' = old \cup {i}
    /\ UNCHANGED <<rec, text, face, inbox, policyVars, run, res, done, ops, runs>>

\* Mutant: what the scan took for contained is not merged in.
mergeContent_asScanned(p, D) == text

\* mergeContent: the primary says what all of them say.
mergeContent(p, D) ==
    [text EXCEPT ![p] = @ \cup UNION {text[d] : d \in D \cap Stored(rec)}]

\* Without a duplicate that is there: a success that changes nothing.
MergeInto(p, D) ==
    /\ rec[p] # None
    /\ IF D \cap Stored(rec) = {} THEN UNCHANGED memVars
       ELSE /\ rec' = MergeDuplicates(rec, p, D)
            /\ text' = mergeContent(p, D)
            /\ old' = old \ (D \cup {p})
            /\ UNCHANGED face

-----------------------------------------------------------------------------
(* Policy.                                                                 *)

\* PatchPolicy holds policyMu from its reading of the policy to the end.
PatchSaves(p) ==
    /\ "patch" \in Kinds /\ ops < MaxOps /\ ops' = ops + 1
    /\ saved = policy
    /\ saved' = p
    /\ UNCHANGED <<memVars, policy, inbox, run, res, done, runs>>

PatchPublishes ==
    /\ policy # saved
    /\ policy' = saved
    /\ UNCHANGED <<memVars, saved, inbox, run, res, done, ops, runs>>

\* RunScanners is passed s.policy, read without policyMu: while a patch
\* publishes, each field may be the old or the new one.
CopiedPolicies ==
    {p \in Policy : \A f \in DOMAIN p : p[f] \in {policy[f], saved[f]}}

-----------------------------------------------------------------------------
(* Run.                                                                    *)

Running(r, stage) == run[r].pc = stage

Pending(n) == inbox[n] # None /\ inbox[n].state = "pending"

\* The mode is looked at before runMu is waited for.
RunBegins(r) ==
    /\ Running(r, "idle") /\ runs < MaxRuns /\ runs' = runs + 1
    /\ policy.mode # "off"
    /\ run' = [run EXCEPT ![r].pc = "waiting"]
    /\ UNCHANGED <<memVars, inbox, policyVars, res, done, ops>>

\* runMu, and reconcileInbox's two readings: the cache and the pending items.
RunLocks(r) ==
    /\ Running(r, "waiting")
    /\ \A o \in Runners : run[o].pc \in {"idle", "waiting"}
    /\ run' = [run EXCEPT ![r] = [@ EXCEPT
         !.pc = "reconcile",
         !.gone = {i \in Ids : targetGoneIn(rec, i)},
         !.listed = {n \in Items : Pending(n) /\ reconcileReason(inbox[n], rec)}]]
    /\ UNCHANGED <<memVars, inbox, policyVars, res, done, ops, runs>>

\* The guarded UPDATE; an item closed meanwhile is left.
closeItem(n, state) ==
    inbox' = IF Pending(n) THEN [inbox EXCEPT ![n].state = state] ELSE inbox

reconcileInboxPage(r, n) ==
    /\ Running(r, "reconcile") /\ n \in run[r].listed
    /\ closeItem(n, "obsolete")
    /\ run' = [run EXCEPT ![r].listed = @ \ {n}]
    /\ UNCHANGED <<memVars, policyVars, res, done, ops, runs>>

RunScans(r, p, scope) ==
    /\ Running(r, "reconcile") /\ run[r].listed = {}
    /\ \E plan \in RunScanners(corpus, p, scope) :
         run' = [run EXCEPT ![r] = [Idle EXCEPT
           !.pc = "apply",
           !.plan = plan,
           !.canon = {i \in Stored(rec) : IsCanonicalMemory(rec[i])}]]
    /\ UNCHANGED <<memVars, inbox, policyVars, res, done, ops, runs>>

\* Safe actions in the order of the scans.
Rank(kind) == CASE kind = "merge_duplicates" -> 1 [] kind = "mark_stale" -> 2
                [] OTHER -> 3

nextSafe(r) == {a \in run[r].plan : a.auto /\ \A b \in run[r].plan :
                    b.auto => Rank(a.kind) <= Rank(b.kind)}

applyAction(a) ==
    \/ a.kind = "mark_stale" /\ rec[a.lead] # None /\ Retire(a.lead, None)
    \/ a.kind = "merge_duplicates" /\ MergeInto(a.lead, a.rest)
    \/ a.kind = "delete_expired_working" /\ Remove(a.lead)

RunApplies(r, a) ==
    /\ Running(r, "apply") /\ a \in nextSafe(r)
    /\ applyAction(a)
    /\ run' = [run EXCEPT ![r].plan = @ \ {a}]
    /\ UNCHANGED <<inbox, policyVars, res, done, ops, runs>>

\* The record is gone, or the write fails: skipped, and never filed.
RunSkips(r, a) ==
    /\ Running(r, "apply") /\ a \in nextSafe(r)
    /\ run' = [run EXCEPT ![r].plan = @ \ {a}]
    /\ UNCHANGED <<memVars, inbox, policyVars, res, done, ops, runs>>

RunSaves(r) ==
    /\ Running(r, "apply") /\ nextSafe(r) = {}
    /\ run' = [run EXCEPT ![r].pc = "file"]
    /\ UNCHANGED <<memVars, inbox, policyVars, res, done, ops, runs>>

\* CreateInboxItem, whatever the inbox holds already.
RunFiles(r, a, n) ==
    /\ Running(r, "file") /\ a \in run[r].plan /\ inbox[n] = None
    /\ inbox' = [inbox EXCEPT ![n] =
         [kind |-> actionToInboxKind(a.kind), lead |-> a.lead, rest |-> a.rest,
          state |-> "pending"]]
    /\ run' = [run EXCEPT ![r].plan = @ \ {a}]
    /\ UNCHANGED <<memVars, policyVars, res, done, ops, runs>>

\* The insert fails and is logged (or the inbox of the instance is full).
RunFileFails(r, a) ==
    /\ Running(r, "file") /\ a \in run[r].plan
    /\ run' = [run EXCEPT ![r].plan = @ \ {a}]
    /\ UNCHANGED <<memVars, inbox, policyVars, res, done, ops, runs>>

RunEnds(r) ==
    /\ Running(r, "file") /\ run[r].plan = {}
    /\ run' = [run EXCEPT ![r] = Idle]
    /\ UNCHANGED <<memVars, inbox, policyVars, res, done, ops, runs>>

-----------------------------------------------------------------------------
(* ResolveInbox.                                                           *)

\* GetInboxItem: pending, or refused.  left: targets a "delete" has to do.
ResolveReads(q, n, v) ==
    /\ res[q] = None /\ Pending(n)
    /\ res' = [res EXCEPT ![q] = [item |-> n, verb |-> v, pc |-> "execute",
                                  left |-> Targets(inbox[n])]]
    /\ UNCHANGED <<memVars, inbox, policyVars, run, done, ops, runs>>

\* What a verb other than "delete" does to the targets.
executeResolution(item, v) ==
    \/ v = "merge" /\ item.rest # {} /\ MergeInto(item.lead, item.rest)
    \/ v = "mark_outdated" /\ rec[item.lead] # None /\ Retire(item.lead, None)
    \/ /\ v = "mark_superseded" /\ rec[item.lead] # None
       /\ IF item.rest = {} THEN Retire(item.lead, None)
          ELSE \E s \in item.rest : Retire(item.lead, s)
    \/ /\ v = "promote" /\ rec[item.lead] # None
       /\ MakeCanonical(item.lead, TRUE)
    \/ /\ v = "verify" /\ rec[item.lead] # None
       /\ old' = old \ {item.lead} /\ UNCHANGED <<rec, text, face>>

ResolveExecutes(q) ==
    /\ res[q] # None /\ res[q].pc = "execute"
    /\ res[q].verb \notin {"delete", "suppress"}
    /\ executeResolution(inbox[res[q].item], res[q].verb)
    /\ res' = [res EXCEPT ![q].pc = "close"]
    /\ done' = done \cup {<<res[q].item, res[q].verb>>}
    /\ UNCHANGED <<inbox, policyVars, run, ops, runs>>

\* "suppress" has nothing to execute.
ResolveSuppresses(q) ==
    /\ res[q] # None /\ res[q].pc = "execute" /\ res[q].verb = "suppress"
    /\ res' = [res EXCEPT ![q].pc = "close"]
    /\ UNCHANGED <<memVars, inbox, policyVars, run, done, ops, runs>>

\* One Delete per target, each a call of its own; deleting what is gone
\* already is a success.
ResolveDeletes(q, i) ==
    /\ res[q] # None /\ res[q].pc = "execute" /\ res[q].verb = "delete"
    /\ i \in res[q].left
    /\ Remove(i)
    /\ LET last == res[q].left = {i} IN
         /\ res' = [res EXCEPT ![q].left = @ \ {i},
                               ![q].pc = IF last THEN "close" ELSE @]
         /\ done' = IF last THEN done \cup {<<res[q].item, "delete">>} ELSE done
    /\ UNCHANGED <<inbox, policyVars, run, ops, runs>>

\* Mutant: the item is closed although its verb failed.
ResolveFails_closes(q) ==
    /\ res[q] # None /\ res[q].pc = "execute" /\ res[q].verb # "suppress"
    /\ res' = [res EXCEPT ![q].pc = "close"]
    /\ UNCHANGED <<memVars, inbox, policyVars, run, done, ops, runs>>

\* A target is gone, the item has too few, or the store fails: still pending.
ResolveFails(q) ==
    /\ res[q] # None /\ res[q].pc = "execute" /\ res[q].verb # "suppress"
    /\ res' = [res EXCEPT ![q] = None]
    /\ UNCHANGED <<memVars, inbox, policyVars, run, done, ops, runs>>

\* ResolveInboxItem; whoever comes second is told so.
ResolveCloses(q) ==
    /\ res[q] # None /\ res[q].pc = "close"
    /\ closeItem(res[q].item, res[q].verb)
    /\ res' = [res EXCEPT ![q] = None]
    /\ UNCHANGED <<memVars, policyVars, run, done, ops, runs>>

\* DeferInboxItem: one guarded UPDATE, no target touched.
DeferInboxItem(n) ==
    /\ Pending(n) /\ closeItem(n, "deferred")
    /\ UNCHANGED <<memVars, policyVars, run, res, done, ops, runs>>

-----------------------------------------------------------------------------
Requested(i) ==
    \/ \E s \in {"confirmed", "outdated"} : Edit(i, s)
    \/ \E x \in Texts : Write(i, x)
    \/ VerifyEntry(i)
    \/ Request("delete") /\ Remove(i)
    \/ Request("mark") /\ Retire(i, None)
    \/ Request("promote") /\ MakeCanonical(i, TRUE)

Run(r) ==
    \/ RunBegins(r) \/ RunLocks(r) \/ RunSaves(r) \/ RunEnds(r)
    \/ \E n \in run[r].listed : reconcileInboxPage(r, n)
    \/ \E scope \in Scopes, p \in CopiedPolicies : RunScans(r, p, scope)
    \/ \E a \in run[r].plan :
         RunApplies(r, a) \/ RunSkips(r, a) \/ RunFileFails(r, a)
           \/ \E n \in Items : RunFiles(r, a, n)

Resolve(q) ==
    \/ \E n \in Items, v \in Decisions : ResolveReads(q, n, v)
    \/ ResolveExecutes(q) \/ ResolveSuppresses(q) \/ ResolveFails(q)
    \/ ResolveCloses(q) \/ \E i \in Ids : ResolveDeletes(q, i)

Next ==
    \/ \E i \in Ids, s \in Seeds : Store(i, s)
    \/ \E i \in Stored(rec) : Requested(i) \/ Age(i)
    \/ PatchPublishes \/ \E p \in Policies : PatchSaves(p)
    \/ \E r \in Runners : Run(r)
    \/ \E q \in Resolvers : Resolve(q)
    \/ \E n \in Items : DeferInboxItem(n)

Spec == Init /\ [][Next]_vars

-----------------------------------------------------------------------------
(* Properties.                                                             *)

TypeOK ==
    /\ rec \in Table /\ text \in [Ids -> SUBSET Facts]
    /\ face \in [Ids -> Face \cup {None}] /\ old \subseteq Ids
    /\ inbox \in [Items -> {None} \cup Item]
    /\ policy \in Policy /\ saved \in Policy
    /\ run \in [Runners ->
         [pc : {"idle", "waiting", "reconcile", "apply", "file"},
          listed : SUBSET Items, gone : SUBSET Ids, plan : SUBSET Action,
          canon : SUBSET Ids]]
    /\ res \in [Resolvers -> {None} \cup
         [item : Items, verb : Verbs \cup {"suppress"},
          pc : {"execute", "close"}, left : SUBSET Ids]]
    /\ done \subseteq Items \X Verbs
    /\ ops \in Nat /\ runs \in Nat

Inbox == INSTANCE ReviewInbox WITH
    Passive <- {"suppress"},
    outcome <- [n \in Items |-> IF inbox[n] = None THEN "none"
                                ELSE inbox[n].state],
    carried <- done

\* No phantom closure: reviewers that resolve one item at a time, a run that
\* reconciles and deferrals give an item one outcome, and a verb closes it
\* only after it has been carried out on the targets.
ImplementsInbox == Inbox!Spec

\* A run, left to itself, retires or deletes a canonical record only if it
\* became canonical after the run had read the cache: neither a merge of a
\* whole group, nor age, nor expiry does it to one that was.
AutoSparesCanonical ==
    [][\A r \in Runners : Running(r, "apply") /\ UNCHANGED <<res, ops>> =>
         \A i \in Stored(rec) \cap run[r].canon :
           IsCanonicalMemory(rec[i])
             => rec'[i] # None /\ (rec'[i].meta.archived => rec[i].meta.archived)]_vars

\* What active records say.
Known(t, x) == UNION {x[i] : i \in {j \in Stored(t) : ~isArchivedMemory(t[j])}}

\* An unattended merge loses no knowledge, even when a text has changed since
\* the run compared them, unless its primary has been retired since.
MergeKeepsFacts ==
    [][\A r \in Runners : \A a \in run[r].plan :
         /\ a.kind = "merge_duplicates" /\ run'[r].plan = run[r].plan \ {a}
         /\ Running(r, "apply") /\ rec[a.lead] # None
         /\ ~isArchivedMemory(rec[a.lead])
         => Known(rec, text) \subseteq Known(rec', text')]_vars

\* What a reviewer could still decide: two duplicates are left, or one memory
\* that is there, and episodes alone are not out of date.
NeedsReview(item) ==
    LET live == {i \in Targets(item) : ~targetGoneIn(rec, i)} IN
    CASE item.kind = "duplicate_candidate" -> \E i, j \in live : i # j
      [] item.kind = "stale_entry" -> \E i \in live : rec[i].type # "episodic"
      [] OTHER -> live # {}

\* Reconciliation never takes a review away that is still needed: at the
\* moment an item is closed as obsolete it is, or one of its targets was gone
\* when the run looked and has been brought back since.
ReconcileIsRight ==
    [][\A r \in Runners : \A n \in run[r].listed :
         Running(r, "reconcile") /\ Pending(n) /\ n \notin run'[r].listed
           /\ inbox'[n].state = "obsolete"
         => \/ ~NeedsReview(inbox[n])
            \/ \E i \in Targets(inbox[n]) \cap run[r].gone : ~targetGoneIn(rec, i)]_vars
=============================================================================
