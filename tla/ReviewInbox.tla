---------------------------- MODULE ReviewInbox ----------------------------
(***************************************************************************)
(* What a review inbox promises: an item has one outcome and keeps it, and *)
(* an item closed with a verb is one whose verb has been carried out.      *)
(* Nothing is promised about a verb carried out on an item somebody else   *)
(* closes in the meantime.                                                 *)
(***************************************************************************)
CONSTANTS
    Items,
    Verbs,    \* what a reviewer may decide
    Passive   \* the verbs that do nothing but close the item

VARIABLES
    outcome,  \* "none", "pending", "deferred", "obsolete" or a verb, per item
    carried   \* <<item, verb>> pairs that have been carried out

vars == <<outcome, carried>>

Init == outcome = [n \in Items |-> "none"] /\ carried = {}

File(n) ==
    /\ outcome[n] = "none"
    /\ outcome' = [outcome EXCEPT ![n] = "pending"]
    /\ UNCHANGED carried

CarryOut(n, v) ==
    /\ outcome[n] # "none"
    /\ carried' = carried \cup {<<n, v>>}
    /\ UNCHANGED outcome

Close(n, o) ==
    /\ outcome[n] = "pending"
    /\ \/ o \in {"deferred", "obsolete"} \cup Passive
       \/ o \in Verbs /\ <<n, o>> \in carried
    /\ outcome' = [outcome EXCEPT ![n] = o]
    /\ UNCHANGED carried

Next == \E n \in Items :
          \/ File(n)
          \/ \E v \in Verbs : CarryOut(n, v)
          \/ \E o \in Verbs \cup Passive \cup {"deferred", "obsolete"} : Close(n, o)

Spec == Init /\ [][Next]_vars
=============================================================================
