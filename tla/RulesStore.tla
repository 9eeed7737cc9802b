----------------------------- MODULE RulesStore -----------------------------
(***************************************************************************)
(* What the rule set cache promises its readers and writers: per instance  *)
(* (the "namespace/name" of a RuleSet) the revision published last, and    *)
(* nothing else.  Garbage collection, byte accounting and the history of   *)
(* superseded revisions are invisible at this level; RuleSetCache is shown *)
(* to implement it.  The modules of the cache's users build on this one.   *)
(***************************************************************************)
EXTENDS Naturals

CONSTANTS
    Instances,     \* keys of the cache, "namespace/name" of a RuleSet
    Payloads,      \* aggregated rules together with their data files
    NoEntry,       \* what a lookup of an unknown instance yields
    MaxRevisions   \* bound on the number of revisions ever published

VARIABLES
    served,        \* instance -> the revision a lookup returns, or NoEntry
    revision       \* number of revisions published so far

Revision == [uuid : Nat, rules : Payloads]

Init ==
    /\ served = [i \in Instances |-> NoEntry]
    /\ revision = 0

\* Publishing replaces what lookups of this instance return, and only that.
Publish(i, p) ==
    /\ revision < MaxRevisions
    /\ revision' = revision + 1
    /\ served' = [served EXCEPT ![i] = [uuid |-> revision + 1, rules |-> p]]

Next == \E i \in Instances, p \in Payloads : Publish(i, p)

Spec == Init /\ [][Next]_<<served, revision>>
=============================================================================
