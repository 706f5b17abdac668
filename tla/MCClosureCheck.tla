---------------------------- MODULE MCClosureCheck ----------------------------
(* Instances of ClosureCheck for TLC: two kinds of behaviour that one run   *)
(* explores side by side.                                                   *)
EXTENDS ClosureCheck

Written == {docs[k] : k \in Kinds} \cup {lineage, record}

\* One operation of either class, reopened by its private package: time passes
\* and clocks differ, or site or Product change.
OneOperation ==
    /\ skew + changes <= 1
    /\ \A op \in Operations \ {1} : remediated[op] = None
    /\ \A d \in Written : d # None => d.op = 1
    /\ reopened[1] # None => reopened[1].format = "private"

\* Two operations, one reopened in any format, within one moment and the next.
Mixed ==
    /\ \A op \in Operations \ {1} : reopened[op] # None => reopened[op].format = "private"
    /\ now <= 1 /\ skew = 0 /\ changes = 0
    /\ \A op \in Operations : remediated[op] # None => remediated[op].class = "signed"
    /\ record # None => record.freshUntil = 2

OneOperationOrMixed == OneOperation \/ Mixed
=============================================================================
