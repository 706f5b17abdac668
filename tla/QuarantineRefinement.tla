------------------------- MODULE QuarantineRefinement -------------------------
(* The helper, with its disk, implements the contract of the quarantine.    *)
EXTENDS ExactFileQuarantine

VARIABLE before     \* history: the names of each target when a process started

Place ==
    [t \in Targets |-> {w \in {"site", "store"} :
        (IF w = "site" THEN live[t] ELSE quar[t]) = "orig"}]

Durable ==
    [t \in Targets |-> {w \in {"site", "store"} :
        (IF w = "site" THEN liveDisk[t] ELSE quarDisk[t]) = "orig"}]

Phase ==
    IF pc = "idle" THEN "idle"
    ELSE IF mode = "apply" /\ pc \in RestorePc THEN "compensate" ELSE mode

ContractInit == Init /\ before = Place

ContractNext ==
    /\ Next
    /\ before' = IF pc = "idle" /\ pc' # "idle"
                 THEN [t \in Targets |-> Place[t] \cup Durable[t]] ELSE before

ContractSpec == ContractInit /\ [][ContractNext]_<<vars, before>>

Contract == INSTANCE QuarantineContract
    WITH place <- Place, durable <- Durable, phase <- Phase, claim <- result

\* The helper implements the contract of the quarantine: every system call
\* moves one target one way in the right phase or says something true, and no
\* crash, fault or interference of the site between two of them lets a receipt
\* or an exit code say what the disk does not hold.
ImplementsContract == Contract!Spec
=============================================================================
