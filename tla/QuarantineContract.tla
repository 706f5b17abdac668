-------------------------- MODULE QuarantineContract --------------------------
(***************************************************************************)
(* What the exact-file quarantine promises its operator, without the system *)
(* calls it takes: where the bytes of each target have a name, where they   *)
(* would have one after a loss of power, and what each receipt or exit code *)
(* says about it.  ExactFileQuarantine implements it (QuarantineRefinement).*)
(***************************************************************************)
CONSTANT Targets

VARIABLES
    place,      \* target -> where it has a name: in the "site", in the "store"
    durable,    \* the same after a loss of power now
    phase,      \* "idle", the mode of the running process, or "compensate"
    before,     \* target -> every name it had, or could have had, at the start
    claim       \* what the last process said; "NONE" while one runs

vars == <<place, durable, phase, before, claim>>

Where == SUBSET {"site", "store"}

Names(t) == place[t] \cup durable[t]

Init ==
    /\ place = [t \in Targets |-> {"site"}] /\ durable = place
    /\ phase = "idle" /\ claim = "NONE"
    /\ before = place

Begin(m) ==
    /\ phase = "idle" /\ phase' = m
    /\ before' = [t \in Targets |-> Names(t)]
    /\ claim' = "NONE"
    /\ UNCHANGED <<place, durable>>

\* An apply that has begun to put targets back takes no other one.
Turn ==
    /\ phase = "apply" /\ phase' = "compensate"
    /\ UNCHANGED <<place, durable, before, claim>>

Relocate(t, from, to) ==
    /\ place[t] = from
    /\ place' = [place EXCEPT ![t] = to]
    /\ UNCHANGED <<durable, phase, before, claim>>

MoveOut(t) == phase = "apply" /\ Relocate(t, {"site"}, {"store"})

MoveBack(t) ==
    /\ phase \in {"compensate", "rollback", "reconcile-rollback"}
    /\ Relocate(t, {"store"}, {"site"})

\* The second of two names goes.  Nothing holds the first one meanwhile.
Resolve(t) ==
    /\ phase = "reconcile-rollback" /\ before[t] = {"site", "store"}
    /\ Relocate(t, place[t], place[t] \ {"store"})

\* Some of what was done becomes durable, at no moment without a name.
Settle(t) ==
    /\ \E d \in SUBSET Names(t) :
        /\ d = {} => {} \in {place[t], durable[t]}
        /\ durable' = [durable EXCEPT ![t] = d]
    /\ UNCHANGED <<place, phase, before, claim>>

\* What a process says when it ends, by the mode it ran in.
Truthful(c) ==
    \/ /\ c = "QUARANTINED_EXACT" /\ phase = "apply"
       /\ \A t \in Targets : Names(t) = {"store"}
    \/ /\ c = "QUARANTINED_EXACT" /\ phase = "observe-quarantined"
       /\ \A t \in Targets : place[t] = {"store"}
    \/ /\ c = "ORIGINAL_EXACT" /\ phase = "rollback"
       /\ \A t \in Targets : Names(t) \subseteq {"site"}
    \/ /\ c = "ORIGINAL_EXACT" /\ phase = "observe-original"
       /\ \A t \in Targets : place[t] \subseteq {"site"}
    \/ /\ c = "ORIGINAL_EXACT_RECONCILED" /\ phase = "reconcile-rollback"
       /\ \A t \in Targets : place[t] \subseteq {"site"}
    \/ /\ c = "FAILED" /\ phase \in {"apply", "compensate"}
       /\ \A t \in Targets : Names(t) \subseteq before[t]
    \/ c = "FAILED" /\ phase \notin {"idle", "apply", "compensate"}
    \/ c \in {"PARTIAL", "KILLED"} /\ phase # "idle"

Report(c) ==
    /\ Truthful(c)
    /\ phase' = "idle" /\ claim' = c
    /\ UNCHANGED <<place, durable, before>>

PowerLoss ==
    /\ place' = durable
    /\ phase' = "idle"
    /\ claim' = IF phase = "idle" THEN claim ELSE "KILLED"
    /\ UNCHANGED <<durable, before>>

\* The site removes or replaces its file.
Take(t) == Relocate(t, place[t], place[t] \ {"site"})

Next ==
    \/ \E m \in {"apply", "observe-quarantined", "rollback",
                 "reconcile-rollback", "observe-original"} : Begin(m)
    \/ Turn \/ PowerLoss
    \/ \E t \in Targets :
        MoveOut(t) \/ MoveBack(t) \/ Resolve(t) \/ Settle(t) \/ Take(t)
    \/ \E c \in {"QUARANTINED_EXACT", "ORIGINAL_EXACT",
                 "ORIGINAL_EXACT_RECONCILED", "FAILED", "PARTIAL", "KILLED"} :
        Report(c)

Spec == Init /\ [][Next]_vars
=============================================================================
