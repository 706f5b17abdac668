-------------------------- MODULE MCEmergencyOperator --------------------------
(* Instances of EmergencyOperator for TLC.  Terminals are interchangeable.  *)
EXTENDS EmergencyOperator, FiniteSets, TLC

SessionSymmetry == Permutations(Sessions)

\* Two terminals and two reopen packages, all made once for the same time
\* and signed for good.
Concurrent ==
    /\ product = 0 /\ edition[Remediation] = 1 /\ unsigned = {}
    /\ \A p \in authored : expires[p] = generated[p] + 2

\* One terminal and one reopen package, which expire, lose their signatures,
\* are issued anew and are sealed by an older Product.
Changing ==
    /\ authored \subseteq {Remediation, 1}
    /\ \E s \in Sessions :
        /\ revoked \subseteq {s} /\ mutations \subseteq {s} \X Packages
        /\ \A t \in Sessions \ {s} :
            pc[t] = "idle" /\ chosen[t] = Remediation /\ seen[t] = 1

\* At most one package's files drift, or its signatures.
ConcurrentOrChanging ==
    /\ Concurrent \/ Changing
    /\ Cardinality(drifted) + Cardinality(unsigned) <= 1
=============================================================================
