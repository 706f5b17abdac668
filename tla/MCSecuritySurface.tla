-------------------------- MODULE MCSecuritySurface --------------------------
(* Instances of SecuritySurface for TLC: model values, and two kinds of     *)
(* behaviour that one run explores side by side.                            *)
EXTENDS SecuritySurface
CONSTANTS root, upload, known, shell

\* One known file, with or without its record.
PlainTree ==
    [p \in Paths |-> IF p = root
        THEN [kind |-> "regular", content |-> known, x |-> FALSE, odd |-> "plain"]
        ELSE [kind |-> "absent"]]
PlainTrees == {PlainTree}
PlainRecords == {[p \in R |-> known] : R \in SUBSET {root}}

\* Evidence that ends early, or begins late.
Early == [observed |-> 0, expires |-> 1]
Late == [observed |-> 1, expires |-> 2]
EarlyAndLate == {Early, Late}

\* Any dates, releases and later artifacts, of that tree.
AnyDates ==
    /\ capture # NoFile => capture.tree \in Recaptured
    /\ prov # NoFile => prov.records \in Reattested

\* Any tree and records, with the dates of the first two moments.
AnyTree ==
    /\ now <= 1 /\ release = 0
    /\ capture # NoFile =>
           capture.serial = 1 /\ <<capture.observed, capture.expires>> = <<0, 1>>
    /\ prov # NoFile =>
           /\ prov.serial = 1 /\ <<prov.generated, prov.expires>> = <<0, 1>> /\ prov.complete
           /\ \A p \in DOMAIN prov.sources : prov.sources[p] = Early

AnyDatesOrTree == AnyDates \/ AnyTree
=============================================================================
