------------------------ MODULE MCLegacyReconciliation ------------------------
(* Instances of LegacyReconciliation for TLC.                               *)
EXTENDS LegacyReconciliation

\* One file; files of both kinds, and a file and rows.
FilesOnly == {{"quarantine"}}
FilesAndRows == {{"quarantine", "replace"}, {"replace", "apply", "after"}}
AllContracts == FilesOnly \cup FilesAndRows

\* One launcher that ends: the collector is hasty, or the site changes.
CollectorBounds == runs <= 1 /\ pc # "dead" /\ changes + probes <= 1

\* Several launchers, which die: the collector observes as soon as it may.
LauncherBounds ==
    /\ changes = 0 /\ probes = 0 /\ now <= Expiry + Gap
    /\ IF now > Expiry THEN post # None /\ Len(post.obs) >= 1
       ELSE now < Expiry => post = None
    /\ post # None /\ Len(post.obs) = 2 => now = Expiry + Gap

Bounds == IF contract \in FilesOnly THEN CollectorBounds ELSE LauncherBounds
=============================================================================
