-------------------------- MODULE MCVolatileRuntime --------------------------
(* Instances of VolatileRuntime for TLC.                                    *)
EXTENDS VolatileRuntime

Path(upload, suffix, config, companion, degraded) ==
    [upload |-> upload, suffix |-> suffix, config |-> config,
     companion |-> companion, degraded |-> degraded]

\* A log, an upload, and wp-config.php of a site that runs or is degraded.
Logs == {Path(upload, ".log", FALSE, FALSE, FALSE) : upload \in BOOLEAN}
Configs == {Path(FALSE, "other", TRUE, TRUE, degraded) : degraded \in BOOLEAN}
LogsAndConfigs == Logs \cup Configs

\* A log of several lines, for three moments or, under uploads, two.
LogBounds == now <= IF place.upload THEN 1 ELSE 2

\* wp-config.php with a byte or without, as long as dispositions live.
ConfigBounds == file # NoFile => file.size <= 1

Bounds == IF place.config THEN ConfigBounds ELSE LogBounds
=============================================================================
