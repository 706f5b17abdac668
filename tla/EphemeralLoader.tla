---------------------------- MODULE EphemeralLoader ----------------------------
(***************************************************************************)
(* The staging protocol of the two ephemeral loaders, the shell scripts    *)
(* that bring a helper to a host: lib/native-exact-file-quarantine-        *)
(* ephemeral-loader.sh and lib/native-displaced-inventory-ephemeral-       *)
(* loader.sh.  A loader makes a directory named after the operation next   *)
(* to the site, decodes a launcher into it, has the launcher run the       *)
(* helper from memory, and removes both; its EXIT trap removes them when   *)
(* anything fails.  The directory is all that keeps two loaders of one     *)
(* operation apart.  They may be started together, killed (the trap does   *)
(* not run) and terminated (it does); the helper goes on in either case.   *)
(* Where the traps of the two scripts differ, the model takes either way.  *)
(***************************************************************************)
EXTENDS Naturals, FiniteSets

CONSTANTS
    Loaders,       \* loaders started for one operation
    Inodes,        \* of the filesystem, given again once free
    MaxKills, MaxTerminations, MaxFailures,
    None

ASSUME LoaderAssumption ==
    /\ IsFiniteSet(Loaders)
    /\ None \notin Loaders \cup Inodes \cup {"verified", "unverified"}
    /\ None \notin [by: Loaders, ino: Inodes, whole: BOOLEAN]
    /\ {MaxKills, MaxTerminations, MaxFailures} \subseteq Nat

VARIABLES
    stage,     \* who made the operation's directory, or None
    launcher,  \* the file in it, or None: who wrote it, its inode, is it whole
    pc,
    created,   \* the script's variable: the directory is this loader's to remove
    meta,      \* launcher_meta: the inode the launcher had once it was whole
    failed,    \* the status the trap ends with is not 0
    helpers,   \* loaders whose helper runs
    audit,     \* what a loader said of its cleanup: "verified", "unverified", or nothing
    kills, terminations, failures

loaderVars == <<stage, launcher, pc, created, meta, failed, helpers, audit, kills, terminations, failures>>
disk == <<stage, launcher>>
memory == <<created, meta, failed>>
faults == <<kills, terminations, failures>>

LoaderInit ==
    /\ stage = None /\ launcher = None
    /\ pc = [l \in Loaders |-> "check"]
    /\ created = [l \in Loaders |-> FALSE] /\ meta = [l \in Loaders |-> None]
    /\ failed = [l \in Loaders |-> FALSE]
    /\ helpers = {} /\ audit = [l \in Loaders |-> None]
    /\ kills = 0 /\ terminations = 0 /\ failures = 0

Goto(l, at) == pc' = [pc EXCEPT ![l] = at]

\* fail and errexit: the status is not 0, and the trap runs
ToCleanup(l) == Goto(l, "look") /\ failed' = [failed EXCEPT ![l] = TRUE] /\ UNCHANGED <<created, meta>>

Exact(l) == launcher # None /\ launcher.whole /\ launcher.ino = meta[l]

---------------------------------------------------------------------------

\* A directory of the operation: the loader refuses, with no trap set yet
Check(l) ==
    /\ pc[l] = "check"
    /\ Goto(l, IF stage = None THEN "mkdir" ELSE "refused")
    /\ UNCHANGED <<disk, memory, helpers, audit, faults>>

MakeStage(l) ==
    /\ pc[l] = "mkdir"
    /\ IF stage = None
       THEN stage' = l /\ Goto(l, "own") /\ UNCHANGED memory
       ELSE ToCleanup(l) /\ UNCHANGED stage
    /\ UNCHANGED <<launcher, helpers, audit, faults>>

Own(l) ==
    /\ pc[l] = "own"
    /\ created' = [created EXCEPT ![l] = TRUE]
    /\ IF stage # None
       THEN Goto(l, "write") /\ UNCHANGED failed
       ELSE Goto(l, "look") /\ failed' = [failed EXCEPT ![l] = TRUE]
    /\ UNCHANGED <<disk, meta, helpers, audit, faults>>

\* noclobber: no file of that name, in a directory that is still there
OpenLauncher(l) ==
    /\ pc[l] = "write"
    /\ IF stage # None /\ launcher = None
       THEN /\ \E i \in Inodes: launcher' = [by |-> l, ino |-> i, whole |-> FALSE]
            /\ Goto(l, "fill") /\ UNCHANGED memory
       ELSE ToCleanup(l) /\ UNCHANGED launcher
    /\ UNCHANGED <<stage, helpers, audit, faults>>

\* openssl writes to the file it has open, whatever has become of its name
FillLauncher(l) ==
    /\ pc[l] = "fill"
    /\ launcher' = IF launcher # None /\ launcher.by = l THEN [launcher EXCEPT !.whole = TRUE] ELSE launcher
    /\ Goto(l, "chmod")
    /\ UNCHANGED <<stage, memory, helpers, audit, faults>>

\* The mode is set by name: of whoever's launcher lies there
ModeLauncher(l) ==
    /\ pc[l] = "chmod"
    /\ IF launcher # None THEN Goto(l, "meta") /\ UNCHANGED memory ELSE ToCleanup(l)
    /\ UNCHANGED <<disk, helpers, audit, faults>>

ReadLauncher(l) ==
    /\ pc[l] = "meta"
    /\ IF launcher # None /\ launcher.whole
       THEN /\ meta' = [meta EXCEPT ![l] = launcher.ino]
            /\ Goto(l, "run") /\ UNCHANGED <<created, failed>>
       ELSE ToCleanup(l)
    /\ UNCHANGED <<disk, helpers, audit, faults>>

\* Wrong on purpose, to test AtMostOneHelper: the loader does not wait for the helper.
RunDetached(l) ==
    /\ pc[l] = "run"
    /\ IF launcher # None /\ launcher.whole
       THEN helpers' = helpers \cup {l} /\ Goto(l, "after") /\ UNCHANGED memory
       ELSE ToCleanup(l) /\ UNCHANGED helpers
    /\ UNCHANGED <<disk, audit, faults>>

\* The launcher reads the helper from the pipe, and becomes it
Run(l) ==
    /\ pc[l] = "run"
    /\ IF launcher # None /\ launcher.whole
       THEN helpers' = helpers \cup {l} /\ Goto(l, "wait") /\ UNCHANGED memory
       ELSE ToCleanup(l) /\ UNCHANGED helpers
    /\ UNCHANGED <<disk, audit, faults>>

HelperEnds(l) ==
    /\ l \in helpers
    /\ helpers' = helpers \ {l}
    /\ \/ pc[l] = "wait" /\ Goto(l, "after") /\ UNCHANGED memory
       \/ pc[l] = "wait" /\ ToCleanup(l)
       \/ pc[l] # "wait" /\ UNCHANGED <<pc, memory>>
    /\ UNCHANGED <<disk, audit, faults>>

After(l) ==
    /\ pc[l] = "after"
    /\ IF Exact(l) THEN Goto(l, "rm") /\ UNCHANGED memory ELSE ToCleanup(l)
    /\ UNCHANGED <<disk, helpers, audit, faults>>

RemoveLauncher(l) ==
    /\ pc[l] = "rm"
    /\ IF launcher # None
       THEN launcher' = None /\ Goto(l, "rmdir") /\ UNCHANGED memory
       ELSE ToCleanup(l) /\ UNCHANGED launcher
    /\ UNCHANGED <<stage, helpers, audit, faults>>

RemoveStage(l) ==
    /\ pc[l] = "rmdir"
    /\ IF stage # None /\ launcher = None
       THEN stage' = None /\ Goto(l, "absent") /\ UNCHANGED memory
       ELSE ToCleanup(l) /\ UNCHANGED stage
    /\ UNCHANGED <<launcher, helpers, audit, faults>>

StageAbsent(l) ==
    /\ pc[l] = "absent"
    /\ IF stage = None
       THEN /\ Goto(l, "ended") /\ created' = [created EXCEPT ![l] = FALSE]
            /\ audit' = [audit EXCEPT ![l] = "verified"] /\ UNCHANGED <<meta, failed>>
       ELSE ToCleanup(l) /\ UNCHANGED audit
    /\ UNCHANGED <<disk, helpers, faults>>

---------------------------------------------------------------------------
(* The EXIT trap.                                                           *)

CleanupFailed(l) == failed' = [failed EXCEPT ![l] = TRUE]

Retain(l) == Goto(l, "audit") /\ CleanupFailed(l)

\* The launcher stays or is gone already: the displaced-inventory loader goes on
\* to the directory, the exact-file loader exits
LeaveLauncher(l) == CleanupFailed(l) /\ (Goto(l, "undo") \/ Goto(l, "audit"))

Look(l) ==
    /\ pc[l] = "look"
    /\ \/ ~created[l] /\ Goto(l, "audit") /\ UNCHANGED failed
       \/ created[l] /\ launcher = None /\ Goto(l, "undo") /\ UNCHANGED failed
       \/ created[l] /\ Exact(l) /\ Goto(l, "unlink") /\ UNCHANGED failed
       \/ created[l] /\ launcher # None /\ ~Exact(l) /\ LeaveLauncher(l)
    /\ UNCHANGED <<disk, created, meta, helpers, audit, faults>>

\* Wrong on purpose, to test LeavesNothing: the trap removes the launcher, not its directory.
CleanLauncherOnly(l) ==
    /\ pc[l] = "unlink"
    /\ launcher' = None
    /\ Goto(l, "audit")
    /\ failed' = [failed EXCEPT ![l] = @ \/ launcher = None]
    /\ UNCHANGED <<stage, created, meta, helpers, audit, faults>>

\* rm, which fails when another loader was first
CleanLauncher(l) ==
    /\ pc[l] = "unlink"
    /\ launcher' = None
    /\ \/ launcher # None /\ Goto(l, "undo") /\ UNCHANGED failed
       \/ launcher = None /\ LeaveLauncher(l)
    /\ UNCHANGED <<stage, created, meta, helpers, audit, faults>>

CleanStage(l) ==
    /\ pc[l] = "undo"
    /\ IF stage # None /\ launcher = None
       THEN stage' = None /\ Goto(l, "audit") /\ UNCHANGED failed
       ELSE Retain(l) /\ UNCHANGED stage
    /\ UNCHANGED <<launcher, created, meta, helpers, audit, faults>>

\* Wrong on purpose, to test AuditIsTrue: absence is checked by who knows that it staged something.
AuditOfCreated(l) ==
    /\ pc[l] = "audit"
    /\ Goto(l, "ended")
    /\ audit' = [audit EXCEPT ![l] =
           IF created[l] /\ stage # None THEN "unverified" ELSE IF failed[l] THEN "verified" ELSE None]
    /\ UNCHANGED <<disk, memory, helpers, faults>>

\* Only the displaced-inventory loader says this; nothing is said of status 0
Audit(l) ==
    /\ pc[l] = "audit"
    /\ Goto(l, "ended")
    /\ audit' = [audit EXCEPT ![l] =
           IF stage # None THEN "unverified" ELSE IF failed[l] THEN "verified" ELSE None]
    /\ UNCHANGED <<disk, memory, helpers, faults>>

---------------------------------------------------------------------------

Tries == {"mkdir", "own", "write", "fill", "chmod", "meta", "run", "after", "rm", "rmdir"}

\* A call of a tool fails; those of the trap leave things as they are
CallFails(l) ==
    /\ failures < MaxFailures /\ failures' = failures + 1
    /\ \/ pc[l] \in Tries \ {"own"} /\ ToCleanup(l)
       \/ /\ pc[l] = "own" /\ created' = [created EXCEPT ![l] = TRUE]
          /\ Goto(l, "look") /\ failed' = [failed EXCEPT ![l] = TRUE] /\ UNCHANGED meta
       \/ /\ pc[l] = "look" /\ created[l] /\ launcher # None
          /\ LeaveLauncher(l) /\ UNCHANGED <<created, meta>>
       \/ pc[l] = "unlink" /\ LeaveLauncher(l) /\ UNCHANGED <<created, meta>>
       \/ pc[l] = "undo" /\ Retain(l) /\ UNCHANGED <<created, meta>>
    /\ UNCHANGED <<disk, helpers, audit, kills, terminations>>

Kill(l) ==
    /\ kills < MaxKills /\ kills' = kills + 1
    /\ pc[l] \notin {"check", "refused", "killed", "ended"}
    /\ Goto(l, "killed")
    /\ UNCHANGED <<disk, memory, helpers, audit, terminations, failures>>

\* SIGTERM or SIGHUP: the trap runs at once, the status it finds is that of the last command
Terminate(l) ==
    /\ terminations < MaxTerminations /\ terminations' = terminations + 1
    /\ pc[l] \in Tries \cup {"wait", "absent"}
    /\ Goto(l, "look")
    /\ UNCHANGED <<disk, memory, helpers, audit, kills, failures>>

Step(l) ==
    \/ Check(l) \/ MakeStage(l) \/ Own(l) \/ OpenLauncher(l) \/ FillLauncher(l) \/ ModeLauncher(l)
    \/ ReadLauncher(l) \/ Run(l) \/ HelperEnds(l) \/ After(l) \/ RemoveLauncher(l) \/ RemoveStage(l) \/ StageAbsent(l)
    \/ Look(l) \/ CleanLauncher(l) \/ CleanStage(l) \/ Audit(l)

LoaderNext == \E l \in Loaders: Step(l) \/ CallFails(l) \/ Kill(l) \/ Terminate(l)

LoaderSpec == LoaderInit /\ [][LoaderNext]_loaderVars

---------------------------------------------------------------------------

\* Every variable keeps its type, and a launcher lies in a directory (the staging of both loaders).
LoaderTypeOK ==
    /\ stage \in Loaders \cup {None}
    /\ launcher \in [by: Loaders, ino: Inodes, whole: BOOLEAN] \cup {None}
    /\ launcher # None => stage # None
    /\ pc \in [Loaders -> Tries \cup {"check", "wait", "absent", "look", "unlink", "undo", "audit",
                                      "refused", "killed", "ended"}]
    /\ created \in [Loaders -> BOOLEAN] /\ failed \in [Loaders -> BOOLEAN]
    /\ meta \in [Loaders -> Inodes \cup {None}]
    /\ helpers \subseteq Loaders
    /\ audit \in [Loaders -> {"verified", "unverified", None}]

Begun == {l \in Loaders: pc[l] # "check"}

(* Of two loaders of one operation, none of them terminated, the helpers    *)
(* never run side by side, whoever is killed and whatever fails: the        *)
(* directory keeps the second loader out (the absence check and the         *)
(* exclusive mkdir, against the order of the cleanup).  The exact-file      *)
(* helper relies on it.                                                     *)
AtMostOneHelper ==
    terminations = 0 /\ Cardinality(Begun) <= 2 => Cardinality(helpers) <= 1

\* What is left of what l staged
Remains(l) == stage = l \/ (launcher # None /\ launcher.by = l)

(* A loader that lived to its end and leaves something of its own says so:  *)
(* CLEANUP_VERIFIED means that nothing is left (the absence checks of both  *)
(* ends, and the states the trap may find).                                 *)
AuditIsTrue ==
    \A l \in Loaders: pc[l] = "ended" /\ Remains(l) => audit[l] = "unverified"

(* When no loader was killed or terminated and no tool failed, nothing is   *)
(* staged once all have ended, so that the operation can be run again       *)
(* (the cleanup against the loaders it may meet).                           *)
LeavesNothing ==
    (kills + terminations + failures = 0 /\ \A l \in Loaders: pc[l] \in {"ended", "refused"})
        => stage = None
=============================================================================
