------------------------- MODULE ExactFileQuarantine -------------------------
(***************************************************************************)
(* The native exact-file quarantine helper (src/native/                    *)
(* exact-file-quarantine-helper.c): a process that moves a bound set of    *)
(* files out of a WordPress root into an owner-only quarantine directory,  *)
(* and back, in five modes.  One action is one group of system calls whose *)
(* outcome the program tests together; between any two of them the process *)
(* may be killed, the host may lose power, and the site may touch its      *)
(* files.                                                                  *)
(*                                                                         *)
(* live, quar and perm are what system calls see; liveDisk, quarDisk and   *)
(* permDisk are what survives a loss of power.                             *)
(***************************************************************************)
EXTENDS Naturals

CONSTANTS
    N,            \* number of targets of the bound manifest (TARGET_CAP is 64)
    MaxRuns,      \* helper processes started
    MaxFaults,    \* system calls that fail for a reason of the environment
    MaxCrashes,   \* kills of the process and losses of power
    MaxSite       \* interferences of the site with the targets

ASSUME TargetsAssumption == N \in Nat \ {0}
ASSUME BoundsAssumption ==
    /\ MaxRuns \in Nat
    /\ MaxFaults \in Nat
    /\ MaxCrashes \in Nat
    /\ MaxSite \in Nat

Targets == 1 .. N

\* The object a directory entry names: the inode the manifest binds, another
\* object, or nothing.
Entry == {"none", "orig", "foreign"}

\* The permission bits of the bound inode: those of the manifest or 0400.
Perm == {"orig", "q0400"}

Mode == {"apply", "observe-quarantined", "rollback", "reconcile-rollback",
         "observe-original"}

\* The quarantine root: missing, made, or holding both bound manifests.
Store == {"absent", "created", "bound"}

Receipt == {"QUARANTINED_EXACT", "ORIGINAL_EXACT", "ORIGINAL_EXACT_RECONCILED"}

\* PARTIAL is exit code 22 (PARTIAL_OR_DIVERGED), FAILED exit code 20.
Result == Receipt \cup {"NONE", "PARTIAL", "FAILED", "KILLED"}

ForwardPc == {"check", "rename", "syncQuar", "syncLive", "protect", "verify",
              "record", "commit"}
RestorePc == {"undo", "rCheck", "rPerm", "rRename", "rSyncLive", "rSyncQuar",
              "rVerify"}
ReconcilePc == {"classify", "dupPerm", "dupUnlink", "dupSync", "dupVerify",
                "livePerm", "liveVerify"}
Pc == {"idle", "open", "prepare", "bind", "bindSync", "begin", "precheck",
       "observe"} \cup ForwardPc \cup RestorePc \cup ReconcilePc

VARIABLES
    live,       \* target -> what its name in the site holds
    quar,       \* target -> what its name in the quarantine holds
    perm,       \* target -> permission bits of the bound inode
    liveDisk, quarDisk, permDisk,   \* the same, on disk
    altered,    \* targets whose bytes the site changed
    taken,      \* targets whose live name the site removed or replaced
    store,      \* the quarantine root and its manifests
    storeDisk,
    journal,    \* rows of the journal file
    mode,       \* mode of the running, or of the last, process
    pc,
    i,          \* loop index
    moved,      \* targets with Target.moved set
    result,     \* what the last process reported
    direction,  \* history: "back" once some process began to put targets back
    faultsBefore,   \* history: faults when this process was started
    faults, crashes, sites, runs   \* spent of the bounds

mem == <<live, quar, perm>>
disk == <<liveDisk, quarDisk, permDisk>>
fs == <<mem, disk>>
site == <<altered, taken, sites>>
tx == <<store, storeDisk, journal>>
proc == <<mode, pc, i, moved, result, direction>>
bounds == <<faults, faultsBefore, crashes, runs>>
frame == <<site, mode, faultsBefore, crashes, runs>>   \* what no step of the helper changes
vars == <<fs, site, tx, proc, bounds>>

Init ==
    /\ live = [t \in Targets |-> "orig"] /\ liveDisk = live
    /\ quar = [t \in Targets |-> "none"] /\ quarDisk = quar
    /\ perm = [t \in Targets |-> "orig"] /\ permDisk = perm
    /\ altered = {}
    /\ taken = {}
    /\ store = "absent" /\ storeDisk = "absent"
    /\ journal = {}
    /\ mode = "apply" /\ pc = "idle" /\ i = 1
    /\ moved = {}
    /\ result = "NONE" /\ direction = "out"
    /\ faults = 0 /\ faultsBefore = 0 /\ crashes = 0 /\ sites = 0 /\ runs = 0

-----------------------------------------------------------------------------
(* What the open_exact functions accept.  nlink == 1 excludes the state in *)
(* which both names hold the inode.                                        *)

Names(l, q, o) == o \in {l, q}

ExactLive(t) ==
    /\ live[t] = "orig" /\ quar[t] # "orig"
    /\ perm[t] = "orig"
    /\ t \notin altered

ExactQuarantined(t) ==
    /\ quar[t] = "orig" /\ live[t] # "orig"
    /\ perm[t] = "q0400"
    /\ t \notin altered

RecoverableQuarantined(t) ==
    /\ quar[t] = "orig" /\ live[t] # "orig"
    /\ t \notin altered

CrashExactLive(t) == live[t] = "orig" /\ t \notin altered

\* Wrong on purpose, to test ReconcileAcceptsCrashes: only mode 0400 counts.
CrashExactProtected(t) ==
    quar[t] = "orig" /\ perm[t] = "q0400" /\ t \notin altered

CrashExactQuarantined(t) == quar[t] = "orig" /\ t \notin altered

-----------------------------------------------------------------------------
(* How a step ends.                                                        *)

NoFault == UNCHANGED faults

Fault ==
    /\ faults < MaxFaults
    /\ faults' = faults + 1

\* The step's test says no, or the call itself fails.
Refuses(c) == (~c /\ NoFault) \/ Fault

Accepts(c) == c /\ NoFault

Goto(l) == pc' = l /\ UNCHANGED result

Exit(r) == pc' = "idle" /\ result' = r

\* mutation_started: set with the first Target.moved, cleared before the last
\* row of the journal.
MutationStarted == mode = "apply" /\ moved # {}

\* Wrong on purpose, to test ImplementsContract: mutation_started is never set.
DieUncounted == Exit("FAILED")

\* die(): the exit code depends on mutation_started and nothing is put back.
Die == Exit(IF MutationStarted THEN "PARTIAL" ELSE "FAILED")

\* Wrong on purpose, to test TypeOK: the loop starts past the last target.
CompensatePastEnd ==
    /\ Goto("undo")
    /\ i' = N + 1
    /\ direction' = "back"

\* The compensate label of apply_transaction.
Compensate ==
    /\ Goto("undo")
    /\ i' = N
    /\ direction' = "back"

\* "restore_one(...) < 0" ends every caller in partial().
Partial == Exit("PARTIAL") /\ UNCHANGED <<i, direction>>

\* Advance the loop over the targets: to the next one at label l, or at the
\* end to label done with index j.
Advance(l, done, j) ==
    IF i < N THEN Goto(l) /\ i' = i + 1 ELSE Goto(done) /\ i' = j

\* The names of a target change, as renameat2 and unlinkat do.
SetNames(t, l, q) ==
    /\ live' = [live EXCEPT ![t] = l]
    /\ quar' = [quar EXCEPT ![t] = q]
    /\ UNCHANGED <<perm, disk>>

\* fchmod and fsync of the inode; if either fails the bits may be changed
\* but not durable.
SetPerm(t, p) ==
    /\ perm' = [perm EXCEPT ![t] = p]
    /\ permDisk' = [permDisk EXCEPT ![t] = p]
    /\ UNCHANGED <<live, quar, liveDisk, quarDisk>>

MaybePerm(t, p) ==
    /\ \/ perm' = [perm EXCEPT ![t] = p]
       \/ UNCHANGED perm
    /\ UNCHANGED <<live, quar, disk>>

\* fsync of the live or of the quarantine parent directory.
SyncLiveDir(t) ==
    /\ liveDisk' = [liveDisk EXCEPT ![t] = live[t]]
    /\ UNCHANGED <<mem, quarDisk, permDisk>>

SyncQuarDir(t) ==
    /\ quarDisk' = [quarDisk EXCEPT ![t] = quar[t]]
    /\ UNCHANGED <<mem, liveDisk, permDisk>>

\* journal(): an append and an fsync; when it fails the row may be there.
JournalRow(row) == journal' = journal \cup {row}
MaybeJournalRow(row) == JournalRow(row) \/ UNCHANGED journal

-----------------------------------------------------------------------------
(* main and open_context.  The loader's exclusive staging directory keeps  *)
(* a second helper of the operation from running beside this one.          *)

Start(m) ==
    /\ pc = "idle" /\ runs < MaxRuns
    /\ runs' = runs + 1
    /\ mode' = m /\ pc' = "open" /\ i' = 1
    /\ moved' = {}
    /\ result' = "NONE" /\ faultsBefore' = faults
    /\ UNCHANGED <<fs, site, tx, direction, faults, crashes>>

\* apply makes the quarantine root with mkdirat, so one left by an earlier
\* run of the operation is a collision.
OpenApply ==
    /\ pc = "open" /\ mode = "apply"
    /\ \/ /\ Accepts(store = "absent")
          /\ store' = "created" /\ storeDisk' = "created"
          /\ Goto("prepare")
       \/ /\ Refuses(store = "absent")
          /\ store' \in IF store = "absent" THEN {"absent", "created"} ELSE {store}
          /\ UNCHANGED storeDisk
          /\ Die
    /\ UNCHANGED <<frame, fs, journal, i, moved, direction>>

FirstStep ==
    IF mode = "rollback" THEN "precheck"
    ELSE IF mode = "reconcile-rollback" THEN "classify" ELSE "observe"

\* Every other mode binds the existing root and both persisted manifests.
OpenFollowUp ==
    /\ pc = "open" /\ mode # "apply"
    /\ \/ /\ Accepts(store = "bound")
          /\ Goto(FirstStep)
          /\ direction' = IF mode = "reconcile-rollback" THEN "back" ELSE direction
       \/ /\ Refuses(store = "bound")
          /\ Die
          /\ UNCHANGED direction
    /\ UNCHANGED <<frame, fs, tx, i, moved>>

-----------------------------------------------------------------------------
(* apply_transaction, up to the first move.                                *)

\* prepare_live, one target.
PrepareLive ==
    /\ pc = "prepare"
    /\ \/ Accepts(ExactLive(i)) /\ Advance("prepare", "bind", 1)
       \/ Refuses(ExactLive(i)) /\ Die /\ UNCHANGED i
    /\ UNCHANGED <<frame, fs, tx, moved, direction>>

\* prepare_quarantine, then write_bound_text of both manifests.
BindManifests ==
    /\ pc = "bind"
    /\ LET vacant == \A t \in Targets : quar[t] = "none" IN
       \/ Accepts(vacant) /\ store' = "bound" /\ Goto("bindSync")
       \/ Refuses(vacant) /\ store' \in {"created", "bound"} /\ Die
    /\ UNCHANGED <<frame, fs, storeDisk, journal, i, moved, direction>>

\* Wrong on purpose, to test LeavesRecoverable: the directory is not synced.
SyncManifestsForgotten ==
    /\ pc = "bindSync" /\ NoFault /\ Goto("begin")
    /\ UNCHANGED <<frame, fs, tx, i, moved, direction>>

\* fsync of the quarantine root makes the manifests' names durable.
SyncManifests ==
    /\ pc = "bindSync"
    /\ \/ NoFault /\ storeDisk' = store /\ Goto("begin")
       \/ Fault /\ UNCHANGED storeDisk /\ Die
    /\ UNCHANGED <<frame, fs, store, journal, i, moved, direction>>

BeginJournal ==
    /\ pc = "begin"
    /\ \/ NoFault /\ JournalRow(<<"BEGIN", N>>) /\ Goto("check")
       \/ Fault /\ MaybeJournalRow(<<"BEGIN", N>>) /\ Die
    /\ UNCHANGED <<frame, fs, store, storeDisk, i, moved, direction>>

-----------------------------------------------------------------------------
(* apply_transaction, one target.                                          *)

\* The held descriptor and the name still agree, and so do the bytes.  The
\* permission bits are not looked at again.
CheckHeld ==
    /\ pc = "check"
    /\ \/ Accepts(CrashExactLive(i)) /\ Goto("rename") /\ UNCHANGED <<i, direction>>
       \/ Refuses(CrashExactLive(i)) /\ Compensate
    /\ UNCHANGED <<frame, fs, tx, moved>>

\* renameat2(RENAME_NOREPLACE) by name: it takes whatever is there now.
RenameOut ==
    /\ pc = "rename"
    /\ LET free == live[i] # "none" /\ quar[i] = "none" IN
       \/ /\ Accepts(free)
          /\ SetNames(i, "none", live[i])
          /\ moved' = moved \cup {i}
          /\ Goto("syncQuar") /\ UNCHANGED <<i, direction>>
       \/ /\ Refuses(free)
          /\ Compensate
          /\ UNCHANGED <<fs, moved>>
    /\ UNCHANGED <<frame, tx>>

\* The destination directory is made durable before the source directory.
SyncQuarantine ==
    /\ pc = "syncQuar"
    /\ \/ NoFault /\ SyncQuarDir(i) /\ Goto("syncLive") /\ UNCHANGED <<i, direction>>
       \/ Fault /\ Compensate /\ UNCHANGED fs
    /\ UNCHANGED <<frame, tx, moved>>

\* Wrong on purpose, to test AppliedDurably: the source is not synced.
SyncSourceForgotten ==
    /\ pc = "syncLive" /\ NoFault /\ Goto("protect")
    /\ UNCHANGED <<frame, fs, tx, i, moved, direction>>

SyncSource ==
    /\ pc = "syncLive"
    /\ \/ NoFault /\ SyncLiveDir(i) /\ Goto("protect") /\ UNCHANGED <<i, direction>>
       \/ Fault /\ Compensate /\ UNCHANGED fs
    /\ UNCHANGED <<frame, tx, moved>>

\* Wrong on purpose, to test JournalFaithful: fchmod without fsync.
ProtectUnsynced ==
    /\ pc = "protect" /\ NoFault
    /\ perm' = [perm EXCEPT ![i] = "q0400"] /\ UNCHANGED <<live, quar, disk>>
    /\ Goto("verify")
    /\ UNCHANGED <<frame, tx, i, moved, direction>>

\* fchmod 0400 of the object that was moved; the bits of a foreign object
\* are not tracked.
Protect ==
    /\ pc = "protect"
    /\ \/ /\ NoFault
          /\ IF quar[i] = "orig" THEN SetPerm(i, "q0400") ELSE UNCHANGED fs
          /\ Goto("verify") /\ UNCHANGED <<i, direction>>
       \/ /\ Fault
          /\ IF quar[i] = "orig" THEN MaybePerm(i, "q0400") ELSE UNCHANGED fs
          /\ Compensate
    /\ UNCHANGED <<frame, tx, moved>>

VerifyQuarantined ==
    /\ pc = "verify"
    /\ LET exact == ExactQuarantined(i) /\ live[i] = "none" IN
       \/ Accepts(exact) /\ Goto("record") /\ UNCHANGED <<i, direction>>
       \/ Refuses(exact) /\ Compensate
    /\ UNCHANGED <<frame, fs, tx, moved>>

\* A journal() that fails dies: the targets stay where they are.
RecordMoved ==
    /\ pc = "record"
    /\ \/ NoFault /\ JournalRow(<<"MOVED", i>>) /\ Advance("check", "commit", i)
       \/ Fault /\ MaybeJournalRow(<<"MOVED", i>>) /\ Die /\ UNCHANGED i
    /\ UNCHANGED <<frame, fs, store, storeDisk, moved, direction>>

Commit ==
    /\ pc = "commit"
    /\ \/ NoFault /\ JournalRow(<<"COMMITTED", N>>) /\ Exit("QUARANTINED_EXACT")
       \/ Fault /\ MaybeJournalRow(<<"COMMITTED", N>>) /\ Die
    /\ UNCHANGED <<frame, fs, store, storeDisk, i, moved, direction>>

-----------------------------------------------------------------------------
(* The reverse loops of compensation, rollback and reconciliation over     *)
(* restore_one.                                                            *)

\* rollback restores every target, the others those marked as moved.
Restores(t) == mode = "rollback" \/ t \in moved

\* Wrong on purpose, to test HelperEnds: a skipped target is not left behind.
UndoNextStuck ==
    /\ pc = "undo" /\ i > 0
    /\ NoFault
    /\ Goto(IF Restores(i) THEN "rCheck" ELSE "undo")
    /\ UNCHANGED <<frame, fs, tx, i, moved, direction>>

UndoNext ==
    /\ pc = "undo" /\ i > 0
    /\ NoFault
    /\ IF Restores(i) THEN Goto("rCheck") /\ UNCHANGED i
                      ELSE Goto("undo") /\ i' = i - 1
    /\ UNCHANGED <<frame, fs, tx, moved, direction>>

\* The loop has ended.  apply still reports a failure, exit code 20.
UndoDone ==
    /\ pc = "undo" /\ i = 0
    /\ \/ /\ mode = "apply"
          /\ \/ NoFault /\ JournalRow(<<"COMPENSATED", N>>)
             \/ Fault /\ MaybeJournalRow(<<"COMPENSATED", N>>)
          /\ Exit("FAILED")
       \/ /\ mode # "apply" /\ NoFault
          /\ Exit(IF mode = "rollback" THEN "ORIGINAL_EXACT"
                                       ELSE "ORIGINAL_EXACT_RECONCILED")
          /\ UNCHANGED journal
    /\ UNCHANGED <<frame, fs, store, storeDisk, i, moved, direction>>

RestoreCheck ==
    /\ pc = "rCheck"
    /\ LET able == live[i] = "none" /\ RecoverableQuarantined(i) IN
       \/ Accepts(able) /\ Goto("rPerm") /\ UNCHANGED <<i, direction>>
       \/ Refuses(able) /\ Partial
    /\ UNCHANGED <<frame, fs, tx, moved>>

RestorePerm ==
    /\ pc = "rPerm"
    /\ \/ NoFault /\ SetPerm(i, "orig") /\ Goto("rRename") /\ UNCHANGED <<i, direction>>
       \/ Fault /\ MaybePerm(i, "orig") /\ Partial
    /\ UNCHANGED <<frame, tx, moved>>

\* Wrong on purpose, to test ForeignPreserved: rename without NOREPLACE.
RestoreRenameReplacing ==
    /\ pc = "rRename" /\ NoFault /\ quar[i] # "none"
    /\ SetNames(i, quar[i], "none")
    /\ Goto("rSyncLive")
    /\ UNCHANGED <<frame, tx, i, moved, direction>>

\* renameat2(RENAME_NOREPLACE) back to the live name.
RestoreRename ==
    /\ pc = "rRename"
    /\ LET free == quar[i] # "none" /\ live[i] = "none" IN
       \/ /\ Accepts(free)
          /\ SetNames(i, quar[i], "none")
          /\ Goto("rSyncLive") /\ UNCHANGED <<i, direction>>
       \/ Refuses(free) /\ Partial /\ UNCHANGED fs
    /\ UNCHANGED <<frame, tx, moved>>

\* Wrong on purpose, to test NoTargetLost: the destination is not synced.
RestoreSyncLiveForgotten ==
    /\ pc = "rSyncLive" /\ NoFault /\ Goto("rSyncQuar")
    /\ UNCHANGED <<frame, fs, tx, i, moved, direction>>

RestoreSyncLive ==
    /\ pc = "rSyncLive"
    /\ \/ NoFault /\ SyncLiveDir(i) /\ Goto("rSyncQuar") /\ UNCHANGED <<i, direction>>
       \/ Fault /\ Partial /\ UNCHANGED fs
    /\ UNCHANGED <<frame, tx, moved>>

\* Wrong on purpose, to test RestoredDurably: the source is not synced.
RestoreSyncQuarForgotten ==
    /\ pc = "rSyncQuar" /\ NoFault /\ Goto("rVerify")
    /\ UNCHANGED <<frame, fs, tx, i, moved, direction>>

RestoreSyncQuar ==
    /\ pc = "rSyncQuar"
    /\ \/ NoFault /\ SyncQuarDir(i) /\ Goto("rVerify") /\ UNCHANGED <<i, direction>>
       \/ Fault /\ Partial /\ UNCHANGED fs
    /\ UNCHANGED <<frame, tx, moved>>

RestoreVerify ==
    /\ pc = "rVerify"
    /\ LET home == ExactLive(i) /\ quar[i] = "none" IN
       \/ Accepts(home) /\ Goto("undo") /\ i' = i - 1 /\ UNCHANGED direction
       \/ Refuses(home) /\ Partial
    /\ UNCHANGED <<frame, fs, tx, moved>>

-----------------------------------------------------------------------------
(* rollback_transaction: every target is looked at before one is moved.    *)

\* Wrong on purpose, to test RollbackIsUniform: only one target is looked at.
RollbackPrecheckFirst ==
    /\ pc = "precheck" /\ live[i] = "none" /\ ExactQuarantined(i)
    /\ NoFault /\ Goto("undo") /\ i' = N /\ direction' = "back"
    /\ UNCHANGED <<frame, fs, tx, moved>>

RollbackPrecheck ==
    /\ pc = "precheck"
    /\ LET ready == live[i] = "none" /\ ExactQuarantined(i) IN
       \/ /\ Accepts(ready)
          /\ Advance("precheck", "undo", N)
          /\ direction' = IF i = N THEN "back" ELSE direction
       \/ Refuses(ready) /\ Partial
    /\ UNCHANGED <<frame, fs, tx, moved>>

-----------------------------------------------------------------------------
(* reconcile_rollback, one target: four cases of what the two names hold.  *)

NextTarget == Advance("classify", "undo", N)

\* Only the quarantine name holds the object: it is to be restored.
ClassifyMoved ==
    /\ NoFault
    /\ ~CrashExactLive(i) /\ CrashExactQuarantined(i) /\ live[i] = "none"
    /\ moved' = moved \cup {i}
    /\ NextTarget

\* Both names hold it (nlink 2), or only the live name does.  When the
\* quarantine name cannot be opened it is taken for a name that holds
\* nothing exact.
ClassifyLive ==
    /\ CrashExactLive(i)
    /\ \/ NoFault /\ Goto(IF CrashExactQuarantined(i) THEN "dupPerm" ELSE "livePerm")
       \/ Fault /\ Goto("livePerm")
    /\ UNCHANGED <<i, moved>>

\* Neither does, or an object that is not exact occupies the live name.
ClassifyThirdState ==
    /\ Refuses(\/ CrashExactLive(i)
               \/ CrashExactQuarantined(i) /\ live[i] = "none")
    /\ Exit("PARTIAL")
    /\ UNCHANGED <<i, moved>>

Classify ==
    /\ pc = "classify"
    /\ ClassifyMoved \/ ClassifyLive \/ ClassifyThirdState
    /\ UNCHANGED <<frame, fs, tx, direction>>

DupPerm ==
    /\ pc = "dupPerm"
    /\ \/ NoFault /\ SetPerm(i, "orig") /\ Goto("dupUnlink") /\ UNCHANGED <<i, direction>>
       \/ Fault /\ MaybePerm(i, "orig") /\ Partial
    /\ UNCHANGED <<frame, tx, moved>>

\* unlinkat of the quarantine name.
DupUnlink ==
    /\ pc = "dupUnlink"
    /\ \/ /\ NoFault
          /\ SetNames(i, live[i], "none")
          /\ Goto("dupSync") /\ UNCHANGED <<i, direction>>
       \/ Fault /\ Partial /\ UNCHANGED fs
    /\ UNCHANGED <<frame, tx, moved>>

DupSync ==
    /\ pc = "dupSync"
    /\ \/ NoFault /\ SyncQuarDir(i) /\ Goto("dupVerify") /\ UNCHANGED <<i, direction>>
       \/ Fault /\ Partial /\ UNCHANGED fs
    /\ UNCHANGED <<frame, tx, moved>>

LivePerm ==
    /\ pc = "livePerm"
    /\ \/ NoFault /\ SetPerm(i, "orig") /\ Goto("liveVerify") /\ UNCHANGED <<i, direction>>
       \/ Fault /\ MaybePerm(i, "orig") /\ Partial
    /\ UNCHANGED <<frame, tx, moved>>

\* Both cases end with the same test: home, and nothing in quarantine.
VerifyHome ==
    /\ pc \in {"dupVerify", "liveVerify"}
    /\ LET home == ExactLive(i) /\ quar[i] = "none" IN
       \/ Accepts(home) /\ NextTarget /\ UNCHANGED direction
       \/ Refuses(home) /\ Partial
    /\ UNCHANGED <<frame, fs, tx, moved>>

-----------------------------------------------------------------------------
(* observe_state, one target.                                              *)

Expected(t) ==
    IF mode = "observe-quarantined"
    THEN live[t] = "none" /\ ExactQuarantined(t)
    ELSE quar[t] = "none" /\ ExactLive(t)

ObservedReceipt ==
    IF mode = "observe-quarantined" THEN "QUARANTINED_EXACT" ELSE "ORIGINAL_EXACT"

Observe ==
    /\ pc = "observe"
    /\ \/ /\ Accepts(Expected(i)) /\ UNCHANGED direction
          /\ IF i < N THEN Goto("observe") /\ i' = i + 1
                      ELSE Exit(ObservedReceipt) /\ UNCHANGED i
       \/ Refuses(Expected(i)) /\ Partial
    /\ UNCHANGED <<frame, fs, tx, moved>>

-----------------------------------------------------------------------------
\* sha_fd and absent_at die on a read error instead of refusing.
ReadError ==
    /\ pc \in {"check", "verify", "rCheck", "rVerify", "precheck", "classify",
               "dupVerify", "liveVerify", "observe"}
    /\ Fault /\ Die
    /\ UNCHANGED <<frame, fs, tx, i, moved, direction>>

Helper ==
    \/ OpenApply \/ OpenFollowUp
    \/ PrepareLive \/ BindManifests \/ SyncManifests \/ BeginJournal
    \/ CheckHeld \/ RenameOut \/ SyncQuarantine \/ SyncSource \/ Protect
    \/ VerifyQuarantined \/ RecordMoved \/ Commit
    \/ UndoNext \/ UndoDone
    \/ RestoreCheck \/ RestorePerm \/ RestoreRename \/ RestoreSyncLive
    \/ RestoreSyncQuar \/ RestoreVerify
    \/ RollbackPrecheck
    \/ Classify \/ DupPerm \/ DupUnlink \/ DupSync \/ LivePerm \/ VerifyHome
    \/ Observe
    \/ ReadError

-----------------------------------------------------------------------------
(* The environment.                                                        *)

\* A signal ends the process; the kernel keeps its caches.
Kill ==
    /\ pc # "idle" /\ crashes < MaxCrashes
    /\ crashes' = crashes + 1
    /\ Exit("KILLED")
    /\ UNCHANGED <<fs, site, tx, mode, i, moved, direction, faults, faultsBefore, runs>>

\* The caches are lost.  The result a finished process reported stays known.
PowerLoss ==
    /\ crashes < MaxCrashes
    /\ crashes' = crashes + 1
    /\ live' = liveDisk /\ quar' = quarDisk /\ perm' = permDisk
    /\ store' = storeDisk
    /\ IF pc = "idle" THEN UNCHANGED <<pc, result>> ELSE Exit("KILLED")
    /\ UNCHANGED <<disk, site, storeDisk, journal, mode, i, moved, direction,
                   faults, faultsBefore, runs>>

\* What the file system may have written of one target on its own: any mix of
\* old and new, except that a rename's removal never arrives without its
\* addition, so an object with a name before and after has one in between.
Between(t, l, q) ==
    /\ l \in {live[t], liveDisk[t]} /\ q \in {quar[t], quarDisk[t]}
    /\ \A o \in {"orig", "foreign"} :
        Names(live[t], quar[t], o) /\ Names(liveDisk[t], quarDisk[t], o) => Names(l, q, o)

Writeback(t) ==
    /\ \E l, q \in Entry :
        /\ Between(t, l, q)
        /\ liveDisk' = [liveDisk EXCEPT ![t] = l]
        /\ quarDisk' = [quarDisk EXCEPT ![t] = q]
    /\ \E p \in {perm[t], permDisk[t]} : permDisk' = [permDisk EXCEPT ![t] = p]
    /\ UNCHANGED <<mem, site, tx, proc, bounds>>

StoreWriteback ==
    /\ storeDisk' = store
    /\ UNCHANGED <<fs, site, store, journal, proc, bounds>>

\* The site writes through a descriptor it holds, or changes what the live
\* name holds.  It cannot reach the quarantine directory.
SiteAlter(t) ==
    /\ Names(live[t], quar[t], "orig")
    /\ altered' = altered \cup {t}
    /\ UNCHANGED <<mem, taken>>

SitePut(t, o) ==
    /\ live[t] # o
    /\ live' = [live EXCEPT ![t] = o]
    /\ taken' = IF live[t] = "orig" THEN taken \cup {t} ELSE taken
    /\ UNCHANGED <<quar, perm, altered>>

Site(t) ==
    /\ sites < MaxSite
    /\ sites' = sites + 1
    /\ SiteAlter(t) \/ \E o \in {"none", "foreign"} : SitePut(t, o)
    /\ UNCHANGED <<disk, tx, proc, bounds>>

Environment ==
    \/ \E m \in Mode : Start(m)
    \/ Kill \/ PowerLoss \/ StoreWriteback
    \/ \E t \in Targets : Writeback(t) \/ Site(t)

Next == Helper \/ Environment

Spec == Init /\ [][Next]_vars

\* The scheduler runs a helper that was started; nothing obliges anyone to
\* start one, or the disk to write anything back.
FairSpec == Spec /\ WF_vars(Helper)

-----------------------------------------------------------------------------
(* Properties.                                                             *)

FilesOK ==
    /\ live \in [Targets -> Entry] /\ liveDisk \in [Targets -> Entry]
    /\ quar \in [Targets -> Entry] /\ quarDisk \in [Targets -> Entry]
    /\ perm \in [Targets -> Perm] /\ permDisk \in [Targets -> Perm]

SiteOK ==
    /\ altered \subseteq Targets /\ taken \subseteq Targets
    /\ sites \in 0 .. MaxSite

TransactionOK ==
    /\ store \in Store /\ storeDisk \in Store
    /\ journal \subseteq ({"BEGIN", "MOVED", "COMMITTED", "COMPENSATED"} \X Nat)

ProcessOK ==
    /\ mode \in Mode /\ pc \in Pc /\ i \in 0 .. N
    /\ moved \subseteq Targets
    /\ result \in Result /\ direction \in {"out", "back"}

BoundsOK ==
    /\ faults \in 0 .. MaxFaults /\ faultsBefore \in 0 .. faults
    /\ crashes \in 0 .. MaxCrashes
    /\ runs \in 0 .. MaxRuns

TypeOK == FilesOK /\ SiteOK /\ TransactionOK /\ ProcessOK /\ BoundsOK

\* The bytes of a target the site did not take away always have a name, and
\* still have one if power is lost now: quarantine and rollback delete nothing
\* (NATIVE-EXACT-FILE-QUARANTINE.md, "Neither quarantine nor rollback
\* permanently deletes bytes").  The order of the two fsyncs decides this.
NoTargetLost ==
    \A t \in Targets :
        t \in taken \/ (Names(live[t], quar[t], "orig") /\ Names(liveDisk[t], quarDisk[t], "orig"))

\* As long as the receipt of an apply is the last word, no crash takes any
\* target out of the quarantine or gives it back its permissions.
AppliedDurably ==
    mode = "apply" /\ result = "QUARANTINED_EXACT" =>
        \A t \in Targets :
            /\ quar[t] = "orig" /\ quarDisk[t] = "orig"
            /\ live[t] # "orig" /\ liveDisk[t] # "orig"
            /\ perm[t] = "q0400" /\ permDisk[t] = "q0400"

\* A process that reports a restored target: rollback and reconcile by their
\* receipts, apply by the exit code that claims an exact compensation.
ReportsRestored ==
    \/ mode = "rollback" /\ result = "ORIGINAL_EXACT"
    \/ mode = "reconcile-rollback" /\ result = "ORIGINAL_EXACT_RECONCILED"
    \/ mode = "apply" /\ result = "FAILED"

\* What a process reports as restored is back for good: nothing of it is left
\* in quarantine, with its own permissions, whatever crash comes later.
RestoredDurably ==
    ReportsRestored =>
        \A t \in Targets :
            Restores(t) /\ t \notin taken =>
                /\ live[t] = "orig" /\ liveDisk[t] = "orig"
                /\ quar[t] = "none" /\ quarDisk[t] = "none"
                /\ perm[t] = "orig" /\ permDisk[t] = "orig"

\* Write-ahead: whenever the quarantine directory holds a target, now or after
\* a loss of power, both manifests are there for the follow-up modes to bind.
LeavesRecoverable ==
    \A t \in Targets :
        quar[t] # "none" \/ quarDisk[t] # "none" =>
            store = "bound" /\ storeDisk = "bound"

\* The journal never runs ahead of the disk: until someone starts to put
\* targets back, a target recorded as moved is durably in quarantine ("A
\* durable journal records each committed target").
JournalFaithful ==
    direction = "out" =>
        \A t \in Targets :
            <<"MOVED", t>> \in journal =>
                /\ quarDisk[t] = "orig" /\ liveDisk[t] # "orig"
                /\ permDisk[t] = "q0400"

\* Whatever kills and losses of power did to apply, rollback or an earlier
\* reconciliation, reconcile-rollback accepts what they left behind: it fails
\* only when a call of its own fails, the site interfered, or no manifest was
\* bound (and then nothing was moved).
ReconcileAcceptsCrashes ==
    mode = "reconcile-rollback" /\ result \in {"PARTIAL", "FAILED"} =>
        faults > faultsBefore \/ sites > 0 \/ store # "bound"

\* While rollback restores, the targets it has passed are home and the others
\* are exact in quarantine, unless the site interferes: it never works on a
\* mixed set, which is left to reconcile-rollback.
RollbackIsUniform ==
    mode = "rollback" /\ pc \in RestorePc /\ sites = 0 =>
        \A t \in Targets :
            /\ t < i => ExactQuarantined(t)
            /\ t > i => ExactLive(t)

\* A restore or a move never replaces an object the manifest does not name:
\* it stays under its name or is the one that was moved.
ForeignPreserved ==
    [][sites' = sites /\ crashes' = crashes =>
        \A t \in Targets :
            /\ live[t] = "foreign" => Names(live'[t], quar'[t], "foreign")
            /\ quar[t] = "foreign" => quar'[t] = "foreign"]_vars

\* A helper that was started ends, whatever fails in it.
HelperEnds == pc # "idle" ~> pc = "idle"

\* NATIVE-EXACT-FILE-QUARANTINE.md: "Failure triggers reverse-order exact
\* compensation."  An apply that ended as partial has at least tried it.
FailureCompensates == mode = "apply" /\ result = "PARTIAL" => direction = "back"

\* A set reported as ORIGINAL_EXACT_RECONCILED stays as reported.
ReconciledStays ==
    mode = "reconcile-rollback" /\ result = "ORIGINAL_EXACT_RECONCILED" =>
        \A t \in Targets : t \in taken \/ live[t] = "orig"

=============================================================================
