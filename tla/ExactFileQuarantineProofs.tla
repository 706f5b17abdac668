---------------------- MODULE ExactFileQuarantineProofs ----------------------
(***************************************************************************)
(* Theorems of ExactFileQuarantine, for every number of targets and every  *)
(* bound on runs, faults, crashes and interferences; the last one is that  *)
(* it implements the contract of the quarantine.                           *)
(***************************************************************************)
EXTENDS QuarantineRefinement, TLAPS

USE TargetsAssumption, BoundsAssumption

-----------------------------------------------------------------------------
(* Type correctness, one part of TypeOK at a time.                         *)

\* restore_one decrements the loop index, so ProcessOK alone is not
\* inductive: outside the head of the reverse loop the index names a target.
ProcessInv == ProcessOK /\ (pc \notin {"idle", "undo"} => i \in Targets)

TypeInv == FilesOK /\ SiteOK /\ TransactionOK /\ ProcessInv /\ BoundsOK

\* The names of steps and of results, without the unions they come from.
LEMMA Labels ==
    /\ {"idle", "open", "prepare", "bind", "bindSync", "begin", "precheck",
        "observe", "check", "rename", "syncQuar", "syncLive", "protect", "verify",
        "record", "commit", "undo", "rCheck", "rPerm", "rRename", "rSyncLive",
        "rSyncQuar", "rVerify", "classify", "dupPerm", "dupUnlink", "dupSync",
        "dupVerify", "livePerm", "liveVerify"} \subseteq Pc
    /\ {"QUARANTINED_EXACT", "ORIGINAL_EXACT", "ORIGINAL_EXACT_RECONCILED", "NONE",
        "PARTIAL", "FAILED", "KILLED"} \subseteq Result
  BY DEF Pc, ForwardPc, RestorePc, ReconcilePc, Result, Receipt

LEMMA LastTarget == N \in Targets /\ 1 \in Targets
  BY DEF Targets

\* The forward loops stay among the targets.
LEMMA AdvanceTyped ==
    ASSUME i \in Targets, NEW l \in Pc, NEW d \in Pc, NEW j \in Targets, Advance(l, d, j)
    PROVE  i' \in Targets /\ pc' \in Pc /\ result' = result
  BY DEF Advance, Goto, Targets

LEMMA ProcessTyped == ProcessInv /\ [Next]_vars => ProcessInv'
  <1> SUFFICES ASSUME ProcessInv, [Next]_vars PROVE ProcessInv'
    OBVIOUS
  <1> USE Labels, LastTarget DEF ProcessInv, ProcessOK, frame, Goto, Exit, Die, Compensate, Partial
  <1>1. CASE OpenApply
    BY <1>1 DEF OpenApply, Targets
  <1>2. CASE OpenFollowUp
    BY <1>2 DEF OpenFollowUp, FirstStep, Targets
  <1>3. CASE PrepareLive
    BY <1>3 DEF PrepareLive, Advance, Targets
  <1>4. CASE BindManifests
    BY <1>4 DEF BindManifests, Targets
  <1>5. CASE SyncManifests
    BY <1>5 DEF SyncManifests, Targets
  <1>6. CASE BeginJournal
    BY <1>6 DEF BeginJournal, Targets
  <1>7. CASE CheckHeld
    BY <1>7 DEF CheckHeld, Targets
  <1>8. CASE RenameOut
    <2>1. i \in Targets
      BY <1>8 DEF RenameOut
    <2>2. moved' \subseteq Targets
      BY <1>8, <2>1 DEF RenameOut
    <2> QED
      BY <1>8, <2>1, <2>2 DEF RenameOut, Targets
  <1>9. CASE SyncQuarantine
    BY <1>9 DEF SyncQuarantine, Targets
  <1>10. CASE SyncSource
    BY <1>10 DEF SyncSource, Targets
  <1>11. CASE Protect
    BY <1>11 DEF Protect, Targets
  <1>12. CASE VerifyQuarantined
    BY <1>12 DEF VerifyQuarantined, Targets
  <1>13. CASE RecordMoved
    BY <1>13 DEF RecordMoved, Advance, Targets
  <1>14. CASE Commit
    BY <1>14 DEF Commit, Targets
  <1>15. CASE UndoNext
    BY <1>15 DEF UndoNext, Targets
  <1>16. CASE UndoDone
    BY <1>16 DEF UndoDone, Targets
  <1>17. CASE RestoreCheck
    BY <1>17 DEF RestoreCheck, Targets
  <1>18. CASE RestorePerm
    BY <1>18 DEF RestorePerm, Targets
  <1>19. CASE RestoreRename
    BY <1>19 DEF RestoreRename, Targets
  <1>20. CASE RestoreSyncLive
    BY <1>20 DEF RestoreSyncLive, Targets
  <1>21. CASE RestoreSyncQuar
    BY <1>21 DEF RestoreSyncQuar, Targets
  <1>22. CASE RestoreVerify
    BY <1>22 DEF RestoreVerify, Targets
  <1>23. CASE RollbackPrecheck
    BY <1>23 DEF RollbackPrecheck, Advance, Targets
  <1>24. CASE Classify
    <2>1. CASE ClassifyMoved
      <3>1. i' \in Targets /\ pc' \in Pc /\ result' = result
        BY <1>24, <2>1, AdvanceTyped DEF Classify, ClassifyMoved, NextTarget
      <3> QED
        BY <1>24, <2>1, <3>1 DEF Classify, ClassifyMoved, Targets
    <2>2. CASE ClassifyLive
      BY <1>24, <2>2 DEF Classify, ClassifyLive, Targets
    <2>3. CASE ClassifyThirdState
      BY <1>24, <2>3 DEF Classify, ClassifyThirdState, Targets
    <2> QED
      BY <1>24, <2>1, <2>2, <2>3 DEF Classify
  <1>25. CASE DupPerm
    BY <1>25 DEF DupPerm, Targets
  <1>26. CASE DupUnlink
    BY <1>26 DEF DupUnlink, Targets
  <1>27. CASE DupSync
    BY <1>27 DEF DupSync, Targets
  <1>28. CASE LivePerm
    BY <1>28 DEF LivePerm, Targets
  <1>29. CASE VerifyHome
    BY <1>29 DEF VerifyHome, NextTarget, Advance, Targets
  <1>30. CASE Observe
    BY <1>30 DEF Observe, ObservedReceipt, Targets
  <1>31. CASE ReadError
    BY <1>31 DEF ReadError, Targets
  <1>32. CASE \E m \in Mode : Start(m)
    BY <1>32 DEF Start, Targets
  <1>33. CASE Kill
    BY <1>33 DEF Kill, Targets
  <1>34. CASE PowerLoss
    BY <1>34 DEF PowerLoss, Targets
  <1>35. CASE StoreWriteback
    BY <1>35 DEF StoreWriteback, proc, Targets
  <1>36. CASE \E t \in Targets : Writeback(t)
    BY <1>36 DEF Writeback, proc, Targets
  <1>37. CASE \E t \in Targets : Site(t)
    BY <1>37 DEF Site, proc, Targets
  <1>38. CASE UNCHANGED vars
    BY <1>38 DEF vars, proc
  <1> QED
    BY <1>1, <1>2, <1>3, <1>4, <1>5, <1>6, <1>7, <1>8, <1>9, <1>10, <1>11, <1>12, <1>13, <1>14, <1>15, <1>16, <1>17, <1>18, <1>19, <1>20, <1>21, <1>22, <1>23, <1>24, <1>25, <1>26, <1>27, <1>28, <1>29, <1>30, <1>31, <1>32, <1>33, <1>34, <1>35, <1>36, <1>37, <1>38 DEF Next, Helper, Environment


\* The steps of the helper that write to the file system; the others leave
\* every name, permission and disk image alone.
FileStep ==
    \/ RenameOut \/ SyncQuarantine \/ SyncSource \/ Protect
    \/ RestorePerm \/ RestoreRename \/ RestoreSyncLive \/ RestoreSyncQuar
    \/ DupPerm \/ DupUnlink \/ DupSync \/ LivePerm

LEMMA OtherStepsKeepFiles ==
    ASSUME Helper, ~FileStep
    PROVE  UNCHANGED fs
  BY DEF FileStep, Helper, OpenApply, OpenFollowUp, PrepareLive, BindManifests, SyncManifests, BeginJournal, CheckHeld, VerifyQuarantined, RecordMoved, Commit, UndoNext, UndoDone, RestoreCheck, RestoreVerify, RollbackPrecheck, Classify, VerifyHome, Observe, ReadError

LEMMA FilesTyped == FilesOK /\ ProcessInv /\ [Next]_vars => FilesOK'
  <1> SUFFICES ASSUME FilesOK, ProcessInv, [Next]_vars PROVE FilesOK'
    OBVIOUS
  <1> USE DEF FilesOK, Entry, Perm, fs, mem, disk, SetNames, SetPerm, MaybePerm,
              SyncLiveDir, SyncQuarDir
  <1>1. CASE UNCHANGED fs
    BY <1>1
  <1>2. CASE RenameOut
    BY <1>2 DEF RenameOut
  <1>3. CASE SyncQuarantine
    BY <1>3 DEF SyncQuarantine
  <1>4. CASE SyncSource
    BY <1>4 DEF SyncSource
  <1>5. CASE Protect
    BY <1>5 DEF Protect
  <1>6. CASE RestorePerm
    BY <1>6 DEF RestorePerm
  <1>7. CASE RestoreRename
    BY <1>7 DEF RestoreRename
  <1>8. CASE RestoreSyncLive
    BY <1>8 DEF RestoreSyncLive
  <1>9. CASE RestoreSyncQuar
    BY <1>9 DEF RestoreSyncQuar
  <1>10. CASE DupPerm
    BY <1>10 DEF DupPerm
  <1>11. CASE DupUnlink
    BY <1>11 DEF DupUnlink
  <1>12. CASE DupSync
    BY <1>12 DEF DupSync
  <1>13. CASE LivePerm
    BY <1>13 DEF LivePerm
  <1>14. CASE PowerLoss
    BY <1>14 DEF PowerLoss
  <1>15. CASE \E t \in Targets : Writeback(t)
    BY <1>15 DEF Writeback, Between
  <1>16. CASE \E t \in Targets : Site(t)
    BY <1>16 DEF Site, SiteAlter, SitePut
  <1>17. CASE UNCHANGED vars \/ Kill \/ StoreWriteback \/ \E m \in Mode : Start(m)
    BY <1>17 DEF vars, Kill, StoreWriteback, Start
  <1> QED
    BY <1>1, <1>2, <1>3, <1>4, <1>5, <1>6, <1>7, <1>8, <1>9, <1>10, <1>11, <1>12, <1>13, <1>14, <1>15, <1>16, <1>17, OtherStepsKeepFiles DEF Next, FileStep, Environment

\* The steps of the helper that write the transaction's own records.
RecordStep ==
    \/ OpenApply \/ BindManifests \/ SyncManifests \/ BeginJournal
    \/ RecordMoved \/ Commit \/ UndoDone

LEMMA OtherStepsKeepRecords ==
    ASSUME Helper, ~RecordStep
    PROVE  UNCHANGED tx
  BY DEF RecordStep, Helper, OpenFollowUp, PrepareLive, CheckHeld, RenameOut, SyncQuarantine, SyncSource, Protect, VerifyQuarantined, UndoNext, RestoreCheck, RestorePerm, RestoreRename, RestoreSyncLive, RestoreSyncQuar, RestoreVerify, RollbackPrecheck, Classify, DupPerm, DupUnlink, DupSync, LivePerm, VerifyHome, Observe, ReadError

LEMMA TransactionTyped == TransactionOK /\ ProcessInv /\ [Next]_vars => TransactionOK'
  <1> SUFFICES ASSUME TransactionOK, ProcessInv, [Next]_vars PROVE TransactionOK'
    OBVIOUS
  <1> USE DEF TransactionOK, Store, JournalRow, MaybeJournalRow
  <1>1. CASE UNCHANGED tx
    BY <1>1 DEF tx
  <1>2. CASE OpenApply
    BY <1>2 DEF OpenApply, ProcessInv, ProcessOK
  <1>3. CASE BindManifests
    BY <1>3 DEF BindManifests, ProcessInv, ProcessOK
  <1>4. CASE SyncManifests
    BY <1>4 DEF SyncManifests, ProcessInv, ProcessOK
  <1>5. CASE BeginJournal
    BY <1>5 DEF BeginJournal, ProcessInv, ProcessOK
  <1>6. CASE RecordMoved
    BY <1>6 DEF RecordMoved, ProcessInv, ProcessOK
  <1>7. CASE Commit
    BY <1>7 DEF Commit, ProcessInv, ProcessOK
  <1>8. CASE UndoDone
    BY <1>8 DEF UndoDone, ProcessInv, ProcessOK
  <1>9. CASE PowerLoss \/ StoreWriteback
    BY <1>9 DEF PowerLoss, StoreWriteback
  <1>10. CASE \/ UNCHANGED vars \/ Kill \/ \E m \in Mode : Start(m)
             \/ \E t \in Targets : Writeback(t) \/ Site(t)
    BY <1>10 DEF vars, tx, Kill, Start, Writeback, Site
  <1> QED
    BY <1>1, <1>2, <1>3, <1>4, <1>5, <1>6, <1>7, <1>8, <1>9, <1>10, OtherStepsKeepRecords DEF Next, RecordStep, Environment

LEMMA HelperKeepsFrame == Helper => UNCHANGED frame
  BY DEF Helper, OpenApply, OpenFollowUp, PrepareLive, BindManifests, SyncManifests, BeginJournal, CheckHeld, RenameOut, SyncQuarantine, SyncSource, Protect, VerifyQuarantined, RecordMoved, Commit, UndoNext, UndoDone, RestoreCheck, RestorePerm, RestoreRename, RestoreSyncLive, RestoreSyncQuar, RestoreVerify, RollbackPrecheck, Classify, DupPerm, DupUnlink, DupSync, LivePerm, VerifyHome, Observe, ReadError

LEMMA SiteTyped == SiteOK /\ [Next]_vars => SiteOK'
  <1> SUFFICES ASSUME SiteOK, [Next]_vars PROVE SiteOK'
    OBVIOUS
  <1>1. CASE UNCHANGED site
    BY <1>1 DEF SiteOK, site
  <1>2. ASSUME NEW t \in Targets, Site(t) PROVE SiteOK'
    BY <1>2 DEF SiteOK, Site, SiteAlter, SitePut
  <1>3. CASE Helper
    BY <1>1, <1>3, HelperKeepsFrame DEF frame
  <1> QED
    BY <1>1, <1>2, <1>3
    DEF Next, Environment, Start, Kill, PowerLoss, StoreWriteback, Writeback, vars

LEMMA HelperFaults == Helper => NoFault \/ Fault
  BY DEF Helper, Accepts, Refuses, ClassifyMoved, ClassifyLive, ClassifyThirdState, OpenApply, OpenFollowUp, PrepareLive, BindManifests, SyncManifests, BeginJournal, CheckHeld, RenameOut, SyncQuarantine, SyncSource, Protect, VerifyQuarantined, RecordMoved, Commit, UndoNext, UndoDone, RestoreCheck, RestorePerm, RestoreRename, RestoreSyncLive, RestoreSyncQuar, RestoreVerify, RollbackPrecheck, Classify, DupPerm, DupUnlink, DupSync, LivePerm, VerifyHome, Observe, ReadError

LEMMA BoundsTyped == BoundsOK /\ [Next]_vars => BoundsOK'
  <1> SUFFICES ASSUME BoundsOK, [Next]_vars PROVE BoundsOK'
    OBVIOUS
  <1> USE DEF BoundsOK
  <1>1. CASE Helper
    BY <1>1, HelperKeepsFrame, HelperFaults DEF frame, NoFault, Fault
  <1>2. CASE \E m \in Mode : Start(m)
    BY <1>2 DEF Start
  <1>3. CASE Kill \/ PowerLoss
    BY <1>3 DEF Kill, PowerLoss
  <1>4. CASE StoreWriteback \/ (\E t \in Targets : Writeback(t) \/ Site(t)) \/ UNCHANGED vars
    BY <1>4 DEF StoreWriteback, Writeback, Site, vars, bounds
  <1> QED
    BY <1>1, <1>2, <1>3, <1>4 DEF Next, Environment

LEMMA InitTyped == Init => TypeInv
  BY DEF Init, TypeInv, FilesOK, SiteOK, TransactionOK, ProcessInv, ProcessOK, BoundsOK,
         Targets, Entry, Perm, Store, Mode, Pc, Result

LEMMA TypeKept == TypeInv /\ [Next]_vars => TypeInv'
  BY ProcessTyped, FilesTyped, TransactionTyped, SiteTyped, BoundsTyped DEF TypeInv

\* ExactFileQuarantine is type correct.
THEOREM TypeCorrect == Spec => []TypeOK
  <1>1. Init => TypeInv
    BY InitTyped
  <1>2. TypeInv /\ [Next]_vars => TypeInv'
    BY TypeKept
  <1>3. TypeInv => TypeOK
    BY DEF TypeInv, TypeOK, ProcessInv
  <1> QED
    BY <1>1, <1>2, <1>3, PTL DEF Spec

-----------------------------------------------------------------------------
(* Write-ahead: the manifests are bound before the first target leaves.    *)

\* What each step of apply knows of the quarantine root.
BindingOrder ==
    /\ pc \in {"prepare", "bind"} => store = "created"
    /\ pc \in {"bindSync", "begin"} \cup ForwardPc => store = "bound"
    /\ pc \in {"begin"} \cup ForwardPc => storeDisk = "bound"

RecoverableInv == LeavesRecoverable /\ BindingOrder


\* The first moves of apply come with the manifests durable; afterwards no
\* step of the helper touches them.
LEMMA RecoverableKept == TypeInv /\ RecoverableInv /\ [Next]_vars => RecoverableInv'
  <1> SUFFICES ASSUME TypeInv, RecoverableInv, [Next]_vars PROVE RecoverableInv'
    OBVIOUS
  <1> USE DEF RecoverableInv, LeavesRecoverable, BindingOrder, ForwardPc,
              Goto, Exit, Die, Compensate, Partial, fs, mem, disk, tx
  <1>1. CASE OpenApply
    <2>1. UNCHANGED <<quar, quarDisk>>
      BY <1>1 DEF OpenApply
    <2>2. CASE pc' = "prepare"
      BY <1>1, <2>1, <2>2 DEF OpenApply, Accepts
    <2>3. CASE pc' = "idle" /\ store = "absent"
      BY <2>1, <2>3
    <2>4. CASE pc' = "idle" /\ store # "absent"
      BY <1>1, <2>1, <2>4 DEF OpenApply
    <2> QED
      BY <1>1, <2>2, <2>3, <2>4 DEF OpenApply
  <1>2. CASE BindManifests
    BY <1>2 DEF BindManifests
  <1>3. CASE SyncManifests
    BY <1>3 DEF SyncManifests
  <1>4. CASE BeginJournal
    BY <1>4 DEF BeginJournal
  <1>5. CASE PrepareLive
    BY <1>5 DEF PrepareLive, Advance
  <1> USE DEF SetNames, SetPerm, MaybePerm, SyncLiveDir, SyncQuarDir, TypeInv, FilesOK,
              ProcessInv
  <1>6. CASE RenameOut
    BY <1>6 DEF RenameOut
  <1>7. CASE SyncQuarantine
    BY <1>7 DEF SyncQuarantine
  <1>8. CASE SyncSource
    BY <1>8 DEF SyncSource
  <1>9. CASE Protect
    BY <1>9 DEF Protect
  <1>10. CASE RestorePerm
    BY <1>10 DEF RestorePerm
  <1>11. CASE RestoreRename
    BY <1>11 DEF RestoreRename
  <1>12. CASE RestoreSyncLive
    BY <1>12 DEF RestoreSyncLive
  <1>13. CASE RestoreSyncQuar
    BY <1>13 DEF RestoreSyncQuar
  <1>14. CASE DupPerm
    BY <1>14 DEF DupPerm
  <1>15. CASE DupUnlink
    BY <1>15 DEF DupUnlink
  <1>16. CASE DupSync
    BY <1>16 DEF DupSync
  <1>17. CASE LivePerm
    BY <1>17 DEF LivePerm
  <1>18. CASE OpenFollowUp
    BY <1>18 DEF OpenFollowUp, FirstStep
  <1>19. CASE CheckHeld
    BY <1>19 DEF CheckHeld
  <1>20. CASE VerifyQuarantined
    BY <1>20 DEF VerifyQuarantined
  <1>21. CASE RecordMoved
    BY <1>21 DEF RecordMoved, Advance
  <1>22. CASE Commit
    BY <1>22 DEF Commit
  <1>23. CASE UndoNext
    BY <1>23 DEF UndoNext
  <1>24. CASE UndoDone
    BY <1>24 DEF UndoDone
  <1>25. CASE RestoreCheck
    BY <1>25 DEF RestoreCheck
  <1>26. CASE RestoreVerify
    BY <1>26 DEF RestoreVerify
  <1>27. CASE RollbackPrecheck
    BY <1>27 DEF RollbackPrecheck, Advance
  <1>28. CASE Classify
    BY <1>28 DEF Classify, ClassifyMoved, ClassifyLive, ClassifyThirdState, NextTarget, Advance
  <1>29. CASE VerifyHome
    BY <1>29 DEF VerifyHome, NextTarget, Advance
  <1>30. CASE Observe
    BY <1>30 DEF Observe
  <1>31. CASE ReadError
    BY <1>31 DEF ReadError
  <1>32. CASE PowerLoss
    BY <1>32 DEF PowerLoss
  <1>33. CASE \E t \in Targets : Writeback(t)
    BY <1>33 DEF Writeback, Between, proc
  <1>34. CASE \E t \in Targets : Site(t)
    BY <1>34 DEF Site, SiteAlter, SitePut, proc
  <1>35. CASE Kill \/ StoreWriteback \/ \E m \in Mode : Start(m)
    BY <1>35 DEF Kill, StoreWriteback, Start, proc
  <1>36. CASE UNCHANGED vars
    BY <1>36 DEF vars, proc
  <1> QED
    BY <1>1, <1>2, <1>3, <1>4, <1>5, <1>6, <1>7, <1>8, <1>9, <1>10, <1>11, <1>12, <1>13, <1>14, <1>15, <1>16, <1>17, <1>18, <1>19, <1>20, <1>21, <1>22, <1>23, <1>24, <1>25, <1>26, <1>27, <1>28, <1>29, <1>30, <1>31, <1>32, <1>33, <1>34, <1>35, <1>36 DEF Next, Helper, Environment

\* Whenever the quarantine holds a target, the follow-up modes can bind the
\* manifests it was moved under.
THEOREM AlwaysRecoverable == Spec => []LeavesRecoverable
  <1>1. Init => TypeInv /\ RecoverableInv
    BY InitTyped DEF Init, RecoverableInv, LeavesRecoverable, BindingOrder, ForwardPc
  <1>2. TypeInv /\ RecoverableInv /\ [Next]_vars => (TypeInv /\ RecoverableInv)'
    BY TypeKept, RecoverableKept
  <1>3. RecoverableInv => LeavesRecoverable
    BY DEF RecoverableInv
  <1> QED
    BY <1>1, <1>2, <1>3, PTL DEF Spec

-----------------------------------------------------------------------------
(* No target is lost.                                                      *)

\* A move has put the object where it goes before either directory is synced,
\* and has made it durable there before the old entry is made to disappear.
MoveOrder ==
    i \notin taken =>
        /\ pc \in {"syncQuar", "syncLive"} => quar[i] = "orig"
        /\ pc = "syncLive" => quarDisk[i] = "orig"
        /\ pc \in {"rSyncLive", "rSyncQuar"} => live[i] = "orig"
        /\ pc = "rSyncQuar" => liveDisk[i] = "orig"
        /\ pc \in {"dupPerm", "dupUnlink", "dupSync"} =>
                live[i] = "orig" /\ liveDisk[i] = "orig"

\* Both names hold the object only after a loss of power left it so, and then
\* the live one is on disk: reconcile may unlink the other.
DuplicateDurable ==
    \A t \in Targets \ taken :
        live[t] = "orig" /\ quar[t] = "orig" => liveDisk[t] = "orig"

NamesInv == NoTargetLost /\ MoveOrder /\ DuplicateDurable

\* The steps after which the loop index is being moved, and how they begin.
MovePc == {"syncQuar", "syncLive", "rSyncLive", "rSyncQuar", "dupPerm", "dupUnlink", "dupSync"}

LEMMA OtherStepsEndNoMove ==
    ASSUME Helper, ~FileStep, ~Classify
    PROVE  pc' \notin MovePc
  BY DEF MovePc, FileStep, Helper, Goto, Exit, Die, Compensate, Partial, Advance, NextTarget,
         FirstStep, OpenApply, OpenFollowUp, PrepareLive, BindManifests, SyncManifests, BeginJournal, CheckHeld, VerifyQuarantined, RecordMoved, Commit, UndoNext, UndoDone, RestoreCheck, RestoreVerify, RollbackPrecheck, VerifyHome, Observe, ReadError

LEMMA NamesKept == TypeInv /\ NamesInv /\ [Next]_vars => NamesInv'
  <1> SUFFICES ASSUME TypeInv, NamesInv, [Next]_vars PROVE NamesInv'
    OBVIOUS
  <1> USE DEF NamesInv, NoTargetLost, MoveOrder, DuplicateDurable, Names,
              TypeInv, FilesOK, ProcessInv, Goto, Exit, Compensate, Partial, frame, site,
              SetNames, SetPerm, MaybePerm, SyncLiveDir, SyncQuarDir, fs, mem, disk
  <1>1. CASE RenameOut
    BY <1>1 DEF RenameOut, Accepts
  <1>2. CASE SyncQuarantine
    BY <1>2 DEF SyncQuarantine
  <1>3. CASE SyncSource
    BY <1>3 DEF SyncSource
  <1>4. CASE Protect
    BY <1>4 DEF Protect
  <1>5. CASE RestorePerm
    BY <1>5 DEF RestorePerm
  <1>6. CASE RestoreRename
    BY <1>6 DEF RestoreRename, Accepts
  <1>7. CASE RestoreSyncLive
    BY <1>7 DEF RestoreSyncLive
  <1>8. CASE RestoreSyncQuar
    BY <1>8 DEF RestoreSyncQuar
  <1>9. CASE DupPerm
    BY <1>9 DEF DupPerm
  <1>10. CASE DupUnlink
    BY <1>10 DEF DupUnlink
  <1>11. CASE DupSync
    BY <1>11 DEF DupSync
  <1>12. CASE LivePerm
    BY <1>12 DEF LivePerm
  <1>13. CASE Classify
    BY <1>13 DEF Classify, ClassifyMoved, ClassifyLive, ClassifyThirdState, NextTarget, Advance, CrashExactLive, CrashExactQuarantined
  <1>14. CASE Helper /\ ~FileStep /\ ~Classify
    BY <1>14, OtherStepsKeepFiles, OtherStepsEndNoMove, HelperKeepsFrame DEF MovePc
  <1>15. CASE PowerLoss
    BY <1>15 DEF PowerLoss
  <1>16. CASE \E t \in Targets : Writeback(t)
    BY <1>16 DEF Writeback, Between, proc
  <1>17. CASE \E t \in Targets : Site(t)
    BY <1>17 DEF Site, SiteAlter, SitePut, proc
  <1>18. CASE Kill \/ StoreWriteback \/ \E m \in Mode : Start(m)
    BY <1>18 DEF Kill, StoreWriteback, Start, proc
  <1>19. CASE UNCHANGED vars
    BY <1>19 DEF vars, proc
  <1> QED
    BY <1>1, <1>2, <1>3, <1>4, <1>5, <1>6, <1>7, <1>8, <1>9, <1>10, <1>11, <1>12, <1>13, <1>14, <1>15, <1>16, <1>17, <1>18, <1>19 DEF Next, FileStep, Environment

\* The bytes of a target keep a name, now and after a loss of power, unless the
\* site itself takes the live name away.
THEOREM NothingLost == Spec => []NoTargetLost
  <1>1. Init => TypeInv /\ NamesInv
    BY InitTyped DEF Init, NamesInv, NoTargetLost, MoveOrder, DuplicateDurable, Names
  <1>2. TypeInv /\ NamesInv /\ [Next]_vars => (TypeInv /\ NamesInv)'
    BY TypeKept, NamesKept
  <1>3. NamesInv => NoTargetLost
    BY DEF NamesInv
  <1> QED
    BY <1>1, <1>2, <1>3, PTL DEF Spec

-----------------------------------------------------------------------------
(* What a step knows of its process, and what it leaves alone.             *)

\* Which mode a step belongs to, and what a process has said: nothing while it
\* runs.  Whoever works on the way back has said so in direction.
PhaseInv ==
    /\ result # "NONE" => pc = "idle"
    /\ pc = "open" => i = 1 /\ moved = {}
    /\ pc \in {"prepare", "bind", "bindSync", "begin"} \cup ForwardPc => mode = "apply"
    /\ pc = "precheck" => mode = "rollback"
    /\ pc \in ReconcilePc => mode = "reconcile-rollback"
    /\ pc = "observe" => mode \in {"observe-quarantined", "observe-original"}
    /\ pc \in RestorePc => mode \in {"apply", "rollback", "reconcile-rollback"}
    /\ pc \in RestorePc \cup ReconcilePc => direction = "back"

LEMMA PhaseKept == TypeInv /\ PhaseInv /\ [Next]_vars => PhaseInv'
  <1> SUFFICES ASSUME TypeInv, PhaseInv, [Next]_vars PROVE PhaseInv'
    OBVIOUS
  <1> USE DEF PhaseInv, TypeInv, ProcessInv, ForwardPc, RestorePc, ReconcilePc, frame,
              Goto, Exit, Die, Compensate, Partial, Targets, Mode, ProcessOK
  <1>1. CASE OpenApply
    BY <1>1 DEF OpenApply
  <1>2. CASE OpenFollowUp
    BY <1>2 DEF OpenFollowUp, FirstStep
  <1>3. CASE PrepareLive
    BY <1>3 DEF PrepareLive, Advance
  <1>4. CASE BindManifests
    BY <1>4 DEF BindManifests
  <1>5. CASE SyncManifests
    BY <1>5 DEF SyncManifests
  <1>6. CASE BeginJournal
    BY <1>6 DEF BeginJournal
  <1>7. CASE CheckHeld
    BY <1>7 DEF CheckHeld
  <1>8. CASE RenameOut
    BY <1>8 DEF RenameOut
  <1>9. CASE SyncQuarantine
    BY <1>9 DEF SyncQuarantine
  <1>10. CASE SyncSource
    BY <1>10 DEF SyncSource
  <1>11. CASE Protect
    BY <1>11 DEF Protect
  <1>12. CASE VerifyQuarantined
    BY <1>12 DEF VerifyQuarantined
  <1>13. CASE RecordMoved
    BY <1>13 DEF RecordMoved, Advance
  <1>14. CASE Commit
    BY <1>14 DEF Commit
  <1>15. CASE UndoNext
    BY <1>15 DEF UndoNext
  <1>16. CASE UndoDone
    BY <1>16 DEF UndoDone
  <1>17. CASE RestoreCheck
    BY <1>17 DEF RestoreCheck
  <1>18. CASE RestorePerm
    BY <1>18 DEF RestorePerm
  <1>19. CASE RestoreRename
    BY <1>19 DEF RestoreRename
  <1>20. CASE RestoreSyncLive
    BY <1>20 DEF RestoreSyncLive
  <1>21. CASE RestoreSyncQuar
    BY <1>21 DEF RestoreSyncQuar
  <1>22. CASE RestoreVerify
    BY <1>22 DEF RestoreVerify
  <1>23. CASE RollbackPrecheck
    BY <1>23 DEF RollbackPrecheck, Advance
  <1>24. CASE Classify
    BY <1>24 DEF Classify, ClassifyMoved, ClassifyLive, ClassifyThirdState, NextTarget, Advance
  <1>25. CASE DupPerm
    BY <1>25 DEF DupPerm
  <1>26. CASE DupUnlink
    BY <1>26 DEF DupUnlink
  <1>27. CASE DupSync
    BY <1>27 DEF DupSync
  <1>28. CASE LivePerm
    BY <1>28 DEF LivePerm
  <1>29. CASE VerifyHome
    BY <1>29 DEF VerifyHome, NextTarget, Advance
  <1>30. CASE Observe
    BY <1>30 DEF Observe
  <1>31. CASE ReadError
    BY <1>31 DEF ReadError
  <1>32. CASE Kill \/ PowerLoss
    BY <1>32 DEF Kill, PowerLoss
  <1>33. CASE \E m \in Mode : Start(m)
    BY <1>33 DEF Start
  <1>34. CASE StoreWriteback \/ \E t \in Targets : Writeback(t) \/ Site(t)
    BY <1>34 DEF StoreWriteback, Writeback, Site, proc
  <1>35. CASE UNCHANGED vars
    BY <1>35 DEF vars, proc
  <1> QED
    BY <1>1, <1>2, <1>3, <1>4, <1>5, <1>6, <1>7, <1>8, <1>9, <1>10, <1>11, <1>12, <1>13, <1>14, <1>15, <1>16, <1>17, <1>18, <1>19, <1>20, <1>21, <1>22, <1>23, <1>24, <1>25, <1>26, <1>27, <1>28, <1>29, <1>30, <1>31, <1>32, <1>33, <1>34, <1>35 DEF Next, Helper, Environment

\* A step of the helper writes to the target of its loop index only.
LEMMA OnlyIndexWritten ==
    ASSUME TypeInv, Helper, NEW t \in Targets, t # i
    PROVE  /\ live'[t] = live[t] /\ quar'[t] = quar[t] /\ perm'[t] = perm[t]
           /\ liveDisk'[t] = liveDisk[t] /\ quarDisk'[t] = quarDisk[t]
           /\ permDisk'[t] = permDisk[t]
  <1> USE DEF TypeInv, FilesOK, ProcessInv, fs, mem, disk, SetNames, SetPerm, MaybePerm,
              SyncLiveDir, SyncQuarDir
  <1>1. CASE ~FileStep
    BY <1>1, OtherStepsKeepFiles
  <1>2. CASE RenameOut \/ RestoreRename \/ DupUnlink
    BY <1>2 DEF RenameOut, RestoreRename, DupUnlink
  <1>3. CASE SyncQuarantine \/ SyncSource \/ RestoreSyncLive \/ RestoreSyncQuar \/ DupSync
    BY <1>3 DEF SyncQuarantine, SyncSource, RestoreSyncLive, RestoreSyncQuar, DupSync
  <1>4. CASE Protect \/ RestorePerm \/ DupPerm \/ LivePerm
    BY <1>4 DEF Protect, RestorePerm, DupPerm, LivePerm
  <1> QED
    BY <1>1, <1>2, <1>3, <1>4 DEF FileStep

\* A process has said nothing while it runs.
LEMMA RunningReportsNothing ==
    ASSUME PhaseInv, Helper
    PROVE  result = "NONE"
  BY DEF PhaseInv, Helper, OpenApply, OpenFollowUp, PrepareLive, BindManifests, SyncManifests, BeginJournal, CheckHeld, RenameOut, SyncQuarantine, SyncSource, Protect, VerifyQuarantined, RecordMoved, Commit, UndoNext, UndoDone, RestoreCheck, RestorePerm, RestoreRename, RestoreSyncLive, RestoreSyncQuar, RestoreVerify, RollbackPrecheck, Classify, DupPerm, DupUnlink, DupSync, LivePerm, VerifyHome, Observe, ReadError

-----------------------------------------------------------------------------
(* No foreign object is displaced.                                         *)

\* The object about to be renamed or unlinked from the quarantine is the bound
\* one: it was tested, and nobody else reaches the directory.
HeldOrig == pc \in {"rPerm", "rRename", "dupPerm", "dupUnlink"} => quar[i] = "orig"

LEMMA HeldKept == TypeInv /\ HeldOrig /\ [Next]_vars => HeldOrig'
  <1> SUFFICES ASSUME TypeInv, HeldOrig, [Next]_vars PROVE HeldOrig'
    OBVIOUS
  <1> USE DEF HeldOrig, TypeInv, FilesOK, ProcessInv, fs, mem, disk, SetNames, SetPerm, MaybePerm,
              SyncLiveDir, SyncQuarDir, Goto, Exit, Die, Compensate, Partial
  <1>1. CASE OpenApply
    BY <1>1 DEF OpenApply
  <1>2. CASE OpenFollowUp
    BY <1>2 DEF OpenFollowUp, FirstStep
  <1>3. CASE PrepareLive
    BY <1>3 DEF PrepareLive, Advance
  <1>4. CASE BindManifests
    BY <1>4 DEF BindManifests
  <1>5. CASE SyncManifests
    BY <1>5 DEF SyncManifests
  <1>6. CASE BeginJournal
    BY <1>6 DEF BeginJournal
  <1>7. CASE CheckHeld
    BY <1>7 DEF CheckHeld
  <1>8. CASE RenameOut
    BY <1>8 DEF RenameOut
  <1>9. CASE SyncQuarantine
    BY <1>9 DEF SyncQuarantine
  <1>10. CASE SyncSource
    BY <1>10 DEF SyncSource
  <1>11. CASE Protect
    BY <1>11 DEF Protect
  <1>12. CASE VerifyQuarantined
    BY <1>12 DEF VerifyQuarantined
  <1>13. CASE RecordMoved
    BY <1>13 DEF RecordMoved, Advance
  <1>14. CASE Commit
    BY <1>14 DEF Commit
  <1>15. CASE UndoNext
    BY <1>15 DEF UndoNext
  <1>16. CASE UndoDone
    BY <1>16 DEF UndoDone
  <1>17. CASE RestoreCheck
    BY <1>17 DEF RestoreCheck, Accepts, RecoverableQuarantined
  <1>18. CASE RestorePerm
    BY <1>18 DEF RestorePerm
  <1>19. CASE RestoreRename
    BY <1>19 DEF RestoreRename
  <1>20. CASE RestoreSyncLive
    BY <1>20 DEF RestoreSyncLive
  <1>21. CASE RestoreSyncQuar
    BY <1>21 DEF RestoreSyncQuar
  <1>22. CASE RestoreVerify
    BY <1>22 DEF RestoreVerify
  <1>23. CASE RollbackPrecheck
    BY <1>23 DEF RollbackPrecheck, Advance
  <1>24. CASE Classify
    BY <1>24 DEF Classify, ClassifyMoved, ClassifyLive, ClassifyThirdState, NextTarget, Advance, CrashExactQuarantined
  <1>25. CASE DupPerm
    BY <1>25 DEF DupPerm
  <1>26. CASE DupUnlink
    BY <1>26 DEF DupUnlink
  <1>27. CASE DupSync
    BY <1>27 DEF DupSync
  <1>28. CASE LivePerm
    BY <1>28 DEF LivePerm
  <1>29. CASE VerifyHome
    BY <1>29 DEF VerifyHome, NextTarget, Advance
  <1>30. CASE Observe
    BY <1>30 DEF Observe
  <1>31. CASE ReadError
    BY <1>31 DEF ReadError
  <1>32. CASE Environment
    BY <1>32 DEF Environment, Kill, PowerLoss, Start, StoreWriteback, Writeback, Site, SiteAlter, SitePut, proc
  <1>33. CASE UNCHANGED vars
    BY <1>33 DEF vars, fs, mem, proc
  <1> QED
    BY <1>1, <1>2, <1>3, <1>4, <1>5, <1>6, <1>7, <1>8, <1>9, <1>10, <1>11, <1>12, <1>13, <1>14, <1>15, <1>16, <1>17, <1>18, <1>19, <1>20, <1>21, <1>22, <1>23, <1>24, <1>25, <1>26, <1>27, <1>28, <1>29, <1>30, <1>31, <1>32, <1>33 DEF Next, Helper

\* The steps of the helper that change names.
LEMMA OtherStepsKeepNames ==
    ASSUME Helper, ~RenameOut, ~RestoreRename, ~DupUnlink
    PROVE  UNCHANGED <<live, quar>>
  <1>1. CASE ~FileStep
    BY <1>1, OtherStepsKeepFiles DEF fs, mem
  <1>2. CASE FileStep
    BY <1>2 DEF FileStep, SyncQuarantine, SyncSource, Protect, RestorePerm, RestoreSyncLive,
            RestoreSyncQuar, DupPerm, DupSync, LivePerm, SetPerm, MaybePerm, SyncLiveDir,
            SyncQuarDir, fs, mem
  <1> QED
    BY <1>1, <1>2

\* A move takes a free name, and takes back nothing but the bound object.
LEMMA ForeignKept ==
    ASSUME TypeInv, HeldOrig, [Next]_vars, sites' = sites, crashes' = crashes, NEW t \in Targets
    PROVE  /\ live[t] = "foreign" => Names(live'[t], quar'[t], "foreign")
           /\ quar[t] = "foreign" => quar'[t] = "foreign"
  <1> USE DEF Names
  <1>1. CASE UNCHANGED <<live, quar>>
    BY <1>1
  <1>2. CASE RenameOut
    BY <1>2 DEF RenameOut, Accepts, SetNames, TypeInv, FilesOK, fs, mem
  <1>3. CASE RestoreRename
    BY <1>3 DEF RestoreRename, Accepts, SetNames, TypeInv, FilesOK, HeldOrig, fs, mem
  <1>4. CASE DupUnlink
    BY <1>4 DEF DupUnlink, SetNames, TypeInv, FilesOK, HeldOrig, fs, mem
  <1>5. CASE Helper /\ ~RenameOut /\ ~RestoreRename /\ ~DupUnlink
    BY <1>1, <1>5, OtherStepsKeepNames
  <1>6. CASE Environment \/ UNCHANGED vars
    BY <1>1, <1>6 DEF Environment, Kill, PowerLoss, Start, StoreWriteback, Writeback, Site, vars,
            fs, mem, TypeInv, BoundsOK, SiteOK
  <1> QED
    BY <1>2, <1>3, <1>4, <1>5, <1>6 DEF Next

\* Neither a move nor a restore of the helper replaces an object the manifest
\* does not name: it stays in quarantine, or keeps a name.
THEOREM ForeignStays == Spec => ForeignPreserved
  <1>1. Init => TypeInv /\ HeldOrig
    BY InitTyped DEF Init, HeldOrig
  <1>2. TypeInv /\ HeldOrig /\ [Next]_vars => (TypeInv /\ HeldOrig)'
    BY TypeKept, HeldKept
  <1>3. TypeInv /\ HeldOrig /\ [Next]_vars =>
            [sites' = sites /\ crashes' = crashes =>
                \A t \in Targets :
                    /\ live[t] = "foreign" => Names(live'[t], quar'[t], "foreign")
                    /\ quar[t] = "foreign" => quar'[t] = "foreign"]_vars
    BY ForeignKept
  <1> QED
    BY <1>1, <1>2, <1>3, PTL DEF Spec, ForeignPreserved

-----------------------------------------------------------------------------
(* What apply reports, and what the journal says.                          *)

\* Moved and protected, now and after a loss of power.
Secured(t) ==
    /\ quar[t] = "orig" /\ quarDisk[t] = "orig"
    /\ live[t] # "orig" /\ liveDisk[t] # "orig"
    /\ perm[t] = "q0400" /\ permDisk[t] = "q0400"

\* How far the move of the loop index has come.
SecuringOrder ==
    /\ pc \in {"bind", "bindSync", "begin"} => i = 1
    /\ pc \in {"syncQuar", "syncLive", "protect", "verify", "record"} =>
            quar[i] # "none" /\ live[i] # "orig"
    /\ pc \in {"syncLive", "protect", "verify", "record"} => quarDisk[i] = quar[i]
    /\ pc \in {"protect", "verify", "record"} => liveDisk[i] # "orig"
    /\ pc \in {"verify", "record"} =>
            (quar[i] = "orig" => perm[i] = "q0400" /\ permDisk[i] = "q0400")
    /\ pc = "record" => quar[i] = "orig"

\* apply secures the targets in their order, and records none before.
SecuredInv ==
    /\ SecuringOrder
    /\ pc \in ForwardPc => \A t \in Targets : t < i => Secured(t)
    /\ pc = "commit" => \A t \in Targets : Secured(t)
    /\ mode = "apply" /\ result = "QUARANTINED_EXACT" => \A t \in Targets : Secured(t)
    /\ direction = "out" => \A t \in Targets : <<"MOVED", t>> \in journal => Secured(t)

LEMMA SecuringKept == TypeInv /\ SecuringOrder /\ [Next]_vars => SecuringOrder'
  <1> SUFFICES ASSUME TypeInv, SecuringOrder, [Next]_vars PROVE SecuringOrder'
    OBVIOUS
  <1> USE DEF SecuringOrder, TypeInv, FilesOK, ProcessInv, fs, mem, disk, SetNames, SetPerm,
              MaybePerm, SyncLiveDir, SyncQuarDir, Goto, Exit, Die, Compensate, Partial
  <1>1. CASE OpenApply
    BY <1>1 DEF OpenApply
  <1>2. CASE OpenFollowUp
    BY <1>2 DEF OpenFollowUp, FirstStep
  <1>3. CASE PrepareLive
    BY <1>3 DEF PrepareLive, Advance
  <1>4. CASE BindManifests
    BY <1>4 DEF BindManifests
  <1>5. CASE SyncManifests
    BY <1>5 DEF SyncManifests
  <1>6. CASE BeginJournal
    BY <1>6 DEF BeginJournal
  <1>7. CASE CheckHeld
    BY <1>7 DEF CheckHeld
  <1>8. CASE RenameOut
    BY <1>8 DEF RenameOut, Accepts
  <1>9. CASE SyncQuarantine
    BY <1>9 DEF SyncQuarantine
  <1>10. CASE SyncSource
    BY <1>10 DEF SyncSource
  <1>11. CASE Protect
    BY <1>11 DEF Protect
  <1>12. CASE VerifyQuarantined
    BY <1>12 DEF VerifyQuarantined, Accepts, ExactQuarantined
  <1>13. CASE RecordMoved
    BY <1>13 DEF RecordMoved, Advance
  <1>14. CASE Commit
    BY <1>14 DEF Commit
  <1>15. CASE UndoNext
    BY <1>15 DEF UndoNext
  <1>16. CASE UndoDone
    BY <1>16 DEF UndoDone
  <1>17. CASE RestoreCheck
    BY <1>17 DEF RestoreCheck
  <1>18. CASE RestorePerm
    BY <1>18 DEF RestorePerm
  <1>19. CASE RestoreRename
    BY <1>19 DEF RestoreRename
  <1>20. CASE RestoreSyncLive
    BY <1>20 DEF RestoreSyncLive
  <1>21. CASE RestoreSyncQuar
    BY <1>21 DEF RestoreSyncQuar
  <1>22. CASE RestoreVerify
    BY <1>22 DEF RestoreVerify
  <1>23. CASE RollbackPrecheck
    BY <1>23 DEF RollbackPrecheck, Advance
  <1>24. CASE Classify
    BY <1>24 DEF Classify, ClassifyMoved, ClassifyLive, ClassifyThirdState, NextTarget, Advance
  <1>25. CASE DupPerm
    BY <1>25 DEF DupPerm
  <1>26. CASE DupUnlink
    BY <1>26 DEF DupUnlink
  <1>27. CASE DupSync
    BY <1>27 DEF DupSync
  <1>28. CASE LivePerm
    BY <1>28 DEF LivePerm
  <1>29. CASE VerifyHome
    BY <1>29 DEF VerifyHome, NextTarget, Advance
  <1>30. CASE Observe
    BY <1>30 DEF Observe
  <1>31. CASE ReadError
    BY <1>31 DEF ReadError
  <1>32. CASE Kill \/ \E m \in Mode : Start(m)
    BY <1>32 DEF Kill, Start
  <1>33. CASE PowerLoss
    BY <1>33 DEF PowerLoss
  <1>34. CASE StoreWriteback
    BY <1>34 DEF StoreWriteback, proc
  <1>35. CASE \E t \in Targets : Writeback(t)
    BY <1>35 DEF Writeback, Between, proc
  <1>36. CASE \E t \in Targets : Site(t)
    BY <1>36 DEF Site, SiteAlter, SitePut, proc
  <1>37. CASE UNCHANGED vars
    BY <1>37 DEF vars, proc
  <1> QED
    BY <1>1, <1>2, <1>3, <1>4, <1>5, <1>6, <1>7, <1>8, <1>9, <1>10, <1>11, <1>12, <1>13, <1>14, <1>15, <1>16, <1>17, <1>18, <1>19, <1>20, <1>21, <1>22, <1>23, <1>24, <1>25, <1>26, <1>27, <1>28, <1>29, <1>30, <1>31, <1>32, <1>33, <1>34, <1>35, <1>36, <1>37 DEF Next, Helper, Environment

\* Only the way back takes a target out of its quarantine.
LEMMA SecuredStays ==
    ASSUME TypeInv, [Next]_vars, pc \notin RestorePc \cup ReconcilePc,
           NEW t \in Targets, Secured(t)
    PROVE  Secured(t)'
  <1> USE DEF Secured
  <1>1. CASE Helper /\ t # i
    BY <1>1, OnlyIndexWritten
  <1>2. CASE Helper /\ t = i
    <2> USE <1>2 DEF SetNames, SetPerm, MaybePerm, SyncLiveDir, SyncQuarDir, TypeInv, FilesOK,
                     fs, mem, disk
    <2>1. CASE ~FileStep
      BY <2>1, OtherStepsKeepFiles
    <2>2. CASE RenameOut
      BY <2>2 DEF RenameOut, Accepts
    <2>3. CASE SyncQuarantine \/ SyncSource
      BY <2>3 DEF SyncQuarantine, SyncSource
    <2>4. CASE Protect
      BY <2>4 DEF Protect
    <2> QED
      BY <2>1, <2>2, <2>3, <2>4 DEF FileStep, RestorePerm, RestoreRename, RestoreSyncLive,
         RestoreSyncQuar, DupPerm, DupUnlink, DupSync, LivePerm, RestorePc, ReconcilePc
  <1>3. CASE PowerLoss
    BY <1>3 DEF PowerLoss, disk
  <1>4. CASE \E u \in Targets : Writeback(u)
    BY <1>4 DEF Writeback, Between, mem, TypeInv, FilesOK
  <1>5. CASE \E u \in Targets : Site(u)
    BY <1>5 DEF Site, SiteAlter, SitePut, mem, disk, TypeInv, FilesOK
  <1>6. CASE Kill \/ StoreWriteback \/ (\E m \in Mode : Start(m)) \/ UNCHANGED vars
    BY <1>6 DEF Kill, StoreWriteback, Start, vars, fs, mem, disk
  <1> QED
    BY <1>1, <1>2, <1>3, <1>4, <1>5, <1>6 DEF Next, Environment

\* Nobody undoes the decision to put targets back.
LEMMA NoWayOut ==
    ASSUME [Next]_vars, direction' = "out"
    PROVE  direction = "out"
  <1>1. CASE Helper
    BY <1>1 DEF Helper, OpenApply, OpenFollowUp, PrepareLive, BindManifests, SyncManifests, BeginJournal, CheckHeld, RenameOut, SyncQuarantine, SyncSource, Protect, VerifyQuarantined, RecordMoved, Commit, UndoNext, UndoDone, RestoreCheck, RestorePerm, RestoreRename, RestoreSyncLive, RestoreSyncQuar, RestoreVerify, RollbackPrecheck, Classify, DupPerm, DupUnlink, DupSync, LivePerm, VerifyHome, Observe, ReadError, Compensate, Partial
  <1>2. CASE Environment \/ UNCHANGED vars
    BY <1>2 DEF Environment, Start, Kill, PowerLoss, StoreWriteback, Writeback, Site, vars, proc
  <1> QED
    BY <1>1, <1>2 DEF Next

\* Only Commit reports a quarantine in the mode apply.
LEMMA ReceiptOfApply ==
    ASSUME TypeInv, PhaseInv, [Next]_vars, mode' = "apply", result' = "QUARANTINED_EXACT"
    PROVE  \/ pc = "commit"
           \/ mode = "apply" /\ result = "QUARANTINED_EXACT"
  <1>1. CASE Helper
    <2>1. mode' = mode
      BY <1>1, HelperKeepsFrame DEF frame
    <2> USE <2>1, Labels DEF Goto, Exit, Die, Compensate, Partial, NextTarget, Advance, PhaseInv
    <2>2. CASE Observe
      BY <2>2 DEF Observe, ObservedReceipt
    <2>3. CASE UndoDone
      BY <2>3 DEF UndoDone
    <2> QED
      BY <1>1, <2>2, <2>3 DEF Helper, OpenApply, OpenFollowUp, PrepareLive, BindManifests, SyncManifests, BeginJournal, CheckHeld, RenameOut, SyncQuarantine, SyncSource, Protect, VerifyQuarantined, RecordMoved, Commit, UndoNext, RestoreCheck, RestorePerm, RestoreRename, RestoreSyncLive, RestoreSyncQuar, RestoreVerify, RollbackPrecheck, Classify, ClassifyMoved, ClassifyLive, ClassifyThirdState, DupPerm, DupUnlink, DupSync, LivePerm, VerifyHome, ReadError
  <1>2. CASE Environment \/ UNCHANGED vars
    BY <1>2 DEF Environment, Start, Kill, PowerLoss, StoreWriteback, Writeback, Site, vars, proc, Exit
  <1> QED
    BY <1>1, <1>2 DEF Next

\* A MOVED row is written for the loop index, at the end of its move.
LEMMA NewRow ==
    ASSUME TypeInv, [Next]_vars, NEW t \in Targets, <<"MOVED", t>> \in journal'
    PROVE  <<"MOVED", t>> \in journal \/ (pc = "record" /\ t = i)
  <1> USE DEF JournalRow, MaybeJournalRow
  <1>1. CASE UNCHANGED journal
    BY <1>1
  <1>2. CASE BeginJournal
    BY <1>2 DEF BeginJournal
  <1>3. CASE RecordMoved
    BY <1>3 DEF RecordMoved
  <1>4. CASE Commit
    BY <1>4 DEF Commit
  <1>5. CASE UndoDone
    BY <1>5 DEF UndoDone
  <1>6. CASE OpenApply \/ BindManifests \/ SyncManifests
    BY <1>6 DEF OpenApply, BindManifests, SyncManifests
  <1>7. CASE Helper /\ ~RecordStep
    BY <1>1, <1>7, OtherStepsKeepRecords DEF tx
  <1>8. CASE Environment \/ UNCHANGED vars
    BY <1>8 DEF Environment, Start, Kill, PowerLoss, StoreWriteback, Writeback, Site, vars, tx
  <1> QED
    BY <1>2, <1>3, <1>4, <1>5, <1>6, <1>7, <1>8 DEF Next, RecordStep

\* Where a step leads into the loop that takes targets out, the targets passed
\* are secured.
LEMMA PassedSecured ==
    ASSUME TypeInv, SecuringOrder, [Next]_vars,
           pc \in ForwardPc => \A t \in Targets : t < i => Secured(t)
    PROVE  /\ pc' \in ForwardPc =>
                pc \notin RestorePc \cup ReconcilePc /\ \A t \in Targets : t < i' => Secured(t)
           /\ pc' = "commit" =>
                pc = "commit" \/ (pc = "record" /\ \A t \in Targets : Secured(t))
  <1> USE DEF SecuringOrder, ForwardPc, RestorePc, ReconcilePc, Goto, Exit, Die, Compensate,
              Partial, TypeInv, ProcessInv, ProcessOK, Targets
  <1>1. CASE OpenApply
    BY <1>1 DEF OpenApply
  <1>2. CASE OpenFollowUp
    BY <1>2 DEF OpenFollowUp, FirstStep
  <1>3. CASE PrepareLive
    BY <1>3 DEF PrepareLive, Advance
  <1>4. CASE BindManifests
    BY <1>4 DEF BindManifests
  <1>5. CASE SyncManifests
    BY <1>5 DEF SyncManifests
  <1>6. CASE BeginJournal
    BY <1>6 DEF BeginJournal
  <1>7. CASE CheckHeld
    BY <1>7 DEF CheckHeld
  <1>8. CASE RenameOut
    BY <1>8 DEF RenameOut
  <1>9. CASE SyncQuarantine
    BY <1>9 DEF SyncQuarantine
  <1>10. CASE SyncSource
    BY <1>10 DEF SyncSource
  <1>11. CASE Protect
    BY <1>11 DEF Protect
  <1>12. CASE VerifyQuarantined
    BY <1>12 DEF VerifyQuarantined
  <1>13. CASE RecordMoved
    <2>1. Secured(i)
      BY <1>13 DEF RecordMoved, Secured
    <2>2. \A t \in Targets : t < i + 1 => t < i \/ t = i
      OBVIOUS
    <2> QED
      BY <1>13, <2>1, <2>2 DEF RecordMoved, Advance
  <1>14. CASE Commit
    BY <1>14 DEF Commit
  <1>15. CASE UndoNext
    BY <1>15 DEF UndoNext
  <1>16. CASE UndoDone
    BY <1>16 DEF UndoDone
  <1>17. CASE RestoreCheck
    BY <1>17 DEF RestoreCheck
  <1>18. CASE RestorePerm
    BY <1>18 DEF RestorePerm
  <1>19. CASE RestoreRename
    BY <1>19 DEF RestoreRename
  <1>20. CASE RestoreSyncLive
    BY <1>20 DEF RestoreSyncLive
  <1>21. CASE RestoreSyncQuar
    BY <1>21 DEF RestoreSyncQuar
  <1>22. CASE RestoreVerify
    BY <1>22 DEF RestoreVerify
  <1>23. CASE RollbackPrecheck
    BY <1>23 DEF RollbackPrecheck, Advance
  <1>24. CASE Classify
    BY <1>24 DEF Classify, ClassifyMoved, ClassifyLive, ClassifyThirdState, NextTarget, Advance
  <1>25. CASE DupPerm
    BY <1>25 DEF DupPerm
  <1>26. CASE DupUnlink
    BY <1>26 DEF DupUnlink
  <1>27. CASE DupSync
    BY <1>27 DEF DupSync
  <1>28. CASE LivePerm
    BY <1>28 DEF LivePerm
  <1>29. CASE VerifyHome
    BY <1>29 DEF VerifyHome, NextTarget, Advance
  <1>30. CASE Observe
    BY <1>30 DEF Observe
  <1>31. CASE ReadError
    BY <1>31 DEF ReadError
  <1>32. CASE Environment
    BY <1>32 DEF Environment, Kill, PowerLoss, Start, StoreWriteback, Writeback, Site, proc
  <1>33. CASE UNCHANGED vars
    BY <1>33 DEF vars, proc
  <1> QED
    BY <1>1, <1>2, <1>3, <1>4, <1>5, <1>6, <1>7, <1>8, <1>9, <1>10, <1>11, <1>12, <1>13, <1>14, <1>15, <1>16, <1>17, <1>18, <1>19, <1>20, <1>21, <1>22, <1>23, <1>24, <1>25, <1>26, <1>27, <1>28, <1>29, <1>30, <1>31, <1>32, <1>33 DEF Next, Helper

\* A receipt of apply, and a row of the journal, name secured targets.
LEMMA SecuredKept == TypeInv /\ PhaseInv /\ SecuredInv /\ [Next]_vars => SecuredInv'
  <1> SUFFICES ASSUME TypeInv, PhaseInv, SecuredInv, [Next]_vars PROVE SecuredInv'
    OBVIOUS
  <1>1. SecuringOrder'
    BY SecuringKept DEF SecuredInv
  <1>2. (pc \in ForwardPc => \A t \in Targets : t < i => Secured(t))'
    BY PassedSecured, SecuredStays DEF SecuredInv
  <1>3. (pc = "commit" => \A t \in Targets : Secured(t))'
    BY PassedSecured, SecuredStays DEF SecuredInv, RestorePc, ReconcilePc
  <1>4. (mode = "apply" /\ result = "QUARANTINED_EXACT" => \A t \in Targets : Secured(t))'
    <2> SUFFICES ASSUME mode' = "apply", result' = "QUARANTINED_EXACT", NEW t \in Targets
                 PROVE  Secured(t)'
      OBVIOUS
    <2>1. \/ pc = "commit"
          \/ mode = "apply" /\ result = "QUARANTINED_EXACT"
      BY ReceiptOfApply
    <2> QED
      BY <2>1, SecuredStays DEF SecuredInv, PhaseInv, RestorePc, ReconcilePc
  <1>5. (direction = "out" =>
            \A t \in Targets : <<"MOVED", t>> \in journal => Secured(t))'
    <2> SUFFICES ASSUME direction' = "out", NEW t \in Targets, <<"MOVED", t>> \in journal'
                 PROVE  Secured(t)'
      OBVIOUS
    <2>1. direction = "out" /\ pc \notin RestorePc \cup ReconcilePc
      BY NoWayOut DEF PhaseInv
    <2>2. <<"MOVED", t>> \in journal \/ (pc = "record" /\ t = i)
      BY NewRow
    <2>3. Secured(t)
      BY <2>1, <2>2 DEF SecuredInv, SecuringOrder, Secured
    <2> QED
      BY <2>1, <2>3, SecuredStays
  <1> QED
    BY <1>1, <1>2, <1>3, <1>4, <1>5 DEF SecuredInv

\* No kill, failure, loss of power or interference of the site undoes what a
\* receipt of apply says: every target is durably in quarantine, protected.
THEOREM ReceiptIsDurable == Spec => []AppliedDurably
  <1>1. Init => TypeInv /\ PhaseInv /\ SecuredInv
    BY InitTyped DEF Init, PhaseInv, ForwardPc, RestorePc, ReconcilePc, SecuredInv, SecuringOrder
  <1>2. TypeInv /\ PhaseInv /\ SecuredInv /\ [Next]_vars
            => (TypeInv /\ PhaseInv /\ SecuredInv)'
    BY TypeKept, PhaseKept, SecuredKept
  <1>3. SecuredInv => AppliedDurably
    BY DEF SecuredInv, AppliedDurably, Secured
  <1> QED
    BY <1>1, <1>2, <1>3, PTL DEF Spec

\* Until somebody starts to put targets back, a MOVED row of the journal is
\* true of the disk.
THEOREM JournalIsFaithful == Spec => []JournalFaithful
  <1>1. Init => TypeInv /\ PhaseInv /\ SecuredInv
    BY InitTyped DEF Init, PhaseInv, ForwardPc, RestorePc, ReconcilePc, SecuredInv, SecuringOrder
  <1>2. TypeInv /\ PhaseInv /\ SecuredInv /\ [Next]_vars
            => (TypeInv /\ PhaseInv /\ SecuredInv)'
    BY TypeKept, PhaseKept, SecuredKept
  <1>3. SecuredInv => JournalFaithful
    BY DEF SecuredInv, JournalFaithful, Secured
  <1> QED
    BY <1>1, <1>2, <1>3, PTL DEF Spec

-----------------------------------------------------------------------------
(* What a process says it has put back.                                    *)

\* Back for good.
Home(t) ==
    /\ live[t] = "orig" /\ liveDisk[t] = "orig"
    /\ quar[t] = "none" /\ quarDisk[t] = "none"
    /\ perm[t] = "orig" /\ permDisk[t] = "orig"

\* How far the way back of the loop index has come.
RestoringOrder ==
    i \notin taken =>
        /\ pc \in {"rRename", "rSyncLive", "rSyncQuar", "rVerify"} =>
                perm[i] = "orig" /\ permDisk[i] = "orig"
        /\ pc \in {"rSyncLive", "rSyncQuar", "rVerify"} => live[i] = "orig" /\ quar[i] = "none"
        /\ pc \in {"rSyncQuar", "rVerify"} => liveDisk[i] = "orig"
        /\ pc = "rVerify" => quarDisk[i] = "none"

RestoredInv ==
    /\ RestoringOrder
    /\ pc \in RestorePc => \A t \in Targets : Restores(t) /\ t \notin taken /\ t > i => Home(t)
    /\ ReportsRestored => \A t \in Targets : Restores(t) /\ t \notin taken => Home(t)

LEMMA RestoringKept == TypeInv /\ HeldOrig /\ RestoringOrder /\ [Next]_vars => RestoringOrder'
  <1> SUFFICES ASSUME TypeInv, HeldOrig, RestoringOrder, [Next]_vars PROVE RestoringOrder'
    OBVIOUS
  <1> USE DEF RestoringOrder, HeldOrig, TypeInv, FilesOK, ProcessInv, fs, mem, disk, SetNames,
              SetPerm, MaybePerm, SyncLiveDir, SyncQuarDir, Goto, Exit, Die, Compensate, Partial,
              frame, site
  <1>1. CASE OpenApply
    BY <1>1 DEF OpenApply
  <1>2. CASE OpenFollowUp
    BY <1>2 DEF OpenFollowUp, FirstStep
  <1>3. CASE PrepareLive
    BY <1>3 DEF PrepareLive, Advance
  <1>4. CASE BindManifests
    BY <1>4 DEF BindManifests
  <1>5. CASE SyncManifests
    BY <1>5 DEF SyncManifests
  <1>6. CASE BeginJournal
    BY <1>6 DEF BeginJournal
  <1>7. CASE CheckHeld
    BY <1>7 DEF CheckHeld
  <1>8. CASE RenameOut
    BY <1>8 DEF RenameOut
  <1>9. CASE SyncQuarantine
    BY <1>9 DEF SyncQuarantine
  <1>10. CASE SyncSource
    BY <1>10 DEF SyncSource
  <1>11. CASE Protect
    BY <1>11 DEF Protect
  <1>12. CASE VerifyQuarantined
    BY <1>12 DEF VerifyQuarantined
  <1>13. CASE RecordMoved
    BY <1>13 DEF RecordMoved, Advance
  <1>14. CASE Commit
    BY <1>14 DEF Commit
  <1>15. CASE UndoNext
    BY <1>15 DEF UndoNext
  <1>16. CASE UndoDone
    BY <1>16 DEF UndoDone
  <1>17. CASE RestoreCheck
    BY <1>17 DEF RestoreCheck, Accepts, RecoverableQuarantined
  <1>18. CASE RestorePerm
    BY <1>18 DEF RestorePerm
  <1>19. CASE RestoreRename
    BY <1>19 DEF RestoreRename, Accepts
  <1>20. CASE RestoreSyncLive
    BY <1>20 DEF RestoreSyncLive
  <1>21. CASE RestoreSyncQuar
    BY <1>21 DEF RestoreSyncQuar
  <1>22. CASE RestoreVerify
    BY <1>22 DEF RestoreVerify
  <1>23. CASE RollbackPrecheck
    BY <1>23 DEF RollbackPrecheck, Advance
  <1>24. CASE Classify
    BY <1>24 DEF Classify, ClassifyMoved, ClassifyLive, ClassifyThirdState, NextTarget, Advance
  <1>25. CASE DupPerm
    BY <1>25 DEF DupPerm
  <1>26. CASE DupUnlink
    BY <1>26 DEF DupUnlink
  <1>27. CASE DupSync
    BY <1>27 DEF DupSync
  <1>28. CASE LivePerm
    BY <1>28 DEF LivePerm
  <1>29. CASE VerifyHome
    BY <1>29 DEF VerifyHome, NextTarget, Advance
  <1>30. CASE Observe
    BY <1>30 DEF Observe
  <1>31. CASE ReadError
    BY <1>31 DEF ReadError
  <1>32. CASE Kill \/ \E m \in Mode : Start(m)
    BY <1>32 DEF Kill, Start
  <1>33. CASE PowerLoss
    BY <1>33 DEF PowerLoss
  <1>34. CASE StoreWriteback
    BY <1>34 DEF StoreWriteback, proc
  <1>35. CASE \E t \in Targets : Writeback(t)
    BY <1>35 DEF Writeback, Between, proc
  <1>36. CASE \E t \in Targets : Site(t)
    BY <1>36 DEF Site, SiteAlter, SitePut, proc
  <1>37. CASE UNCHANGED vars
    BY <1>37 DEF vars, proc
  <1> QED
    BY <1>1, <1>2, <1>3, <1>4, <1>5, <1>6, <1>7, <1>8, <1>9, <1>10, <1>11, <1>12, <1>13, <1>14, <1>15, <1>16, <1>17, <1>18, <1>19, <1>20, <1>21, <1>22, <1>23, <1>24, <1>25, <1>26, <1>27, <1>28, <1>29, <1>30, <1>31, <1>32, <1>33, <1>34, <1>35, <1>36, <1>37 DEF Next, Helper, Environment

\* Only a helper that works on it, or the site, displaces a target that is home.
LEMMA HomeStays ==
    ASSUME TypeInv, [Next]_vars, NEW t \in Targets, Home(t), t \notin taken',
           Helper => t # i
    PROVE  Home(t)'
  <1> USE DEF Home
  <1>1. CASE Helper
    BY <1>1, OnlyIndexWritten
  <1>2. CASE PowerLoss
    BY <1>2 DEF PowerLoss, disk
  <1>3. CASE \E u \in Targets : Writeback(u)
    BY <1>3 DEF Writeback, Between, mem, TypeInv, FilesOK
  <1>4. CASE \E u \in Targets : Site(u)
    BY <1>4 DEF Site, SiteAlter, SitePut, mem, disk, TypeInv, FilesOK
  <1>5. CASE Kill \/ StoreWriteback \/ (\E m \in Mode : Start(m)) \/ UNCHANGED vars
    BY <1>5 DEF Kill, StoreWriteback, Start, vars, fs, mem, disk
  <1> QED
    BY <1>1, <1>2, <1>3, <1>4, <1>5 DEF Next, Environment

\* A process comes to the way back at the last target, and passes those it has
\* found home or does not restore.
LEMMA WayBack ==
    ASSUME TypeInv, PhaseInv, [Next]_vars, pc' \in RestorePc
    PROVE  \/ i' = N
           \/ /\ pc \in RestorePc /\ mode' = mode /\ moved' = moved
              /\ \/ i' = i
                 \/ /\ i' = i - 1 /\ i \in Targets
                    /\ Restores(i) => /\ pc = "rVerify" /\ live[i] = "orig"
                                       /\ quar[i] = "none" /\ perm[i] = "orig" /\ UNCHANGED fs
  <1> USE DEF RestorePc, Goto, Exit, Die, Compensate, Partial, frame, NextTarget, Advance,
              TypeInv, ProcessInv, ProcessOK, Targets
  <1>1. CASE OpenApply
    BY <1>1 DEF OpenApply
  <1>2. CASE OpenFollowUp
    BY <1>2 DEF OpenFollowUp, FirstStep
  <1>3. CASE PrepareLive
    BY <1>3 DEF PrepareLive, Advance
  <1>4. CASE BindManifests
    BY <1>4 DEF BindManifests
  <1>5. CASE SyncManifests
    BY <1>5 DEF SyncManifests
  <1>6. CASE BeginJournal
    BY <1>6 DEF BeginJournal
  <1>7. CASE CheckHeld
    BY <1>7 DEF CheckHeld
  <1>8. CASE RenameOut
    BY <1>8 DEF RenameOut
  <1>9. CASE SyncQuarantine
    BY <1>9 DEF SyncQuarantine
  <1>10. CASE SyncSource
    BY <1>10 DEF SyncSource
  <1>11. CASE Protect
    BY <1>11 DEF Protect
  <1>12. CASE VerifyQuarantined
    BY <1>12 DEF VerifyQuarantined
  <1>13. CASE RecordMoved
    BY <1>13 DEF RecordMoved, Advance
  <1>14. CASE Commit
    BY <1>14 DEF Commit
  <1>15. CASE UndoNext
    BY <1>15 DEF UndoNext
  <1>16. CASE UndoDone
    BY <1>16 DEF UndoDone
  <1>17. CASE RestoreCheck
    BY <1>17 DEF RestoreCheck
  <1>18. CASE RestorePerm
    BY <1>18 DEF RestorePerm
  <1>19. CASE RestoreRename
    BY <1>19 DEF RestoreRename
  <1>20. CASE RestoreSyncLive
    BY <1>20 DEF RestoreSyncLive
  <1>21. CASE RestoreSyncQuar
    BY <1>21 DEF RestoreSyncQuar
  <1>22. CASE RestoreVerify
    BY <1>22 DEF RestoreVerify, Accepts, ExactLive
  <1>23. CASE RollbackPrecheck
    BY <1>23 DEF RollbackPrecheck, Advance
  <1>24. CASE Classify
    BY <1>24 DEF Classify, ClassifyMoved, ClassifyLive, ClassifyThirdState, NextTarget, Advance
  <1>25. CASE DupPerm
    BY <1>25 DEF DupPerm
  <1>26. CASE DupUnlink
    BY <1>26 DEF DupUnlink
  <1>27. CASE DupSync
    BY <1>27 DEF DupSync
  <1>28. CASE LivePerm
    BY <1>28 DEF LivePerm
  <1>29. CASE VerifyHome
    BY <1>29 DEF VerifyHome, NextTarget, Advance
  <1>30. CASE Observe
    BY <1>30 DEF Observe
  <1>31. CASE ReadError
    BY <1>31 DEF ReadError
  <1>32. CASE Environment
    BY <1>32 DEF Environment, Kill, PowerLoss, Start, StoreWriteback, Writeback, Site, proc
  <1>33. CASE UNCHANGED vars
    BY <1>33 DEF vars, proc
  <1> QED
    BY <1>1, <1>2, <1>3, <1>4, <1>5, <1>6, <1>7, <1>8, <1>9, <1>10, <1>11, <1>12, <1>13, <1>14, <1>15, <1>16, <1>17, <1>18, <1>19, <1>20, <1>21, <1>22, <1>23, <1>24, <1>25, <1>26, <1>27, <1>28, <1>29, <1>30, <1>31, <1>32, <1>33 DEF Next, Helper

\* What reports a restored target: the end of the loop, or an apply that fails
\* with nothing moved.
LEMMA ReportOfRestore ==
    ASSUME TypeInv, PhaseInv, [Next]_vars, ReportsRestored'
    PROVE  \/ pc = "undo" /\ i = 0 /\ mode' = mode /\ moved' = moved /\ UNCHANGED <<fs, taken>>
           \/ mode' = "apply" /\ moved' = {}
           \/ ReportsRestored /\ ~Helper /\ mode' = mode /\ moved' = moved
  <1> USE DEF ReportsRestored
  <1>1. CASE Helper
    <2>1. mode' = mode /\ taken' = taken
      BY <1>1, HelperKeepsFrame DEF frame, site
    <2>2. result = "NONE"
      BY <1>1, RunningReportsNothing
    <2> USE <2>1, <2>2 DEF Goto, Exit, Die, MutationStarted, Compensate, Partial, NextTarget,
                           Advance, PhaseInv
    <2>3. CASE UndoDone
      BY <2>3 DEF UndoDone
    <2>4. CASE Observe
      BY <2>4 DEF Observe, ObservedReceipt
    <2>5. CASE Classify
      BY <2>5 DEF Classify, ClassifyMoved, ClassifyLive, ClassifyThirdState
    <2> QED
      BY <1>1, <2>3, <2>4, <2>5 DEF Helper, OpenApply, OpenFollowUp, PrepareLive, BindManifests, SyncManifests, BeginJournal, CheckHeld, RenameOut, SyncQuarantine, SyncSource, Protect, VerifyQuarantined, RecordMoved, Commit, UndoNext, RestoreCheck, RestorePerm, RestoreRename, RestoreSyncLive, RestoreSyncQuar, RestoreVerify, RollbackPrecheck, DupPerm, DupUnlink, DupSync, LivePerm, VerifyHome, ReadError
  <1>2. CASE ~Helper
    BY <1>2 DEF Next, Environment, Start, Kill, PowerLoss, StoreWriteback, Writeback, Site, vars, proc, Exit
  <1> QED
    BY <1>1, <1>2

LEMMA RestoredKept == TypeInv /\ PhaseInv /\ HeldOrig /\ RestoredInv /\ [Next]_vars => RestoredInv'
  <1> SUFFICES ASSUME TypeInv, PhaseInv, HeldOrig, RestoredInv, [Next]_vars PROVE RestoredInv'
    OBVIOUS
  <1>1. RestoringOrder'
    BY RestoringKept DEF RestoredInv
  <1>2. taken \subseteq taken'
    BY HelperKeepsFrame DEF Next, Environment, Start, Kill, PowerLoss, StoreWriteback, Writeback,
       Site, SiteAlter, SitePut, frame, site, vars
  <1>3. (pc \in RestorePc => \A t \in Targets : Restores(t) /\ t \notin taken /\ t > i => Home(t))'
    <2> SUFFICES ASSUME pc' \in RestorePc, NEW t \in Targets, Restores(t)', t \notin taken', t > i'
                 PROVE  Home(t)'
      OBVIOUS
    <2>1. i' # N
      BY DEF Targets
    <2>2. pc \in RestorePc /\ mode' = mode /\ moved' = moved
      BY <2>1, WayBack
    <2>3. Restores(t) /\ t \notin taken
      BY <1>2, <2>2 DEF Restores
    <2>4. CASE i' = i
      BY <2>2, <2>3, <2>4, HomeStays DEF RestoredInv, Targets
    <2>5. CASE /\ i' = i - 1 /\ i \in Targets
               /\ Restores(i) => /\ pc = "rVerify" /\ live[i] = "orig"
                                  /\ quar[i] = "none" /\ perm[i] = "orig" /\ UNCHANGED fs
      <3>1. CASE t = i
        BY <2>3, <2>5, <3>1 DEF RestoredInv, RestoringOrder, Home, fs, mem, disk
      <3>2. CASE t > i
        BY <2>2, <2>3, <3>2, HomeStays DEF RestoredInv, Targets
      <3> QED
        BY <2>5, <3>1, <3>2 DEF Targets
    <2> QED
      BY <2>1, <2>4, <2>5, WayBack
  <1>4. (ReportsRestored => \A t \in Targets : Restores(t) /\ t \notin taken => Home(t))'
    <2> SUFFICES ASSUME ReportsRestored', NEW t \in Targets, Restores(t)', t \notin taken'
                 PROVE  Home(t)'
      OBVIOUS
    <2>1. CASE pc = "undo" /\ i = 0 /\ mode' = mode /\ moved' = moved /\ UNCHANGED <<fs, taken>>
      <3>1. Home(t)
        BY <2>1 DEF RestoredInv, RestorePc, Restores, Targets
      <3> QED
        BY <2>1, <3>1 DEF Home, fs, mem, disk
    <2>2. CASE mode' = "apply" /\ moved' = {}
      BY <2>2 DEF Restores
    <2>3. CASE ReportsRestored /\ ~Helper /\ mode' = mode /\ moved' = moved
      BY <1>2, <2>3, HomeStays DEF RestoredInv, Restores
    <2> QED
      BY <2>1, <2>2, <2>3, ReportOfRestore
  <1> QED
    BY <1>1, <1>3, <1>4 DEF RestoredInv

\* What a rollback, a reconciliation or a compensated apply reports as restored
\* stays restored: no later loss of power returns any of it to the quarantine.
THEOREM RestorationIsDurable == Spec => []RestoredDurably
  <1> DEFINE Inv == TypeInv /\ PhaseInv /\ HeldOrig /\ RestoredInv
  <1>1. Init => Inv
    BY InitTyped DEF Init, PhaseInv, HeldOrig, RestoredInv, RestoringOrder, ReportsRestored,
       ForwardPc, RestorePc, ReconcilePc
  <1>2. Inv /\ [Next]_vars => Inv'
    BY TypeKept, PhaseKept, HeldKept, RestoredKept
  <1>3. Inv => RestoredDurably
    BY DEF RestoredInv, RestoredDurably, Home
  <1> QED
    BY <1>1, <1>2, <1>3, PTL DEF Spec

-----------------------------------------------------------------------------
(* rollback works on a uniform set.                                        *)

\* A rollback looks at the targets in their order, then restores them in the
\* reverse one.
UniformInv ==
    mode = "rollback" /\ sites = 0 =>
        /\ pc = "precheck" => \A t \in Targets : t < i => ExactQuarantined(t)
        /\ pc \in RestorePc =>
            \A t \in Targets : /\ t < i => ExactQuarantined(t)
                               /\ t > i => ExactLive(t)

\* How a rollback comes to the way back, and how it goes along it.
LEMMA RollbackSteps ==
    ASSUME TypeInv, PhaseInv, Helper, mode = "rollback"
    PROVE  /\ pc' = "precheck" =>
                \/ pc = "open" /\ i' = i /\ UNCHANGED fs
                \/ pc = "precheck" /\ i' = i + 1 /\ ExactQuarantined(i) /\ UNCHANGED fs
           /\ pc' \in RestorePc =>
                \/ pc = "precheck" /\ i = N /\ i' = N /\ UNCHANGED fs
                \/ pc \in RestorePc /\ i' = i
                \/ pc \in RestorePc /\ i' = i - 1 /\ ExactLive(i) /\ UNCHANGED fs
  <1> USE DEF PhaseInv, RestorePc, ReconcilePc, ForwardPc, Goto, Exit, Die, Compensate, Partial,
              frame, NextTarget, Advance, TypeInv, ProcessInv, ProcessOK, Targets
  <1>1. CASE OpenApply
    BY <1>1 DEF OpenApply
  <1>2. CASE OpenFollowUp
    BY <1>2 DEF OpenFollowUp, FirstStep
  <1>3. CASE PrepareLive
    BY <1>3 DEF PrepareLive, Advance
  <1>4. CASE BindManifests
    BY <1>4 DEF BindManifests
  <1>5. CASE SyncManifests
    BY <1>5 DEF SyncManifests
  <1>6. CASE BeginJournal
    BY <1>6 DEF BeginJournal
  <1>7. CASE CheckHeld
    BY <1>7 DEF CheckHeld
  <1>8. CASE RenameOut
    BY <1>8 DEF RenameOut
  <1>9. CASE SyncQuarantine
    BY <1>9 DEF SyncQuarantine
  <1>10. CASE SyncSource
    BY <1>10 DEF SyncSource
  <1>11. CASE Protect
    BY <1>11 DEF Protect
  <1>12. CASE VerifyQuarantined
    BY <1>12 DEF VerifyQuarantined
  <1>13. CASE RecordMoved
    BY <1>13 DEF RecordMoved, Advance
  <1>14. CASE Commit
    BY <1>14 DEF Commit
  <1>15. CASE UndoNext
    BY <1>15 DEF UndoNext, Restores
  <1>16. CASE UndoDone
    BY <1>16 DEF UndoDone
  <1>17. CASE RestoreCheck
    BY <1>17 DEF RestoreCheck
  <1>18. CASE RestorePerm
    BY <1>18 DEF RestorePerm
  <1>19. CASE RestoreRename
    BY <1>19 DEF RestoreRename
  <1>20. CASE RestoreSyncLive
    BY <1>20 DEF RestoreSyncLive
  <1>21. CASE RestoreSyncQuar
    BY <1>21 DEF RestoreSyncQuar
  <1>22. CASE RestoreVerify
    BY <1>22 DEF RestoreVerify, Accepts
  <1>23. CASE RollbackPrecheck
    BY <1>23 DEF RollbackPrecheck, Advance, Accepts
  <1>24. CASE Classify
    BY <1>24 DEF Classify, ClassifyMoved, ClassifyLive, ClassifyThirdState, NextTarget, Advance
  <1>25. CASE DupPerm
    BY <1>25 DEF DupPerm
  <1>26. CASE DupUnlink
    BY <1>26 DEF DupUnlink
  <1>27. CASE DupSync
    BY <1>27 DEF DupSync
  <1>28. CASE LivePerm
    BY <1>28 DEF LivePerm
  <1>29. CASE VerifyHome
    BY <1>29 DEF VerifyHome, NextTarget, Advance
  <1>30. CASE Observe
    BY <1>30 DEF Observe
  <1>31. CASE ReadError
    BY <1>31 DEF ReadError
  <1> QED
    BY <1>1, <1>2, <1>3, <1>4, <1>5, <1>6, <1>7, <1>8, <1>9, <1>10, <1>11, <1>12, <1>13, <1>14, <1>15, <1>16, <1>17, <1>18, <1>19, <1>20, <1>21, <1>22, <1>23, <1>24, <1>25, <1>26, <1>27, <1>28, <1>29, <1>30, <1>31 DEF Next, Helper, Environment

LEMMA UniformKept == TypeInv /\ PhaseInv /\ UniformInv /\ [Next]_vars => UniformInv'
  <1> SUFFICES ASSUME TypeInv, PhaseInv, UniformInv, [Next]_vars, (mode = "rollback" /\ sites = 0)'
               PROVE  /\ pc' = "precheck" =>
                            \A t \in Targets : t < i' => ExactQuarantined(t)'
                      /\ pc' \in RestorePc =>
                            \A t \in Targets : /\ t < i' => ExactQuarantined(t)'
                                               /\ t > i' => ExactLive(t)'
    BY DEF UniformInv
  <1>1. CASE Helper
    <2>1. mode = "rollback" /\ sites = 0 /\ altered' = altered
      BY <1>1, HelperKeepsFrame DEF frame, site
    <2>2. ASSUME NEW t \in Targets, t # i \/ UNCHANGED fs
          PROVE  /\ ExactQuarantined(t) => ExactQuarantined(t)'
                 /\ ExactLive(t) => ExactLive(t)'
      BY <1>1, <2>1, <2>2, OnlyIndexWritten DEF ExactQuarantined, ExactLive, fs, mem
    <2>3. ASSUME pc' = "precheck", NEW t \in Targets, t < i'
          PROVE  ExactQuarantined(t)'
      <3>1. CASE pc = "open" /\ i' = i /\ UNCHANGED fs
        BY <2>3, <3>1 DEF PhaseInv, Targets
      <3>2. CASE pc = "precheck" /\ i' = i + 1 /\ ExactQuarantined(i) /\ UNCHANGED fs
        <4>1. t < i \/ t = i
          BY <2>3, <3>2 DEF Targets, TypeInv, ProcessInv, ProcessOK
        <4> QED
          BY <2>1, <2>2, <3>2, <4>1 DEF UniformInv
      <3> QED
        BY <1>1, <2>1, <2>3, <3>1, <3>2, RollbackSteps
    <2>4. ASSUME pc' \in RestorePc, NEW t \in Targets
          PROVE  /\ t < i' => ExactQuarantined(t)'
                 /\ t > i' => ExactLive(t)'
      <3>1. CASE pc = "precheck" /\ i = N /\ i' = N /\ UNCHANGED fs
        BY <2>1, <2>2, <3>1 DEF UniformInv, Targets
      <3>2. CASE pc \in RestorePc /\ i' = i
        BY <2>1, <2>2, <3>2 DEF UniformInv, Targets, TypeInv, ProcessInv, ProcessOK
      <3>3. CASE pc \in RestorePc /\ i' = i - 1 /\ ExactLive(i) /\ UNCHANGED fs
        <4>1. (t < i' => t < i) /\ (t > i' => t > i \/ t = i)
          BY <3>3 DEF Targets, TypeInv, ProcessInv, ProcessOK
        <4> QED
          BY <2>1, <2>2, <3>3, <4>1 DEF UniformInv
      <3> QED
        BY <1>1, <2>1, <2>4, <3>1, <3>2, <3>3, RollbackSteps
    <2> QED
      BY <2>3, <2>4
  <1>2. CASE (\E m \in Mode : Start(m)) \/ Kill \/ PowerLoss
    BY <1>2 DEF Start, Kill, PowerLoss, Exit, UniformInv, RestorePc
  <1>3. CASE StoreWriteback \/ (\E t \in Targets : Writeback(t)) \/ UNCHANGED vars
    BY <1>3 DEF StoreWriteback, Writeback, vars, fs, mem, site, proc, UniformInv, ExactQuarantined,
       ExactLive
  <1>4. CASE \E t \in Targets : Site(t)
    BY <1>4 DEF Site, TypeInv, SiteOK
  <1> QED
    BY <1>1, <1>2, <1>3, <1>4 DEF Next, Environment

\* Left alone by the site, a rollback never restores part of a mixed set,
\* whatever fails and whichever processes were killed before it.
THEOREM RollbackStaysUniform == Spec => []RollbackIsUniform
  <1> DEFINE Inv == TypeInv /\ PhaseInv /\ UniformInv
  <1>1. Init => Inv
    BY InitTyped DEF Init, PhaseInv, UniformInv, ForwardPc, RestorePc, ReconcilePc
  <1>2. Inv /\ [Next]_vars => Inv'
    BY TypeKept, PhaseKept, UniformKept
  <1>3. Inv => RollbackIsUniform
    BY DEF UniformInv, RollbackIsUniform
  <1> QED
    BY <1>1, <1>2, <1>3, PTL DEF Spec

-----------------------------------------------------------------------------
(* reconcile-rollback accepts what crashes leave behind.                   *)

\* Without the site there are only the bound objects, unaltered.
Undisturbed ==
    sites = 0 =>
        /\ altered = {} /\ taken = {}
        /\ \A t \in Targets : "foreign" \notin {live[t], quar[t], liveDisk[t], quarDisk[t]}

LEMMA UndisturbedKept == TypeInv /\ Undisturbed /\ [Next]_vars => Undisturbed'
  <1> SUFFICES ASSUME TypeInv, Undisturbed, [Next]_vars, sites' = 0
               PROVE  /\ altered' = {} /\ taken' = {}
                      /\ \A t \in Targets :
                            "foreign" \notin {live'[t], quar'[t], liveDisk'[t], quarDisk'[t]}
    BY DEF Undisturbed
  <1> USE DEF Undisturbed, TypeInv, FilesOK, SiteOK, ProcessInv, fs, mem, disk, site
  <1>1. CASE Helper
    <2>1. UNCHANGED <<altered, taken, sites>>
      BY <1>1, HelperKeepsFrame DEF frame
    <2>2. ASSUME NEW t \in Targets
          PROVE  "foreign" \notin {live'[t], quar'[t], liveDisk'[t], quarDisk'[t]}
      <3>1. CASE t # i
        BY <1>1, <2>1, <3>1, OnlyIndexWritten DEF TypeInv
      <3>2. CASE ~FileStep
        BY <1>1, <2>1, <3>2, OtherStepsKeepFiles
      <3> USE <2>1 DEF SetNames, SetPerm, MaybePerm, SyncLiveDir, SyncQuarDir
      <3>3. CASE RenameOut \/ RestoreRename \/ DupUnlink
        BY <3>3 DEF RenameOut, RestoreRename, DupUnlink
      <3>4. CASE SyncQuarantine \/ SyncSource \/ RestoreSyncLive \/ RestoreSyncQuar \/ DupSync
        BY <3>4 DEF SyncQuarantine, SyncSource, RestoreSyncLive, RestoreSyncQuar, DupSync
      <3>5. CASE Protect \/ RestorePerm \/ DupPerm \/ LivePerm
        BY <3>5 DEF Protect, RestorePerm, DupPerm, LivePerm
      <3> QED
        BY <3>2, <3>3, <3>4, <3>5 DEF FileStep
    <2> QED
      BY <2>1, <2>2
  <1>2. CASE PowerLoss
    BY <1>2 DEF PowerLoss
  <1>3. CASE \E t \in Targets : Writeback(t)
    BY <1>3 DEF Writeback, Between
  <1>4. CASE \E t \in Targets : Site(t)
    BY <1>4 DEF Site
  <1>5. CASE Kill \/ StoreWriteback \/ (\E m \in Mode : Start(m)) \/ UNCHANGED vars
    BY <1>5 DEF Kill, StoreWriteback, Start, vars
  <1> QED
    BY <1>1, <1>2, <1>3, <1>4, <1>5 DEF Next, Environment

\* A reconciliation that nothing disturbs.
Smooth == mode = "reconcile-rollback" /\ sites = 0 /\ faults = faultsBefore

\* What such a reconciliation knows of the loop index, and of the targets it
\* has set aside to be restored.
Progress ==
    /\ pc \in ReconcilePc => \A t \in moved : t < i /\ quar[t] = "orig" /\ live[t] # "orig"
    /\ pc \in RestorePc =>
        \A t \in moved :
            t < i \/ (t = i /\ pc \in {"undo", "rCheck", "rPerm", "rRename"}) =>
                quar[t] = "orig" /\ live[t] # "orig"
    /\ pc \in {"rCheck", "rPerm", "rRename"} => i \in moved
    /\ pc \in {"rSyncLive", "rSyncQuar", "rVerify", "dupPerm", "dupUnlink", "dupSync",
               "dupVerify", "livePerm", "liveVerify"} => live[i] = "orig"
    /\ pc \in {"rSyncLive", "rSyncQuar", "rVerify", "dupSync", "dupVerify", "livePerm",
               "liveVerify"} => quar[i] = "none"
    /\ pc \in {"rRename", "rSyncLive", "rSyncQuar", "rVerify", "dupUnlink", "dupSync",
               "dupVerify", "liveVerify"} => perm[i] = "orig"

ReconcileInv ==
    /\ storeDisk = "bound" => store = "bound"
    /\ Smooth => Progress

\* Everything a reconciliation is proved from.
CrashInv == PhaseInv /\ RecoverableInv /\ NamesInv /\ Undisturbed

\* The manifests are on disk no sooner than they are written.
LEMMA StoreOrder ==
    TypeInv /\ RecoverableInv /\ (storeDisk = "bound" => store = "bound") /\ [Next]_vars
        => (storeDisk = "bound" => store = "bound")'
  <1> SUFFICES ASSUME TypeInv, RecoverableInv, storeDisk = "bound" => store = "bound", [Next]_vars
               PROVE  storeDisk' = "bound" => store' = "bound"
    OBVIOUS
  <1>1. CASE UNCHANGED tx
    BY <1>1 DEF tx
  <1>2. CASE OpenApply
    BY <1>2 DEF OpenApply
  <1>3. CASE BindManifests
    BY <1>3 DEF BindManifests, RecoverableInv, BindingOrder, Goto
  <1>4. CASE SyncManifests \/ BeginJournal \/ RecordMoved \/ Commit \/ UndoDone
    BY <1>4 DEF SyncManifests, BeginJournal, RecordMoved, Commit, UndoDone
  <1>5. CASE PowerLoss \/ StoreWriteback
    BY <1>5 DEF PowerLoss, StoreWriteback
  <1>6. CASE \/ UNCHANGED vars \/ Kill \/ \E m \in Mode : Start(m)
             \/ \E t \in Targets : Writeback(t) \/ Site(t)
    BY <1>6 DEF vars, tx, Kill, Start, Writeback, Site
  <1> QED
    BY <1>1, <1>2, <1>3, <1>4, <1>5, <1>6, OtherStepsKeepRecords DEF Next, RecordStep, Environment

\* A step after which nothing has disturbed a reconciliation is its opening,
\* or has met no fault either.
LEMMA SmoothStep ==
    ASSUME TypeInv, Helper, Smooth'
    PROVE  Smooth /\ NoFault /\ UNCHANGED <<altered, taken, sites>>
  BY HelperKeepsFrame, HelperFaults DEF Smooth, TypeInv, BoundsOK, frame, site, NoFault, Fault

\* An undisturbed reconciliation finds every target it comes to as expected.
LEMMA ProgressKept ==
    ASSUME TypeInv, CrashInv, ReconcileInv, Helper, Smooth, NoFault
    PROVE  Progress'
  <1> USE DEF Progress, ReconcileInv, CrashInv, PhaseInv, Undisturbed, Smooth, Restores,
              RestorePc, ReconcilePc, ForwardPc, TypeInv, FilesOK, ProcessInv, ProcessOK, BoundsOK,
              Entry, Targets, fs, mem, disk, SetNames, SetPerm, MaybePerm, SyncLiveDir, SyncQuarDir,
              NoFault, Fault, Goto, Exit, Die, Compensate, Partial
  <1>1. CASE OpenApply
    BY <1>1 DEF OpenApply
  <1>2. CASE OpenFollowUp
    BY <1>2 DEF OpenFollowUp, FirstStep
  <1>3. CASE PrepareLive
    BY <1>3 DEF PrepareLive, Advance
  <1>4. CASE BindManifests
    BY <1>4 DEF BindManifests
  <1>5. CASE SyncManifests
    BY <1>5 DEF SyncManifests
  <1>6. CASE BeginJournal
    BY <1>6 DEF BeginJournal
  <1>7. CASE CheckHeld
    BY <1>7 DEF CheckHeld
  <1>8. CASE RenameOut
    BY <1>8 DEF RenameOut
  <1>9. CASE SyncQuarantine
    BY <1>9 DEF SyncQuarantine
  <1>10. CASE SyncSource
    BY <1>10 DEF SyncSource
  <1>11. CASE Protect
    BY <1>11 DEF Protect
  <1>12. CASE VerifyQuarantined
    BY <1>12 DEF VerifyQuarantined
  <1>13. CASE RecordMoved
    BY <1>13 DEF RecordMoved, Advance
  <1>14. CASE Commit
    BY <1>14 DEF Commit
  <1>15. CASE UndoNext
    BY <1>15 DEF UndoNext
  <1>16. CASE UndoDone
    BY <1>16 DEF UndoDone
  <1>17. CASE RestoreCheck
    BY <1>17 DEF RestoreCheck, Accepts, RecoverableQuarantined
  <1>18. CASE RestorePerm
    BY <1>18 DEF RestorePerm
  <1>19. CASE RestoreRename
    BY <1>19 DEF RestoreRename, Accepts
  <1>20. CASE RestoreSyncLive
    BY <1>20 DEF RestoreSyncLive
  <1>21. CASE RestoreSyncQuar
    BY <1>21 DEF RestoreSyncQuar
  <1>22. CASE RestoreVerify
    BY <1>22 DEF RestoreVerify
  <1>23. CASE RollbackPrecheck
    BY <1>23 DEF RollbackPrecheck, Advance
  <1>24. CASE Classify
    <2>1. CASE ClassifyMoved
      <3>1. /\ quar[i] = "orig" /\ live[i] = "none" /\ pc = "classify"
            /\ moved' = moved \cup {i} /\ quar' = quar /\ live' = live
        BY <1>24, <2>1 DEF Classify, ClassifyMoved, CrashExactQuarantined
      <3>2. \A t \in moved' : t \in 1 .. N /\ (t < i \/ t = i) /\ quar'[t] = "orig" /\ live'[t] # "orig"
        BY <3>1
      <3>3. CASE i < N
        <4>1. pc' = "classify" /\ i' = i + 1
          BY <2>1, <3>3 DEF ClassifyMoved, NextTarget, Advance
        <4>2. \A t \in moved' : t < i'
          BY <3>2, <4>1
        <4> QED
          BY <3>2, <4>1, <4>2
      <3>4. CASE i = N
        <4>1. pc' = "undo" /\ i' = i
          BY <2>1, <3>4 DEF ClassifyMoved, NextTarget, Advance
        <4> QED
          BY <3>2, <4>1
      <3> QED
        BY <3>3, <3>4
    <2>2. CASE ClassifyLive
      <3>1. quar[i] = "orig" \/ quar[i] = "none"
        BY <1>24 DEF Classify
      <3>2. live[i] = "orig" /\ (pc' = "livePerm" => quar[i] = "none")
        BY <1>24, <2>2, <3>1 DEF Classify, ClassifyLive, CrashExactLive, CrashExactQuarantined
      <3> QED
        BY <1>24, <2>2, <3>2 DEF Classify, ClassifyLive
    <2>3. CASE ClassifyThirdState
      BY <1>24, <2>3 DEF Classify, ClassifyThirdState
    <2> QED
      BY <1>24, <2>1, <2>2, <2>3 DEF Classify
  <1>25. CASE DupPerm
    BY <1>25 DEF DupPerm
  <1>26. CASE DupUnlink
    BY <1>26 DEF DupUnlink
  <1>27. CASE DupSync
    BY <1>27 DEF DupSync
  <1>28. CASE LivePerm
    BY <1>28 DEF LivePerm
  <1>29. CASE VerifyHome
    BY <1>29 DEF VerifyHome, NextTarget, Advance
  <1>30. CASE Observe
    BY <1>30 DEF Observe
  <1>31. CASE ReadError
    BY <1>31 DEF ReadError
  <1> QED
    BY <1>1, <1>2, <1>3, <1>4, <1>5, <1>6, <1>7, <1>8, <1>9, <1>10, <1>11, <1>12, <1>13, <1>14, <1>15, <1>16, <1>17, <1>18, <1>19, <1>20, <1>21, <1>22, <1>23, <1>24, <1>25, <1>26, <1>27, <1>28, <1>29, <1>30, <1>31 DEF Next, Helper, Environment

LEMMA ReconcileKept == TypeInv /\ CrashInv /\ ReconcileInv /\ [Next]_vars => ReconcileInv'
  <1> SUFFICES ASSUME TypeInv, CrashInv, ReconcileInv, [Next]_vars PROVE ReconcileInv'
    OBVIOUS
  <1>1. (storeDisk = "bound" => store = "bound")'
    BY StoreOrder DEF CrashInv, ReconcileInv
  <1>2. ASSUME Smooth' PROVE Progress'
    <2>1. CASE Helper
      BY <1>2, <2>1, SmoothStep, ProgressKept DEF ReconcileInv
    <2>2. CASE (\E m \in Mode : Start(m)) \/ Kill \/ PowerLoss
      BY <2>2 DEF Start, Kill, PowerLoss, Exit, Progress, ReconcilePc, RestorePc
    <2>3. CASE StoreWriteback \/ (\E t \in Targets : Writeback(t)) \/ UNCHANGED vars
      BY <1>2, <2>3 DEF StoreWriteback, Writeback, vars, fs, mem, site, proc, bounds, ReconcileInv,
         Progress, Smooth
    <2>4. CASE \E t \in Targets : Site(t)
      BY <1>2, <2>4 DEF Site, Smooth, TypeInv, SiteOK
    <2> QED
      BY <2>1, <2>2, <2>3, <2>4 DEF Next, Environment
  <1> QED
    BY <1>1, <1>2 DEF ReconcileInv

\* Undisturbed, a step of a reconciliation that binds its manifests refuses
\* nothing.
LEMMA NothingRefused ==
    ASSUME TypeInv, CrashInv, ReconcileInv, Helper, Smooth, NoFault, store' = "bound",
           result = "NONE"
    PROVE  result' \notin {"PARTIAL", "FAILED"}
  <1>1. \A t \in Targets : live[t] = "orig" \/ quar[t] = "orig"
    BY DEF CrashInv, NamesInv, NoTargetLost, Names, Undisturbed, Smooth
  <1>2. altered = {} /\ \A t \in Targets : live[t] \in {"none", "orig"} /\ quar[t] \in {"none", "orig"}
    BY DEF CrashInv, Undisturbed, Smooth, TypeInv, FilesOK, Entry
  <1> USE DEF Progress, ReconcileInv, CrashInv, PhaseInv, Smooth, RestorePc, ReconcilePc, ForwardPc,
              TypeInv, ProcessInv, BoundsOK, NoFault, Fault, Goto, Exit, Die, Compensate, Partial,
              Refuses
  <1>3. CASE OpenApply
    BY <1>3 DEF OpenApply
  <1>4. CASE OpenFollowUp
    BY <1>4 DEF OpenFollowUp, FirstStep, tx
  <1>5. CASE PrepareLive
    BY <1>5 DEF PrepareLive, Advance
  <1>6. CASE BindManifests
    BY <1>6 DEF BindManifests
  <1>7. CASE SyncManifests
    BY <1>7 DEF SyncManifests
  <1>8. CASE BeginJournal
    BY <1>8 DEF BeginJournal
  <1>9. CASE CheckHeld
    BY <1>9 DEF CheckHeld
  <1>10. CASE RenameOut
    BY <1>10 DEF RenameOut
  <1>11. CASE SyncQuarantine
    BY <1>11 DEF SyncQuarantine
  <1>12. CASE SyncSource
    BY <1>12 DEF SyncSource
  <1>13. CASE Protect
    BY <1>13 DEF Protect
  <1>14. CASE VerifyQuarantined
    BY <1>14 DEF VerifyQuarantined
  <1>15. CASE RecordMoved
    BY <1>15 DEF RecordMoved, Advance
  <1>16. CASE Commit
    BY <1>16 DEF Commit
  <1>17. CASE UndoNext
    BY <1>17 DEF UndoNext
  <1>18. CASE UndoDone
    BY <1>18 DEF UndoDone
  <1>19. CASE RestoreCheck
    BY <1>19, <1>2 DEF RestoreCheck, RecoverableQuarantined
  <1>20. CASE RestorePerm
    BY <1>20 DEF RestorePerm
  <1>21. CASE RestoreRename
    BY <1>21, <1>2 DEF RestoreRename
  <1>22. CASE RestoreSyncLive
    BY <1>22 DEF RestoreSyncLive
  <1>23. CASE RestoreSyncQuar
    BY <1>23 DEF RestoreSyncQuar
  <1>24. CASE RestoreVerify
    BY <1>24, <1>2 DEF RestoreVerify, ExactLive
  <1>25. CASE RollbackPrecheck
    BY <1>25 DEF RollbackPrecheck, Advance
  <1>26. CASE Classify
    <2>1. CASE ClassifyMoved \/ ClassifyLive
      BY <1>26, <2>1 DEF Classify, ClassifyMoved, ClassifyLive, NextTarget, Advance
    <2>2. CASE ClassifyThirdState
      BY <1>1, <1>2, <1>26, <2>2 DEF Classify, ClassifyThirdState, CrashExactLive, CrashExactQuarantined
    <2> QED
      BY <1>26, <2>1, <2>2 DEF Classify
  <1>27. CASE DupPerm
    BY <1>27 DEF DupPerm
  <1>28. CASE DupUnlink
    BY <1>28 DEF DupUnlink
  <1>29. CASE DupSync
    BY <1>29 DEF DupSync
  <1>30. CASE LivePerm
    BY <1>30 DEF LivePerm
  <1>31. CASE VerifyHome
    BY <1>31, <1>2 DEF VerifyHome, NextTarget, Advance, ExactLive
  <1>32. CASE Observe
    BY <1>32 DEF Observe
  <1>33. CASE ReadError
    BY <1>33 DEF ReadError
  <1> QED
    BY <1>3, <1>4, <1>5, <1>6, <1>7, <1>8, <1>9, <1>10, <1>11, <1>12, <1>13, <1>14, <1>15, <1>16, <1>17, <1>18, <1>19, <1>20, <1>21, <1>22, <1>23, <1>24, <1>25, <1>26, <1>27, <1>28, <1>29, <1>30, <1>31, <1>32, <1>33 DEF Next, Helper, Environment

\* A reconciliation that was not disturbed has not failed.
LEMMA AcceptsKept == TypeInv /\ CrashInv /\ ReconcileInv /\ ReconcileAcceptsCrashes /\ [Next]_vars => ReconcileAcceptsCrashes'
  <1> SUFFICES ASSUME TypeInv, CrashInv, ReconcileInv, ReconcileAcceptsCrashes, [Next]_vars,
                      mode' = "reconcile-rollback", result' \in {"PARTIAL", "FAILED"},
                      sites' = 0, faults' <= faultsBefore', store' = "bound"
               PROVE  FALSE
    BY TypeKept DEF ReconcileAcceptsCrashes, TypeInv, SiteOK, BoundsOK
  <1>1. CASE Helper
    <2>1. Smooth'
      BY TypeKept DEF Smooth, TypeInv, BoundsOK
    <2>2. Smooth /\ NoFault
      BY <1>1, <2>1, SmoothStep
    <2>3. result = "NONE"
      BY <1>1, RunningReportsNothing DEF CrashInv
    <2> QED
      BY <1>1, <2>2, <2>3, NothingRefused
  <1>2. CASE \E t \in Targets : Site(t)
    BY <1>2 DEF Site, TypeInv, SiteOK
  <1>3. CASE Environment /\ ~(\E t \in Targets : Site(t))
    BY <1>3 DEF Environment, Start, Kill, PowerLoss, StoreWriteback, Writeback, Exit, ReconcileAcceptsCrashes, tx,
       proc, bounds, site, ReconcileInv, TypeInv, BoundsOK
  <1>4. CASE UNCHANGED vars
    BY <1>4 DEF vars, tx, proc, bounds, site, ReconcileAcceptsCrashes, TypeInv, BoundsOK
  <1> QED
    BY <1>1, <1>2, <1>3, <1>4 DEF Next

\* reconcile-rollback accepts every state that kills and losses of power leave,
\* however many and in whatever mode: it fails only by a failing call of its
\* own, an interference of the site, or for want of bound manifests.
THEOREM ReconcileTakesCrashes == Spec => []ReconcileAcceptsCrashes
  <1> DEFINE Inv == TypeInv /\ CrashInv /\ ReconcileInv /\ ReconcileAcceptsCrashes
  <1>1. Init => Inv
    BY InitTyped DEF Init, CrashInv, PhaseInv, ForwardPc, RestorePc, ReconcilePc, RecoverableInv,
       LeavesRecoverable, BindingOrder, NamesInv, NoTargetLost, MoveOrder, DuplicateDurable, Names,
       Undisturbed, ReconcileInv, Progress, ReconcileAcceptsCrashes
  <1>2. Inv /\ [Next]_vars => Inv'
    BY TypeKept, PhaseKept, RecoverableKept, NamesKept, UndisturbedKept, ReconcileKept,
       AcceptsKept DEF CrashInv
  <1>3. Inv => ReconcileAcceptsCrashes
    BY DEF ReconcileAcceptsCrashes
  <1> QED
    BY <1>1, <1>2, <1>3, PTL DEF Spec

-----------------------------------------------------------------------------
(* The durable name.                                                       *)

\* The live name is durable before the other one is let go.
LiveDurable ==
    /\ \A t \in Targets : live[t] = "orig" /\ quar[t] = "orig" => liveDisk[t] = "orig"
    /\ pc \in {"rSyncQuar", "dupPerm", "dupUnlink", "dupSync"} /\ live[i] = "orig" =>
        liveDisk[i] = "orig"

LEMMA LiveDurableKept == TypeInv /\ LiveDurable /\ [Next]_vars => LiveDurable'
  <1> SUFFICES ASSUME TypeInv, LiveDurable, [Next]_vars PROVE LiveDurable'
    OBVIOUS
  <1> USE DEF LiveDurable, TypeInv, FilesOK, ProcessInv, fs, mem, disk, SetNames,
              SetPerm, MaybePerm, SyncLiveDir, SyncQuarDir, Goto, Exit, Die, Compensate, Partial
  <1>1. CASE OpenApply
    BY <1>1 DEF OpenApply
  <1>2. CASE OpenFollowUp
    BY <1>2 DEF OpenFollowUp, FirstStep
  <1>3. CASE PrepareLive
    BY <1>3 DEF PrepareLive, Advance
  <1>4. CASE BindManifests
    BY <1>4 DEF BindManifests
  <1>5. CASE SyncManifests
    BY <1>5 DEF SyncManifests
  <1>6. CASE BeginJournal
    BY <1>6 DEF BeginJournal
  <1>7. CASE CheckHeld
    BY <1>7 DEF CheckHeld
  <1>8. CASE RenameOut
    BY <1>8 DEF RenameOut, Accepts
  <1>9. CASE SyncQuarantine
    BY <1>9 DEF SyncQuarantine
  <1>10. CASE SyncSource
    BY <1>10 DEF SyncSource
  <1>11. CASE Protect
    BY <1>11 DEF Protect
  <1>12. CASE VerifyQuarantined
    BY <1>12 DEF VerifyQuarantined
  <1>13. CASE RecordMoved
    BY <1>13 DEF RecordMoved, Advance
  <1>14. CASE Commit
    BY <1>14 DEF Commit
  <1>15. CASE UndoNext
    BY <1>15 DEF UndoNext
  <1>16. CASE UndoDone
    BY <1>16 DEF UndoDone
  <1>17. CASE RestoreCheck
    BY <1>17 DEF RestoreCheck
  <1>18. CASE RestorePerm
    BY <1>18 DEF RestorePerm
  <1>19. CASE RestoreRename
    BY <1>19 DEF RestoreRename, Accepts
  <1>20. CASE RestoreSyncLive
    BY <1>20 DEF RestoreSyncLive
  <1>21. CASE RestoreSyncQuar
    BY <1>21 DEF RestoreSyncQuar
  <1>22. CASE RestoreVerify
    BY <1>22 DEF RestoreVerify
  <1>23. CASE RollbackPrecheck
    BY <1>23 DEF RollbackPrecheck, Advance
  <1>24. CASE Classify
    BY <1>24 DEF Classify, ClassifyMoved, ClassifyLive, ClassifyThirdState, NextTarget, Advance, CrashExactLive, CrashExactQuarantined
  <1>25. CASE DupPerm
    BY <1>25 DEF DupPerm
  <1>26. CASE DupUnlink
    BY <1>26 DEF DupUnlink
  <1>27. CASE DupSync
    BY <1>27 DEF DupSync
  <1>28. CASE LivePerm
    BY <1>28 DEF LivePerm
  <1>29. CASE VerifyHome
    BY <1>29 DEF VerifyHome, NextTarget, Advance
  <1>30. CASE Observe
    BY <1>30 DEF Observe
  <1>31. CASE ReadError
    BY <1>31 DEF ReadError
  <1>32. CASE Kill \/ \E m \in Mode : Start(m)
    BY <1>32 DEF Kill, Start
  <1>33. CASE PowerLoss
    BY <1>33 DEF PowerLoss
  <1>34. CASE StoreWriteback
    BY <1>34 DEF StoreWriteback, proc
  <1>35. CASE \E t \in Targets : Writeback(t)
    BY <1>35 DEF Writeback, Between, proc
  <1>36. CASE \E t \in Targets : Site(t)
    BY <1>36 DEF Site, SiteAlter, SitePut, proc
  <1>37. CASE UNCHANGED vars
    BY <1>37 DEF vars, proc
  <1> QED
    BY <1>1, <1>2, <1>3, <1>4, <1>5, <1>6, <1>7, <1>8, <1>9, <1>10, <1>11, <1>12, <1>13, <1>14, <1>15, <1>16, <1>17, <1>18, <1>19, <1>20, <1>21, <1>22, <1>23, <1>24, <1>25, <1>26, <1>27, <1>28, <1>29, <1>30, <1>31, <1>32, <1>33, <1>34, <1>35, <1>36, <1>37 DEF Next, Helper, Environment

-----------------------------------------------------------------------------
(* What is out of the quarantine, and what was seen.                       *)

\* What the way back has taken out of the quarantine.
EmptiedBack ==
    /\ pc \in RestorePc \ {"undo"} => Restores(i)
    /\ pc \in {"rSyncLive", "rSyncQuar", "rVerify", "dupSync", "dupVerify"} => quar[i] = "none"
    /\ pc = "rVerify" => quarDisk[i] # "orig"
    /\ pc \in RestorePc =>
        \A t \in Targets : t > i /\ Restores(t) => quar[t] # "orig" /\ quarDisk[t] # "orig"

LEMMA EmptiedIndex ==
    ASSUME TypeInv, EmptiedBack, [Next]_vars
    PROVE  /\ pc' \in RestorePc \ {"undo"} => Restores(i)'
           /\ pc' \in {"rSyncLive", "rSyncQuar", "rVerify", "dupSync", "dupVerify"} =>
                quar'[i'] = "none"
           /\ pc' = "rVerify" => quarDisk'[i'] # "orig"
  <1> USE DEF EmptiedBack, Restores, RestorePc, TypeInv, FilesOK, ProcessInv, fs, mem, disk, frame,
              SetNames, SetPerm, MaybePerm, SyncLiveDir, SyncQuarDir, Goto, Exit, Die, Compensate,
              Partial
  <1>1. CASE OpenApply
    BY <1>1 DEF OpenApply
  <1>2. CASE OpenFollowUp
    BY <1>2 DEF OpenFollowUp, FirstStep, FirstStep
  <1>3. CASE PrepareLive
    BY <1>3 DEF PrepareLive, Advance
  <1>4. CASE BindManifests
    BY <1>4 DEF BindManifests
  <1>5. CASE SyncManifests
    BY <1>5 DEF SyncManifests
  <1>6. CASE BeginJournal
    BY <1>6 DEF BeginJournal
  <1>7. CASE CheckHeld
    BY <1>7 DEF CheckHeld
  <1>8. CASE RenameOut
    BY <1>8 DEF RenameOut
  <1>9. CASE SyncQuarantine
    BY <1>9 DEF SyncQuarantine
  <1>10. CASE SyncSource
    BY <1>10 DEF SyncSource
  <1>11. CASE Protect
    BY <1>11 DEF Protect
  <1>12. CASE VerifyQuarantined
    BY <1>12 DEF VerifyQuarantined
  <1>13. CASE RecordMoved
    BY <1>13 DEF RecordMoved, Advance
  <1>14. CASE Commit
    BY <1>14 DEF Commit
  <1>15. CASE UndoNext
    BY <1>15 DEF UndoNext
  <1>16. CASE UndoDone
    BY <1>16 DEF UndoDone
  <1>17. CASE RestoreCheck
    BY <1>17 DEF RestoreCheck
  <1>18. CASE RestorePerm
    BY <1>18 DEF RestorePerm
  <1>19. CASE RestoreRename
    BY <1>19 DEF RestoreRename, Accepts
  <1>20. CASE RestoreSyncLive
    BY <1>20 DEF RestoreSyncLive
  <1>21. CASE RestoreSyncQuar
    BY <1>21 DEF RestoreSyncQuar
  <1>22. CASE RestoreVerify
    BY <1>22 DEF RestoreVerify
  <1>23. CASE RollbackPrecheck
    BY <1>23 DEF RollbackPrecheck, Advance
  <1>24. CASE Classify
    BY <1>24 DEF Classify, ClassifyMoved, ClassifyLive, ClassifyThirdState, NextTarget, Advance
  <1>25. CASE DupPerm
    BY <1>25 DEF DupPerm
  <1>26. CASE DupUnlink
    BY <1>26 DEF DupUnlink
  <1>27. CASE DupSync
    BY <1>27 DEF DupSync
  <1>28. CASE LivePerm
    BY <1>28 DEF LivePerm
  <1>29. CASE VerifyHome
    BY <1>29 DEF VerifyHome, NextTarget, Advance
  <1>30. CASE Observe
    BY <1>30 DEF Observe
  <1>31. CASE ReadError
    BY <1>31 DEF ReadError
  <1>32. CASE Kill \/ PowerLoss \/ \E m \in Mode : Start(m)
    BY <1>32 DEF Kill, PowerLoss, Start
  <1>33. CASE StoreWriteback
    BY <1>33 DEF StoreWriteback, proc
  <1>34. CASE \E t \in Targets : Writeback(t)
    BY <1>34 DEF Writeback, Between, proc
  <1>35. CASE \E t \in Targets : Site(t)
    BY <1>35 DEF Site, SiteAlter, SitePut, proc
  <1>36. CASE UNCHANGED vars
    BY <1>36 DEF vars, proc
  <1> QED
    BY <1>1, <1>2, <1>3, <1>4, <1>5, <1>6, <1>7, <1>8, <1>9, <1>10, <1>11, <1>12, <1>13, <1>14, <1>15, <1>16, <1>17, <1>18, <1>19, <1>20, <1>21, <1>22, <1>23, <1>24, <1>25, <1>26, <1>27, <1>28, <1>29, <1>30, <1>31, <1>32, <1>33, <1>34, <1>35, <1>36 DEF Next, Helper, Environment

\* Neither the site nor the disk puts a target into the quarantine.
LEMMA StaysOut ==
    ASSUME TypeInv, [Next]_vars, ~PowerLoss, NEW t \in Targets,
           Helper => t # i \/ UNCHANGED fs, quar[t] # "orig"
    PROVE  quar'[t] # "orig" /\ (quarDisk[t] # "orig" => quarDisk'[t] # "orig")
  <1>1. CASE Helper
    BY <1>1, OnlyIndexWritten DEF fs, mem, disk
  <1>2. CASE \E u \in Targets : Writeback(u)
    BY <1>2 DEF Writeback, Between, mem, TypeInv, FilesOK
  <1>3. CASE \E u \in Targets : Site(u)
    BY <1>3 DEF Site, SiteAlter, SitePut, mem, disk
  <1>4. CASE Kill \/ StoreWriteback \/ (\E m \in Mode : Start(m)) \/ UNCHANGED vars
    BY <1>4 DEF Kill, StoreWriteback, Start, vars, fs, mem, disk
  <1> QED
    BY <1>1, <1>2, <1>3, <1>4 DEF Next, Environment

LEMMA PowerLossEnds == ASSUME PowerLoss PROVE pc' = "idle"
  BY DEF PowerLoss, Exit

LEMMA EmptiedKept == TypeInv /\ PhaseInv /\ EmptiedBack /\ [Next]_vars => EmptiedBack'
  <1> SUFFICES ASSUME TypeInv, PhaseInv, EmptiedBack, [Next]_vars PROVE EmptiedBack'
    OBVIOUS
  <1>1. ASSUME pc' \in RestorePc, NEW t \in Targets, t > i', Restores(t)'
        PROVE  quar'[t] # "orig" /\ quarDisk'[t] # "orig"
    <2>1. i' # N
      BY <1>1 DEF Targets
    <2> USE PowerLossEnds DEF RestorePc
    <2>2. pc \in RestorePc /\ Restores(t)
      BY <1>1, <2>1, WayBack DEF Restores
    <2>3. CASE t > i
      BY <1>1, <2>2, <2>3, StaysOut DEF EmptiedBack, Targets
    <2>4. CASE t = i
      <3>1. pc = "rVerify" /\ quar[i] = "none" /\ UNCHANGED fs
        BY <1>1, <2>1, <2>2, <2>4, WayBack DEF Targets
      <3> QED
        BY <2>4, <3>1 DEF EmptiedBack, fs, mem, disk
    <2> QED
      BY <1>1, <2>1, <2>3, <2>4, WayBack DEF Targets
  <1> QED
    BY <1>1, EmptiedIndex DEF EmptiedBack

\* What a reconciliation has found to be out of it, or taken out.
EmptiedReconciling ==
    /\ pc \in ReconcilePc => \A t \in Targets \ moved : t < i => quar[t] # "orig"
    /\ pc \in RestorePc /\ mode = "reconcile-rollback" =>
        \A t \in Targets \ moved : quar[t] # "orig"

\* A reconciliation passes a target when it has set it aside or found nothing
\* of it in the quarantine.
LEMMA ReconcilePasses ==
    ASSUME TypeInv, PhaseInv, [Next]_vars,
           pc' \in ReconcilePc \/ (pc' \in RestorePc /\ mode' = "reconcile-rollback")
    PROVE  \/ pc = "open" /\ i' = 1 /\ pc' \in ReconcilePc
           \/ pc \in ReconcilePc /\ pc' \in ReconcilePc /\ i' = i /\ moved' = moved
           \/ /\ pc \in ReconcilePc /\ UNCHANGED fs
              /\ pc' \in ReconcilePc => i' = i + 1
              /\ pc' \in RestorePc => i = N
              /\ moved' = moved \cup {i} \/ (moved' = moved /\ quar[i] = "none")
           \/ pc \in RestorePc /\ pc' \in RestorePc /\ moved' = moved /\ mode' = mode
  <1> USE DEF PhaseInv, RestorePc, ReconcilePc, ForwardPc, Goto, Exit, Die, Compensate, Partial,
              frame, NextTarget, Advance, TypeInv, ProcessInv, ProcessOK, Targets
  <1>1. CASE OpenApply
    BY <1>1 DEF OpenApply
  <1>2. CASE OpenFollowUp
    BY <1>2 DEF OpenFollowUp, FirstStep, FirstStep
  <1>3. CASE PrepareLive
    BY <1>3 DEF PrepareLive, Advance
  <1>4. CASE BindManifests
    BY <1>4 DEF BindManifests
  <1>5. CASE SyncManifests
    BY <1>5 DEF SyncManifests
  <1>6. CASE BeginJournal
    BY <1>6 DEF BeginJournal
  <1>7. CASE CheckHeld
    BY <1>7 DEF CheckHeld
  <1>8. CASE RenameOut
    BY <1>8 DEF RenameOut
  <1>9. CASE SyncQuarantine
    BY <1>9 DEF SyncQuarantine
  <1>10. CASE SyncSource
    BY <1>10 DEF SyncSource
  <1>11. CASE Protect
    BY <1>11 DEF Protect
  <1>12. CASE VerifyQuarantined
    BY <1>12 DEF VerifyQuarantined
  <1>13. CASE RecordMoved
    BY <1>13 DEF RecordMoved, Advance
  <1>14. CASE Commit
    BY <1>14 DEF Commit
  <1>15. CASE UndoNext
    BY <1>15 DEF UndoNext
  <1>16. CASE UndoDone
    BY <1>16 DEF UndoDone
  <1>17. CASE RestoreCheck
    BY <1>17 DEF RestoreCheck
  <1>18. CASE RestorePerm
    BY <1>18 DEF RestorePerm
  <1>19. CASE RestoreRename
    BY <1>19 DEF RestoreRename
  <1>20. CASE RestoreSyncLive
    BY <1>20 DEF RestoreSyncLive
  <1>21. CASE RestoreSyncQuar
    BY <1>21 DEF RestoreSyncQuar
  <1>22. CASE RestoreVerify
    BY <1>22 DEF RestoreVerify
  <1>23. CASE RollbackPrecheck
    BY <1>23 DEF RollbackPrecheck, Advance
  <1>24. CASE Classify
    <2>1. CASE ClassifyMoved /\ i < N
      BY <1>24, <2>1 DEF Classify, ClassifyMoved
    <2>2. CASE ClassifyMoved /\ i = N
      BY <1>24, <2>2 DEF Classify, ClassifyMoved
    <2>3. CASE ClassifyLive
      BY <1>24, <2>3 DEF Classify, ClassifyLive
    <2>4. CASE ClassifyThirdState
      BY <1>24, <2>4 DEF Classify, ClassifyThirdState
    <2> QED
      BY <1>24, <2>1, <2>2, <2>3, <2>4 DEF Classify
  <1>25. CASE DupPerm
    BY <1>25 DEF DupPerm
  <1>26. CASE DupUnlink
    BY <1>26 DEF DupUnlink
  <1>27. CASE DupSync
    BY <1>27 DEF DupSync
  <1>28. CASE LivePerm
    BY <1>28 DEF LivePerm
  <1>29. CASE VerifyHome
    <2>1. CASE i < N
      BY <1>29, <2>1 DEF VerifyHome, Accepts
    <2>2. CASE i = N
      BY <1>29, <2>2 DEF VerifyHome, Accepts
    <2> QED
      BY <2>1, <2>2
  <1>30. CASE Observe
    BY <1>30 DEF Observe
  <1>31. CASE ReadError
    BY <1>31 DEF ReadError
  <1>32. CASE Environment
    BY <1>32 DEF Environment, Kill, PowerLoss, Start, StoreWriteback, Writeback, Site, proc
  <1>33. CASE UNCHANGED vars
    BY <1>33 DEF vars, proc
  <1> QED
    BY <1>1, <1>2, <1>3, <1>4, <1>5, <1>6, <1>7, <1>8, <1>9, <1>10, <1>11, <1>12, <1>13, <1>14, <1>15, <1>16, <1>17, <1>18, <1>19, <1>20, <1>21, <1>22, <1>23, <1>24, <1>25, <1>26, <1>27, <1>28, <1>29, <1>30, <1>31, <1>32, <1>33 DEF Next, Helper

LEMMA ReconcilingKept ==
    TypeInv /\ PhaseInv /\ EmptiedBack /\ EmptiedReconciling /\ [Next]_vars => EmptiedReconciling'
  <1> SUFFICES ASSUME TypeInv, PhaseInv, EmptiedBack, EmptiedReconciling, [Next]_vars,
                      NEW t \in Targets, t \notin moved',
                      \/ pc' \in ReconcilePc /\ t < i'
                      \/ pc' \in RestorePc /\ mode' = "reconcile-rollback"
               PROVE  quar'[t] # "orig"
    BY DEF EmptiedReconciling
  <1>1. ~PowerLoss
    BY PowerLossEnds DEF RestorePc, ReconcilePc
  <1>2. CASE pc = "open" /\ i' = 1 /\ pc' \in ReconcilePc
    BY <1>2 DEF Targets, ReconcilePc, RestorePc
  <1>3. CASE pc \in ReconcilePc /\ pc' \in ReconcilePc /\ i' = i /\ moved' = moved
    <2>1. t < i /\ quar[t] # "orig"
      BY <1>3 DEF EmptiedReconciling, ReconcilePc, RestorePc
    <2> QED
      BY <1>1, <2>1, StaysOut DEF Targets
  <1>4. CASE /\ pc \in ReconcilePc /\ UNCHANGED fs
             /\ pc' \in ReconcilePc => i' = i + 1
             /\ pc' \in RestorePc => i = N
             /\ moved' = moved \cup {i} \/ (moved' = moved /\ quar[i] = "none")
    <2>1. t < i \/ t = i
      BY <1>4 DEF Targets, TypeInv, ProcessInv, ProcessOK
    <2>2. quar[t] # "orig"
      BY <1>4, <2>1 DEF EmptiedReconciling
    <2> QED
      BY <1>4, <2>2 DEF fs, mem
  <1>5. CASE pc \in RestorePc /\ pc' \in RestorePc /\ moved' = moved /\ mode' = mode
    <2>1. quar[t] # "orig" /\ mode = "reconcile-rollback"
      BY <1>5 DEF EmptiedReconciling, ReconcilePc, RestorePc
    <2>2. Helper => t # i \/ UNCHANGED fs
      <3>1. CASE pc = "undo"
        BY <3>1, OtherStepsKeepFiles DEF FileStep, RenameOut, SyncQuarantine, SyncSource, Protect,
           RestorePerm, RestoreRename, RestoreSyncLive, RestoreSyncQuar, DupPerm, DupUnlink, DupSync,
           LivePerm
      <3>2. CASE pc # "undo"
        BY <1>5, <2>1, <3>2 DEF EmptiedBack, Restores
      <3> QED
        BY <3>1, <3>2
    <2> QED
      BY <1>1, <2>1, <2>2, StaysOut
  <1> QED
    BY <1>2, <1>3, <1>4, <1>5, ReconcilePasses

\* What an observation has seen.
Seen ==
    pc = "observe" =>
        \A t \in Targets : t < i =>
            IF mode = "observe-quarantined" THEN quar[t] = "orig" /\ live[t] # "orig"
                                            ELSE quar[t] # "orig"

\* An observation goes on past a target that is as expected.
LEMMA ObservePasses ==
    ASSUME TypeInv, PhaseInv, [Next]_vars, pc' = "observe"
    PROVE  \/ pc = "open" /\ i' = 1
           \/ pc = "observe" /\ i' = i + 1 /\ Expected(i) /\ UNCHANGED fs /\ mode' = mode
           \/ pc = "observe" /\ i' = i /\ mode' = mode /\ (Environment \/ UNCHANGED vars)
  <1> USE DEF PhaseInv, ReconcilePc, Goto, Exit, Die, Compensate, Partial, frame, NextTarget,
              Advance
  <1>1. CASE OpenApply
    BY <1>1 DEF OpenApply
  <1>2. CASE OpenFollowUp
    BY <1>2 DEF OpenFollowUp, FirstStep
  <1>3. CASE PrepareLive
    BY <1>3 DEF PrepareLive, Advance
  <1>4. CASE BindManifests
    BY <1>4 DEF BindManifests
  <1>5. CASE SyncManifests
    BY <1>5 DEF SyncManifests
  <1>6. CASE BeginJournal
    BY <1>6 DEF BeginJournal
  <1>7. CASE CheckHeld
    BY <1>7 DEF CheckHeld
  <1>8. CASE RenameOut
    BY <1>8 DEF RenameOut
  <1>9. CASE SyncQuarantine
    BY <1>9 DEF SyncQuarantine
  <1>10. CASE SyncSource
    BY <1>10 DEF SyncSource
  <1>11. CASE Protect
    BY <1>11 DEF Protect
  <1>12. CASE VerifyQuarantined
    BY <1>12 DEF VerifyQuarantined
  <1>13. CASE RecordMoved
    BY <1>13 DEF RecordMoved, Advance
  <1>14. CASE Commit
    BY <1>14 DEF Commit
  <1>15. CASE UndoNext
    BY <1>15 DEF UndoNext
  <1>16. CASE UndoDone
    BY <1>16 DEF UndoDone
  <1>17. CASE RestoreCheck
    BY <1>17 DEF RestoreCheck
  <1>18. CASE RestorePerm
    BY <1>18 DEF RestorePerm
  <1>19. CASE RestoreRename
    BY <1>19 DEF RestoreRename
  <1>20. CASE RestoreSyncLive
    BY <1>20 DEF RestoreSyncLive
  <1>21. CASE RestoreSyncQuar
    BY <1>21 DEF RestoreSyncQuar
  <1>22. CASE RestoreVerify
    BY <1>22 DEF RestoreVerify
  <1>23. CASE RollbackPrecheck
    BY <1>23 DEF RollbackPrecheck, Advance
  <1>24. CASE Classify
    BY <1>24 DEF Classify, ClassifyMoved, ClassifyLive, ClassifyThirdState, NextTarget, Advance
  <1>25. CASE DupPerm
    BY <1>25 DEF DupPerm
  <1>26. CASE DupUnlink
    BY <1>26 DEF DupUnlink
  <1>27. CASE DupSync
    BY <1>27 DEF DupSync
  <1>28. CASE LivePerm
    BY <1>28 DEF LivePerm
  <1>29. CASE VerifyHome
    BY <1>29 DEF VerifyHome, NextTarget, Advance
  <1>30. CASE Observe
    BY <1>30 DEF Observe, Accepts
  <1>31. CASE ReadError
    BY <1>31 DEF ReadError
  <1>32. CASE Environment
    BY <1>32 DEF Environment, Kill, PowerLoss, Start, StoreWriteback, Writeback, Site, proc
  <1>33. CASE UNCHANGED vars
    BY <1>33 DEF vars, proc
  <1> QED
    BY <1>1, <1>2, <1>3, <1>4, <1>5, <1>6, <1>7, <1>8, <1>9, <1>10, <1>11, <1>12, <1>13, <1>14, <1>15, <1>16, <1>17, <1>18, <1>19, <1>20, <1>21, <1>22, <1>23, <1>24, <1>25, <1>26, <1>27, <1>28, <1>29, <1>30, <1>31, <1>32, <1>33 DEF Next, Helper

LEMMA SeenKept == TypeInv /\ PhaseInv /\ Seen /\ [Next]_vars => Seen'
  <1> SUFFICES ASSUME TypeInv, PhaseInv, Seen, [Next]_vars, pc' = "observe",
                      NEW t \in Targets, t < i'
               PROVE  IF mode' = "observe-quarantined" THEN quar'[t] = "orig" /\ live'[t] # "orig"
                                                       ELSE quar'[t] # "orig"
    BY DEF Seen
  <1>1. CASE pc = "open" /\ i' = 1
    BY <1>1 DEF Targets
  <1>2. CASE pc = "observe" /\ i' = i + 1 /\ Expected(i) /\ UNCHANGED fs /\ mode' = mode
    <2>1. t < i \/ t = i
      BY <1>2 DEF Targets, TypeInv, ProcessInv, ProcessOK
    <2> QED
      BY <1>2, <2>1 DEF Seen, Expected, ExactQuarantined, fs, mem
  <1>3. CASE pc = "observe" /\ i' = i /\ mode' = mode /\ (Environment \/ UNCHANGED vars)
    <2>1. IF mode = "observe-quarantined" THEN quar[t] = "orig" /\ live[t] # "orig"
                                          ELSE quar[t] # "orig"
      BY <1>3 DEF Seen
    <2>2. ~PowerLoss
      BY PowerLossEnds
    <2>3. quar' = quar
      BY <1>3, <2>2 DEF Environment, Start, Kill, StoreWriteback, Writeback, Site, SiteAlter,
         SitePut, vars, fs, mem
    <2>4. live[t] # "orig" => live'[t] # "orig"
      BY <1>3, <2>2 DEF Environment, Start, Kill, StoreWriteback, Writeback, Site, SiteAlter,
         SitePut, vars, fs, mem, TypeInv, FilesOK
    <2> QED
      BY <1>3, <2>1, <2>3, <2>4
  <1> QED
    BY <1>1, <1>2, <1>3, ObservePasses

-----------------------------------------------------------------------------
(* What a process has done since it was started.                           *)

\* A name the object has, or would have after a loss of power, is one it had or
\* would have had when the process was started.
WasInSite(t) == live[t] = "orig" \/ liveDisk[t] = "orig" => "site" \in before[t]

WasInStore(t) == quar[t] = "orig" \/ quarDisk[t] = "orig" => "store" \in before[t]

\* What a process has done to the names since it was started: apply has added
\* those in the quarantine, to targets that were in the site.
SinceStart ==
    /\ before \in [Targets -> SUBSET {"site", "store"}]
    /\ mode = "apply" /\ pc # "idle" =>
        \A t \in Targets :
            /\ WasInSite(t)
            /\ t \notin moved => WasInStore(t)
            /\ t \in moved /\ quar[t] = "orig" => "site" \in before[t]
    /\ mode = "reconcile-rollback" /\ pc \in {"open"} \cup ReconcilePc =>
        \A t \in Targets : WasInSite(t) /\ WasInStore(t)
    /\ pc \in {"dupPerm", "dupUnlink"} => before[i] = {"site", "store"}

\* No name appears that was not there or about to be: a loss of power brings
\* back what the disk holds, and only a move makes a new one.
LEMMA NamesStay ==
    ASSUME TypeInv, [Next]_vars, before' = before, NEW t \in Targets, ~RenameOut, ~RestoreRename
    PROVE  /\ WasInSite(t) => WasInSite(t)'
           /\ WasInStore(t) => WasInStore(t)'
           /\ ~PowerLoss /\ quar[t] # "orig" => quar'[t] # "orig"
  <1> USE DEF WasInSite, WasInStore, TypeInv, FilesOK, ProcessInv, fs, mem, disk, SetNames, SetPerm,
              MaybePerm, SyncLiveDir, SyncQuarDir
  <1>1. CASE Helper /\ ~FileStep
    BY <1>1, OtherStepsKeepFiles
  <1>2. CASE SyncQuarantine \/ SyncSource \/ RestoreSyncLive \/ RestoreSyncQuar \/ DupSync
    BY <1>2 DEF SyncQuarantine, SyncSource, RestoreSyncLive, RestoreSyncQuar, DupSync
  <1>3. CASE Protect \/ RestorePerm \/ DupPerm \/ LivePerm
    BY <1>3 DEF Protect, RestorePerm, DupPerm, LivePerm
  <1>4. CASE DupUnlink
    BY <1>4 DEF DupUnlink
  <1>5. CASE PowerLoss
    BY <1>5 DEF PowerLoss
  <1>6. CASE \E u \in Targets : Writeback(u)
    BY <1>6 DEF Writeback, Between
  <1>7. CASE \E u \in Targets : Site(u)
    BY <1>7 DEF Site, SiteAlter, SitePut
  <1>8. CASE Kill \/ StoreWriteback \/ (\E m \in Mode : Start(m)) \/ UNCHANGED vars
    BY <1>8 DEF Kill, StoreWriteback, Start, vars
  <1> QED
    BY <1>1, <1>2, <1>3, <1>4, <1>5, <1>6, <1>7, <1>8 DEF Next, Environment, FileStep

\* Where the process comes from, when it runs on.
LEMMA RunsOn ==
    ASSUME TypeInv, PhaseInv, [Next]_vars, pc' # "idle", pc # "idle"
    PROVE  /\ mode' = mode
           /\ pc' = "open" => pc = "open"
           /\ mode = "apply" /\ ~RenameOut => moved' = moved
           /\ pc' \in ReconcilePc => pc \in {"open"} \cup ReconcilePc
           /\ pc' \in {"dupPerm", "dupUnlink"} =>
                i' = i /\ (pc \in {"dupPerm", "dupUnlink"} \/ (live[i] = "orig" /\ quar[i] = "orig"))
  <1> USE DEF PhaseInv, RestorePc, ReconcilePc, ForwardPc, frame, proc, Goto, Exit, Die, Compensate,
              Partial, NextTarget, Advance
  <1>1. CASE OpenApply
    BY <1>1 DEF OpenApply
  <1>2. CASE OpenFollowUp
    BY <1>2 DEF OpenFollowUp, FirstStep, FirstStep
  <1>3. CASE PrepareLive
    BY <1>3 DEF PrepareLive, Advance
  <1>4. CASE BindManifests
    BY <1>4 DEF BindManifests
  <1>5. CASE SyncManifests
    BY <1>5 DEF SyncManifests
  <1>6. CASE BeginJournal
    BY <1>6 DEF BeginJournal
  <1>7. CASE CheckHeld
    BY <1>7 DEF CheckHeld
  <1>8. CASE RenameOut
    BY <1>8 DEF RenameOut
  <1>9. CASE SyncQuarantine
    BY <1>9 DEF SyncQuarantine
  <1>10. CASE SyncSource
    BY <1>10 DEF SyncSource
  <1>11. CASE Protect
    BY <1>11 DEF Protect
  <1>12. CASE VerifyQuarantined
    BY <1>12 DEF VerifyQuarantined
  <1>13. CASE RecordMoved
    BY <1>13 DEF RecordMoved, Advance
  <1>14. CASE Commit
    BY <1>14 DEF Commit
  <1>15. CASE UndoNext
    BY <1>15 DEF UndoNext
  <1>16. CASE UndoDone
    BY <1>16 DEF UndoDone
  <1>17. CASE RestoreCheck
    BY <1>17 DEF RestoreCheck
  <1>18. CASE RestorePerm
    BY <1>18 DEF RestorePerm
  <1>19. CASE RestoreRename
    BY <1>19 DEF RestoreRename
  <1>20. CASE RestoreSyncLive
    BY <1>20 DEF RestoreSyncLive
  <1>21. CASE RestoreSyncQuar
    BY <1>21 DEF RestoreSyncQuar
  <1>22. CASE RestoreVerify
    BY <1>22 DEF RestoreVerify
  <1>23. CASE RollbackPrecheck
    BY <1>23 DEF RollbackPrecheck, Advance
  <1>24. CASE Classify
    BY <1>24 DEF Classify, ClassifyMoved, ClassifyLive, ClassifyThirdState, NextTarget, Advance, CrashExactLive, CrashExactQuarantined
  <1>25. CASE DupPerm
    BY <1>25 DEF DupPerm
  <1>26. CASE DupUnlink
    BY <1>26 DEF DupUnlink
  <1>27. CASE DupSync
    BY <1>27 DEF DupSync
  <1>28. CASE LivePerm
    BY <1>28 DEF LivePerm
  <1>29. CASE VerifyHome
    BY <1>29 DEF VerifyHome, NextTarget, Advance
  <1>30. CASE Observe
    BY <1>30 DEF Observe
  <1>31. CASE ReadError
    BY <1>31 DEF ReadError
  <1>32. CASE Environment
    BY <1>32 DEF Environment, Kill, PowerLoss, Start, StoreWriteback, Writeback, Site, proc
  <1>33. CASE UNCHANGED vars
    BY <1>33 DEF vars, proc
  <1> QED
    BY <1>1, <1>2, <1>3, <1>4, <1>5, <1>6, <1>7, <1>8, <1>9, <1>10, <1>11, <1>12, <1>13, <1>14, <1>15, <1>16, <1>17, <1>18, <1>19, <1>20, <1>21, <1>22, <1>23, <1>24, <1>25, <1>26, <1>27, <1>28, <1>29, <1>30, <1>31, <1>32, <1>33 DEF Next, Helper

LEMMA StartOnly ==
    ASSUME [Next]_vars, pc = "idle", pc' # "idle"
    PROVE  \E m \in Mode : Start(m)
  BY DEF Next, Helper, OpenApply, OpenFollowUp, PrepareLive, BindManifests, SyncManifests, BeginJournal, CheckHeld, RenameOut, SyncQuarantine, SyncSource, Protect, VerifyQuarantined, RecordMoved, Commit, UndoNext, UndoDone, RestoreCheck, RestorePerm, RestoreRename, RestoreSyncLive, RestoreSyncQuar, RestoreVerify, RollbackPrecheck, Classify, DupPerm, DupUnlink, DupSync, LivePerm, VerifyHome, Observe, ReadError, Environment, Kill, PowerLoss, StoreWriteback, Writeback, Site, vars, proc

\* The history variable records every name a target has or could come to have.
LEMMA BeforeRecords ==
    ASSUME NEW t \in Targets, before' = [u \in Targets |-> Place[u] \cup Durable[u]],
           UNCHANGED fs
    PROVE  WasInSite(t)' /\ WasInStore(t)'
  BY DEF WasInSite, WasInStore, Place, Durable, fs, mem, disk

LEMMA SinceStartKept ==
    TypeInv /\ PhaseInv /\ HeldOrig /\ EmptiedBack /\ SinceStart /\ ContractNext => SinceStart'
  <1> SUFFICES ASSUME TypeInv, PhaseInv, HeldOrig, EmptiedBack, SinceStart, ContractNext
               PROVE  SinceStart'
    OBVIOUS
  <1>1. [Next]_vars
    BY DEF ContractNext
  <1>2. (before \in [Targets -> SUBSET {"site", "store"}])'
    BY DEF ContractNext, SinceStart, Place, Durable
  <1>3. CASE pc = "idle" /\ pc' # "idle"
    <2>1. /\ before' = [t \in Targets |-> Place[t] \cup Durable[t]]
          /\ UNCHANGED fs /\ pc' = "open" /\ moved' = {}
      BY <1>1, <1>3, StartOnly DEF ContractNext, Start
    <2>2. \A t \in Targets : WasInSite(t)' /\ WasInStore(t)'
      BY <2>1, BeforeRecords
    <2> QED
      BY <1>2, <2>1, <2>2 DEF SinceStart
  <1>4. CASE pc' = "idle"
    BY <1>2, <1>4 DEF SinceStart, ReconcilePc
  <1>5. CASE pc # "idle" /\ pc' # "idle"
    <2>1. before' = before
      BY <1>5 DEF ContractNext
    <2>2. ~PowerLoss
      BY <1>5, PowerLossEnds
    <2>3. ASSUME mode' = "apply", NEW t \in Targets
          PROVE  /\ WasInSite(t)'
                 /\ t \notin moved' => WasInStore(t)'
                 /\ t \in moved' /\ quar'[t] = "orig" => "site" \in before'[t]
      <3>1. /\ mode = "apply" /\ WasInSite(t)
            /\ t \notin moved => WasInStore(t)
            /\ t \in moved /\ quar[t] = "orig" => "site" \in before[t]
        BY <1>1, <1>5, <2>3, RunsOn DEF SinceStart
      <3>2. CASE RenameOut
        BY <2>1, <3>1, <3>2 DEF RenameOut, Accepts, SetNames, WasInSite, WasInStore, TypeInv, FilesOK,
           fs, mem, disk
      <3>3. CASE RestoreRename
        <4>1. i \in moved /\ quar[i] = "orig"
          BY <3>1, <3>3 DEF RestoreRename, EmptiedBack, Restores, RestorePc, HeldOrig
        <4>2. moved' = moved
          BY <3>3 DEF RestoreRename
        <4> QED
          BY <2>1, <3>1, <3>3, <4>1, <4>2 DEF RestoreRename, SetNames, WasInSite, WasInStore,
             TypeInv, FilesOK, fs, mem, disk
      <3>4. CASE ~RenameOut /\ ~RestoreRename
        <4>1. moved' = moved
          BY <1>1, <1>5, <3>1, <3>4, RunsOn
        <4> QED
          BY <1>1, <2>1, <2>2, <3>1, <3>4, <4>1, NamesStay
      <3> QED
        BY <3>2, <3>3, <3>4
    <2>4. ASSUME mode' = "reconcile-rollback", pc' \in {"open"} \cup ReconcilePc, NEW t \in Targets
          PROVE  WasInSite(t)' /\ WasInStore(t)'
      <3>1. pc \in {"open"} \cup ReconcilePc /\ mode = "reconcile-rollback"
        BY <1>1, <1>5, <2>4, RunsOn
      <3>2. ~RenameOut /\ ~RestoreRename
        BY <3>1 DEF RenameOut, RestoreRename, ReconcilePc
      <3> QED
        BY <1>1, <2>1, <3>1, <3>2, NamesStay DEF SinceStart
    <2>5. ASSUME pc' \in {"dupPerm", "dupUnlink"}
          PROVE  before'[i'] = {"site", "store"}
      <3>1. CASE pc \in {"dupPerm", "dupUnlink"}
        BY <1>1, <1>5, <2>1, <2>5, <3>1, RunsOn DEF SinceStart
      <3>2. CASE pc \notin {"dupPerm", "dupUnlink"}
        <4>1. i' = i /\ i' \in Targets /\ live[i] = "orig" /\ quar[i] = "orig"
          BY <1>1, <1>5, <2>5, <3>2, RunsOn, TypeKept DEF TypeInv, ProcessInv
        <4>2. pc \in {"open"} \cup ReconcilePc /\ mode = "reconcile-rollback"
          BY <1>1, <1>5, <2>5, RunsOn, PhaseKept DEF ReconcilePc, PhaseInv
        <4>3. before[i] \in SUBSET {"site", "store"} /\ "site" \in before[i] /\ "store" \in before[i]
          BY <4>1, <4>2 DEF SinceStart, WasInSite, WasInStore
        <4> QED
          BY <2>1, <4>1, <4>3
      <3> QED
        BY <3>1, <3>2
    <2> QED
      BY <1>2, <1>5, <2>3, <2>4, <2>5 DEF SinceStart
  <1> QED
    BY <1>3, <1>4, <1>5

-----------------------------------------------------------------------------
(* The steps of the contract.                                              *)

\* The names the contract speaks of.
names == <<live, quar, liveDisk, quarDisk>>

LEMMA Whereabouts ==
    /\ Place \in [Targets -> SUBSET {"site", "store"}]
    /\ Durable \in [Targets -> SUBSET {"site", "store"}]
    /\ \A t \in Targets :
        /\ "site" \in Place[t] <=> live[t] = "orig"
        /\ "store" \in Place[t] <=> quar[t] = "orig"
        /\ "site" \in Durable[t] <=> liveDisk[t] = "orig"
        /\ "store" \in Durable[t] <=> quarDisk[t] = "orig"
  BY DEF Place, Durable

LEMMA WhereaboutsNext ==
    /\ Place' \in [Targets -> SUBSET {"site", "store"}]
    /\ Durable' \in [Targets -> SUBSET {"site", "store"}]
    /\ \A t \in Targets :
        /\ "site" \in Place'[t] <=> live'[t] = "orig"
        /\ "store" \in Place'[t] <=> quar'[t] = "orig"
        /\ "site" \in Durable'[t] <=> liveDisk'[t] = "orig"
        /\ "store" \in Durable'[t] <=> quarDisk'[t] = "orig"
  BY DEF Place, Durable

\* Subsets of the two places are equal when they agree on both.
LEMMA SamePlaces ==
    ASSUME NEW S \in SUBSET {"site", "store"}, NEW T \in SUBSET {"site", "store"},
           "site" \in S <=> "site" \in T, "store" \in S <=> "store" \in T
    PROVE  S = T
  <1>1. \A x : x \in S <=> x \in T
    OBVIOUS
  <1> QED
    BY <1>1, SetExtensionality

\* One target of Place, or of Durable, changes when the names of no other do.
LEMMA PlaceChanges ==
    ASSUME NEW t \in Targets, NEW S, Place'[t] = S,
           \A u \in Targets \ {t} : live'[u] = live[u] /\ quar'[u] = quar[u]
    PROVE  Place' = [Place EXCEPT ![t] = S]
  <1>1. ASSUME NEW u \in Targets \ {t} PROVE Place'[u] = Place[u]
    <2>1. /\ Place[u] \in SUBSET {"site", "store"} /\ Place'[u] \in SUBSET {"site", "store"}
          /\ "site" \in Place'[u] <=> "site" \in Place[u]
          /\ "store" \in Place'[u] <=> "store" \in Place[u]
      BY <1>1, Whereabouts, WhereaboutsNext
    <2> QED
      BY <2>1, SamePlaces
  <1> QED
    BY <1>1, Whereabouts, WhereaboutsNext

LEMMA DurableChanges ==
    ASSUME NEW t \in Targets,
           \A u \in Targets \ {t} : liveDisk'[u] = liveDisk[u] /\ quarDisk'[u] = quarDisk[u]
    PROVE  Durable' = [Durable EXCEPT ![t] = Durable'[t]]
  <1>1. ASSUME NEW u \in Targets \ {t} PROVE Durable'[u] = Durable[u]
    <2>1. /\ Durable[u] \in SUBSET {"site", "store"} /\ Durable'[u] \in SUBSET {"site", "store"}
          /\ "site" \in Durable'[u] <=> "site" \in Durable[u]
          /\ "store" \in Durable'[u] <=> "store" \in Durable[u]
      BY <1>1, Whereabouts, WhereaboutsNext
    <2> QED
      BY <2>1, SamePlaces
  <1> QED
    BY <1>1, Whereabouts, WhereaboutsNext

LEMMA PlacesKept ==
    /\ UNCHANGED <<live, quar>> => UNCHANGED Place
    /\ UNCHANGED <<liveDisk, quarDisk>> => UNCHANGED Durable
  BY DEF Place, Durable

\* Place is the same when each name holds the object as before.
LEMMA PlacesAgree ==
    ASSUME \A u \in Targets : /\ live'[u] = "orig" <=> live[u] = "orig"
                              /\ quar'[u] = "orig" <=> quar[u] = "orig"
    PROVE  UNCHANGED Place
  <1>1. ASSUME NEW u \in Targets
        PROVE  Place'[u] = Place[u]
    <2>1. /\ Place[u] \in SUBSET {"site", "store"} /\ Place'[u] \in SUBSET {"site", "store"}
          /\ "site" \in Place'[u] <=> "site" \in Place[u]
          /\ "store" \in Place'[u] <=> "store" \in Place[u]
      BY <1>1, Whereabouts, WhereaboutsNext
    <2> QED
      BY <2>1, SamePlaces
  <1>2. Place \in [Targets -> SUBSET {"site", "store"}] /\ Place' \in [Targets -> SUBSET {"site", "store"}]
    BY Whereabouts, WhereaboutsNext
  <1> QED
    BY <1>1, <1>2

\* Some of what was done to one target becomes durable.
LEMMA SettleStep ==
    ASSUME NEW t \in Targets, UNCHANGED <<live, quar, before, result, Phase>>,
           \A u \in Targets \ {t} : liveDisk'[u] = liveDisk[u] /\ quarDisk'[u] = quarDisk[u],
           liveDisk'[t] \in {live[t], liveDisk[t]}, quarDisk'[t] \in {quar[t], quarDisk[t]},
           Names(live[t], quar[t], "orig") /\ Names(liveDisk[t], quarDisk[t], "orig")
                => Names(liveDisk'[t], quarDisk'[t], "orig")
    PROVE  Contract!Settle(t)
  <1>1. UNCHANGED Place
    BY PlacesKept
  <1>2. Durable'[t] \in SUBSET (Place[t] \cup Durable[t])
    BY Whereabouts, WhereaboutsNext
  <1>3. Durable'[t] = {} => {} \in {Place[t], Durable[t]}
    BY Whereabouts, WhereaboutsNext DEF Names
  <1>4. Durable' = [Durable EXCEPT ![t] = Durable'[t]]
    BY DurableChanges
  <1> QED
    BY <1>1, <1>2, <1>3, <1>4 DEF Contract!Settle, Contract!Names

\* What the contract's steps need to know of the state.
ContractInv ==
    /\ TypeInv /\ PhaseInv /\ HeldOrig /\ SecuredInv /\ LiveDurable
    /\ EmptiedBack /\ EmptiedReconciling /\ Seen /\ SinceStart

\* How a process of the helper ends, and with which word.
LEMMA Endings ==
    ASSUME TypeInv, PhaseInv, Helper, pc' = "idle"
    PROVE  /\ UNCHANGED names
           /\ \/ result' = "PARTIAL"
              \/ result' = "FAILED" /\ mode # "apply"
              \/ result' = "FAILED" /\ mode = "apply" /\ moved = {}
              \/ result' = "FAILED" /\ mode = "apply" /\ pc = "undo" /\ i = 0
              \/ result' = "QUARANTINED_EXACT" /\ pc = "commit"
              \/ /\ pc = "observe" /\ i = N /\ Expected(i)
                 /\ \/ result' = "QUARANTINED_EXACT" /\ mode = "observe-quarantined"
                    \/ result' = "ORIGINAL_EXACT" /\ mode = "observe-original"
              \/ result' = "ORIGINAL_EXACT" /\ mode = "rollback" /\ pc = "undo" /\ i = 0
              \/ /\ result' = "ORIGINAL_EXACT_RECONCILED" /\ mode = "reconcile-rollback"
                 /\ pc = "undo" /\ i = 0
  <1> USE DEF names, fs, mem, disk, SetPerm, MaybePerm, Goto, Exit, Die, MutationStarted, Compensate,
              Partial, NextTarget, Advance, PhaseInv, ProcessInv, ProcessOK, TypeInv, Targets,
              RestorePc
  <1>1. CASE OpenApply
    BY <1>1 DEF OpenApply
  <1>2. CASE OpenFollowUp
    BY <1>2 DEF OpenFollowUp, FirstStep, FirstStep
  <1>3. CASE PrepareLive
    BY <1>3 DEF PrepareLive, Advance
  <1>4. CASE BindManifests
    BY <1>4 DEF BindManifests
  <1>5. CASE SyncManifests
    BY <1>5 DEF SyncManifests
  <1>6. CASE BeginJournal
    BY <1>6 DEF BeginJournal
  <1>7. CASE CheckHeld
    BY <1>7 DEF CheckHeld
  <1>8. CASE RenameOut
    BY <1>8 DEF RenameOut
  <1>9. CASE SyncQuarantine
    BY <1>9 DEF SyncQuarantine
  <1>10. CASE SyncSource
    BY <1>10 DEF SyncSource
  <1>11. CASE Protect
    BY <1>11 DEF Protect
  <1>12. CASE VerifyQuarantined
    BY <1>12 DEF VerifyQuarantined
  <1>13. CASE RecordMoved
    BY <1>13 DEF RecordMoved, Advance
  <1>14. CASE Commit
    BY <1>14 DEF Commit
  <1>15. CASE UndoNext
    BY <1>15 DEF UndoNext
  <1>16. CASE UndoDone
    BY <1>16 DEF UndoDone
  <1>17. CASE RestoreCheck
    BY <1>17 DEF RestoreCheck
  <1>18. CASE RestorePerm
    BY <1>18 DEF RestorePerm
  <1>19. CASE RestoreRename
    BY <1>19 DEF RestoreRename
  <1>20. CASE RestoreSyncLive
    BY <1>20 DEF RestoreSyncLive
  <1>21. CASE RestoreSyncQuar
    BY <1>21 DEF RestoreSyncQuar
  <1>22. CASE RestoreVerify
    BY <1>22 DEF RestoreVerify
  <1>23. CASE RollbackPrecheck
    BY <1>23 DEF RollbackPrecheck, Advance
  <1>24. CASE Classify
    BY <1>24 DEF Classify, ClassifyMoved, ClassifyLive, ClassifyThirdState, NextTarget, Advance
  <1>25. CASE DupPerm
    BY <1>25 DEF DupPerm
  <1>26. CASE DupUnlink
    BY <1>26 DEF DupUnlink
  <1>27. CASE DupSync
    BY <1>27 DEF DupSync
  <1>28. CASE LivePerm
    BY <1>28 DEF LivePerm
  <1>29. CASE VerifyHome
    BY <1>29 DEF VerifyHome, NextTarget, Advance
  <1>30. CASE Observe
    BY <1>30 DEF Observe, Accepts, ObservedReceipt
  <1>31. CASE ReadError
    BY <1>31 DEF ReadError
  <1> QED
    BY <1>1, <1>2, <1>3, <1>4, <1>5, <1>6, <1>7, <1>8, <1>9, <1>10, <1>11, <1>12, <1>13, <1>14, <1>15, <1>16, <1>17, <1>18, <1>19, <1>20, <1>21, <1>22, <1>23, <1>24, <1>25, <1>26, <1>27, <1>28, <1>29, <1>30, <1>31 DEF Next, Helper, Environment

\* A process that ends says what is true by the contract.
LEMMA EndsTruthfully ==
    ASSUME ContractInv, Helper, pc' = "idle", before' = before
    PROVE  Contract!Report(result')
  <1>1. pc # "idle" /\ mode \in Mode
    BY DEF ContractInv, TypeInv, ProcessInv, ProcessOK, Helper, OpenApply, OpenFollowUp, PrepareLive, BindManifests, SyncManifests, BeginJournal, CheckHeld, RenameOut, SyncQuarantine, SyncSource, Protect, VerifyQuarantined, RecordMoved, Commit, UndoNext, UndoDone, RestoreCheck, RestorePerm, RestoreRename, RestoreSyncLive, RestoreSyncQuar, RestoreVerify, RollbackPrecheck, Classify, DupPerm, DupUnlink, DupSync, LivePerm, VerifyHome, Observe, ReadError
  <1>2. /\ UNCHANGED names /\ Phase' = "idle" /\ Phase # "idle"
        /\ mode = "apply" => Phase \in {"apply", "compensate"}
        /\ mode # "apply" => Phase = mode
    BY <1>1, Endings DEF ContractInv, Phase, Mode
  <1>3. Contract!Truthful(result')
    <2> USE DEF Contract!Truthful, Contract!Names
    <2>1. CASE result' = "PARTIAL"
      BY <1>2, <2>1
    <2>2. CASE result' = "FAILED" /\ mode # "apply"
      BY <1>2, <2>2, <1>1 DEF Mode
    <2>3. CASE result' = "FAILED" /\ mode = "apply" /\ (moved = {} \/ (pc = "undo" /\ i = 0))
      <3>1. ASSUME NEW t \in Targets
            PROVE  Place[t] \cup Durable[t] \subseteq before[t]
        <4>1. WasInSite(t)
          BY <1>1, <2>3 DEF ContractInv, SinceStart
        <4>2. WasInStore(t)
          BY <1>1, <2>3 DEF ContractInv, SinceStart, EmptiedBack, RestorePc, Restores, WasInStore, Targets
        <4> QED
          BY <4>1, <4>2, Whereabouts DEF WasInSite, WasInStore
      <3> QED
        BY <1>2, <2>3, <3>1
    <2>4. CASE result' = "QUARANTINED_EXACT" /\ pc = "commit"
      <3>1. Phase = "apply"
        BY <2>4 DEF Phase, ContractInv, PhaseInv, ForwardPc, RestorePc
      <3>2. ASSUME NEW t \in Targets PROVE Place[t] \cup Durable[t] = {"store"}
        <4>1. Secured(t)
          BY <2>4 DEF ContractInv, SecuredInv
        <4> QED
          BY <4>1, Whereabouts DEF Secured
      <3> QED
        BY <2>4, <3>1, <3>2
    <2>5. CASE pc = "observe" /\ i = N /\ Expected(i) /\ result' = "QUARANTINED_EXACT" /\ mode = "observe-quarantined"
      <3>1. ASSUME NEW t \in Targets PROVE Place[t] = {"store"}
        <4>1. quar[t] = "orig" /\ live[t] # "orig"
          BY <2>5 DEF ContractInv, Seen, Expected, ExactQuarantined, Targets
        <4> QED
          BY <4>1, Whereabouts
      <3> QED
        BY <1>2, <2>5, <3>1
    <2>6. CASE pc = "observe" /\ i = N /\ Expected(i) /\ result' = "ORIGINAL_EXACT" /\ mode = "observe-original"
      <3>1. ASSUME NEW t \in Targets PROVE Place[t] \subseteq {"site"}
        <4>1. quar[t] # "orig"
          BY <2>6 DEF ContractInv, Seen, Expected, ExactLive, Targets
        <4> QED
          BY <4>1, Whereabouts
      <3> QED
        BY <1>2, <2>6, <3>1
    <2>7. CASE result' = "ORIGINAL_EXACT" /\ mode = "rollback" /\ pc = "undo" /\ i = 0
      <3>1. ASSUME NEW t \in Targets PROVE Place[t] \cup Durable[t] \subseteq {"site"}
        <4>1. quar[t] # "orig" /\ quarDisk[t] # "orig"
          BY <2>7 DEF ContractInv, EmptiedBack, RestorePc, Restores, Targets
        <4> QED
          BY <4>1, Whereabouts
      <3> QED
        BY <1>2, <2>7, <3>1
    <2>8. CASE /\ result' = "ORIGINAL_EXACT_RECONCILED" /\ mode = "reconcile-rollback"
               /\ pc = "undo" /\ i = 0
      <3>1. ASSUME NEW t \in Targets PROVE Place[t] \subseteq {"site"}
        <4>1. quar[t] # "orig"
          BY <2>8 DEF ContractInv, EmptiedBack, EmptiedReconciling, RestorePc, Restores, Targets
        <4> QED
          BY <4>1, Whereabouts
      <3> QED
        BY <1>2, <2>8, <3>1
    <2> QED
      BY <2>1, <2>2, <2>3, <2>4, <2>5, <2>6, <2>7, <2>8, Endings DEF ContractInv
  <1>4. UNCHANGED <<Place, Durable>>
    BY <1>2, PlacesKept DEF names
  <1> QED
    BY <1>2, <1>3, <1>4 DEF Contract!Report

\* How a process of the helper runs on.  An apply that turns back leaves the
\* names alone in that step.
LEMMA Running ==
    ASSUME TypeInv, PhaseInv, Helper, pc' # "idle"
    PROVE  /\ pc # "idle" /\ mode' = mode /\ result' = result
           /\ pc \in RestorePc => pc' \in RestorePc
           /\ UNCHANGED names \/ (pc' \in RestorePc => pc \in RestorePc)
  <1> USE DEF names, fs, mem, disk, SetPerm, MaybePerm, Goto, Exit, Die, Compensate, Partial, frame,
              NextTarget, Advance, RestorePc, PhaseInv
  <1>1. CASE OpenApply
    BY <1>1 DEF OpenApply
  <1>2. CASE OpenFollowUp
    BY <1>2 DEF OpenFollowUp, FirstStep, FirstStep
  <1>3. CASE PrepareLive
    BY <1>3 DEF PrepareLive, Advance
  <1>4. CASE BindManifests
    BY <1>4 DEF BindManifests
  <1>5. CASE SyncManifests
    BY <1>5 DEF SyncManifests
  <1>6. CASE BeginJournal
    BY <1>6 DEF BeginJournal
  <1>7. CASE CheckHeld
    BY <1>7 DEF CheckHeld
  <1>8. CASE RenameOut
    BY <1>8 DEF RenameOut
  <1>9. CASE SyncQuarantine
    BY <1>9 DEF SyncQuarantine
  <1>10. CASE SyncSource
    BY <1>10 DEF SyncSource
  <1>11. CASE Protect
    BY <1>11 DEF Protect
  <1>12. CASE VerifyQuarantined
    BY <1>12 DEF VerifyQuarantined
  <1>13. CASE RecordMoved
    BY <1>13 DEF RecordMoved, Advance
  <1>14. CASE Commit
    BY <1>14 DEF Commit
  <1>15. CASE UndoNext
    BY <1>15 DEF UndoNext
  <1>16. CASE UndoDone
    BY <1>16 DEF UndoDone
  <1>17. CASE RestoreCheck
    BY <1>17 DEF RestoreCheck
  <1>18. CASE RestorePerm
    BY <1>18 DEF RestorePerm
  <1>19. CASE RestoreRename
    BY <1>19 DEF RestoreRename
  <1>20. CASE RestoreSyncLive
    BY <1>20 DEF RestoreSyncLive
  <1>21. CASE RestoreSyncQuar
    BY <1>21 DEF RestoreSyncQuar
  <1>22. CASE RestoreVerify
    BY <1>22 DEF RestoreVerify
  <1>23. CASE RollbackPrecheck
    BY <1>23 DEF RollbackPrecheck, Advance
  <1>24. CASE Classify
    BY <1>24 DEF Classify, ClassifyMoved, ClassifyLive, ClassifyThirdState, NextTarget, Advance, CrashExactLive, CrashExactQuarantined
  <1>25. CASE DupPerm
    BY <1>25 DEF DupPerm
  <1>26. CASE DupUnlink
    BY <1>26 DEF DupUnlink
  <1>27. CASE DupSync
    BY <1>27 DEF DupSync
  <1>28. CASE LivePerm
    BY <1>28 DEF LivePerm
  <1>29. CASE VerifyHome
    BY <1>29 DEF VerifyHome, NextTarget, Advance
  <1>30. CASE Observe
    BY <1>30 DEF Observe
  <1>31. CASE ReadError
    BY <1>31 DEF ReadError
  <1> QED
    BY <1>1, <1>2, <1>3, <1>4, <1>5, <1>6, <1>7, <1>8, <1>9, <1>10, <1>11, <1>12, <1>13, <1>14, <1>15, <1>16, <1>17, <1>18, <1>19, <1>20, <1>21, <1>22, <1>23, <1>24, <1>25, <1>26, <1>27, <1>28, <1>29, <1>30, <1>31 DEF Next, Helper, Environment

LEMMA RunningPhase ==
    ASSUME TypeInv, PhaseInv, Helper, pc' # "idle"
    PROVE  /\ result' = result
           /\ Phase' = Phase \/ (Phase = "apply" /\ Phase' = "compensate" /\ UNCHANGED names)
           /\ Phase = IF mode = "apply" /\ pc \in RestorePc THEN "compensate" ELSE mode
  BY Running DEF Phase

\* A helper that leaves the names alone and goes on.
LEMMA NothingMoves ==
    ASSUME TypeInv, PhaseInv, Helper, pc' # "idle", before' = before, UNCHANGED names
    PROVE  Contract!Turn \/ UNCHANGED Contract!vars
  BY RunningPhase, PlacesKept DEF names, Contract!Turn, Contract!vars

\* The object leaves the site, or what left is not the object.
LEMMA MovesOut ==
    ASSUME ContractInv, RenameOut, pc' # "idle", before' = before, ~UNCHANGED names
    PROVE  Contract!MoveOut(i) \/ UNCHANGED Contract!vars
  <1>1. /\ i \in Targets /\ live[i] # "none" /\ quar[i] = "none"
        /\ SetNames(i, "none", live[i])
    BY DEF RenameOut, Accepts, names, fs, mem, disk, ContractInv, TypeInv, ProcessInv
  <1>2. /\ live'[i] = "none" /\ quar'[i] = live[i] /\ UNCHANGED <<liveDisk, quarDisk>>
        /\ \A u \in Targets \ {i} : live'[u] = live[u] /\ quar'[u] = quar[u]
    BY <1>1 DEF SetNames, ContractInv, TypeInv, FilesOK, disk
  <1>3. result' = result /\ Phase' = Phase /\ Phase = "apply"
    BY RunningPhase DEF ContractInv, PhaseInv, RenameOut, Helper, ForwardPc, RestorePc
  <1>4. UNCHANGED Durable
    BY <1>2, PlacesKept
  <1>5. CASE live[i] = "orig"
    <2>1. Place[i] = {"site"} /\ Place'[i] = {"store"}
      BY <1>1, <1>2, <1>5, Whereabouts, WhereaboutsNext
    <2>2. Place' = [Place EXCEPT ![i] = {"store"}]
      BY <1>1, <1>2, <2>1, PlaceChanges
    <2> QED
      BY <1>3, <1>4, <2>1, <2>2 DEF Contract!MoveOut, Contract!Relocate
  <1>6. CASE live[i] # "orig"
    <2>1. \A u \in Targets : /\ live'[u] = "orig" <=> live[u] = "orig"
                             /\ quar'[u] = "orig" <=> quar[u] = "orig"
      BY <1>1, <1>2, <1>6
    <2>2. UNCHANGED Place
      BY <2>1, PlacesAgree
    <2> QED
      BY <1>3, <1>4, <2>2 DEF Contract!vars
  <1> QED
    BY <1>5, <1>6

\* The object comes back into the site.
LEMMA MovesBack ==
    ASSUME ContractInv, RestoreRename, pc' # "idle", before' = before, ~UNCHANGED names
    PROVE  Contract!MoveBack(i)
  <1>1. /\ i \in Targets /\ live[i] = "none" /\ quar[i] = "orig"
        /\ SetNames(i, quar[i], "none")
    BY DEF RestoreRename, Accepts, names, fs, mem, disk, ContractInv, TypeInv, ProcessInv, HeldOrig
  <1>2. /\ live'[i] = "orig" /\ quar'[i] = "none" /\ UNCHANGED <<liveDisk, quarDisk>>
        /\ \A u \in Targets \ {i} : live'[u] = live[u] /\ quar'[u] = quar[u]
    BY <1>1 DEF SetNames, ContractInv, TypeInv, FilesOK, disk
  <1>3. /\ result' = result /\ Phase' = Phase
        /\ Phase \in {"compensate", "rollback", "reconcile-rollback"}
    BY RunningPhase DEF ContractInv, PhaseInv, RestoreRename, Helper, RestorePc
  <1>4. UNCHANGED Durable
    BY <1>2, PlacesKept
  <1>5. Place[i] = {"store"} /\ Place'[i] = {"site"}
    BY <1>1, <1>2, Whereabouts, WhereaboutsNext
  <1>6. Place' = [Place EXCEPT ![i] = {"site"}]
    BY <1>1, <1>2, <1>5, PlaceChanges
  <1> QED
    BY <1>3, <1>4, <1>5, <1>6 DEF Contract!MoveBack, Contract!Relocate

\* The second name of the object goes.
LEMMA Resolves ==
    ASSUME ContractInv, DupUnlink, pc' # "idle", before' = before, ~UNCHANGED names
    PROVE  Contract!Resolve(i)
  <1>1. /\ i \in Targets /\ SetNames(i, live[i], "none") /\ before[i] = {"site", "store"}
    BY DEF DupUnlink, names, fs, mem, disk, ContractInv, TypeInv, ProcessInv, SinceStart
  <1>2. /\ live'[i] = live[i] /\ quar'[i] = "none" /\ UNCHANGED <<liveDisk, quarDisk>>
        /\ \A u \in Targets \ {i} : live'[u] = live[u] /\ quar'[u] = quar[u]
    BY <1>1 DEF SetNames, ContractInv, TypeInv, FilesOK, disk
  <1>3. result' = result /\ Phase' = Phase /\ Phase = "reconcile-rollback"
    BY RunningPhase DEF ContractInv, PhaseInv, DupUnlink, Helper, ReconcilePc, RestorePc
  <1>4. UNCHANGED Durable
    BY <1>2, PlacesKept
  <1>5. Place'[i] = Place[i] \ {"store"}
    <2>1. Place'[i] \in SUBSET {"site", "store"} /\ Place[i] \ {"store"} \in SUBSET {"site", "store"}
      BY <1>1, Whereabouts, WhereaboutsNext
    <2> QED
      BY <1>1, <1>2, <2>1, Whereabouts, WhereaboutsNext, SamePlaces
  <1>6. Place' = [Place EXCEPT ![i] = Place[i] \ {"store"}]
    BY <1>1, <1>2, <1>5, PlaceChanges
  <1> QED
    BY <1>1, <1>3, <1>4, <1>6 DEF Contract!Resolve, Contract!Relocate

\* An fsync of a directory makes one of the names of a target durable.
LEMMA Settles ==
    ASSUME ContractInv, pc' # "idle", before' = before, ~UNCHANGED names,
           SyncQuarantine \/ SyncSource \/ RestoreSyncLive \/ RestoreSyncQuar \/ DupSync
    PROVE  Contract!Settle(i)
  <1>1. i \in Targets /\ Helper
    BY DEF SyncQuarantine, SyncSource, RestoreSyncLive, RestoreSyncQuar, DupSync, Helper,
       ContractInv, TypeInv, ProcessInv
  <1>2. SyncQuarDir(i) \/ SyncLiveDir(i)
    BY DEF SyncQuarantine, SyncSource, RestoreSyncLive, RestoreSyncQuar, DupSync, names, fs, mem, disk
  <1>3. /\ UNCHANGED <<live, quar>>
        /\ \A u \in Targets \ {i} : liveDisk'[u] = liveDisk[u] /\ quarDisk'[u] = quarDisk[u]
    BY <1>1, <1>2 DEF SyncQuarDir, SyncLiveDir, mem, ContractInv, TypeInv, FilesOK
  <1>4. UNCHANGED <<result, Phase>>
    BY <1>1, RunningPhase DEF ContractInv
  <1>5. liveDisk'[i] \in {live[i], liveDisk[i]} /\ quarDisk'[i] \in {quar[i], quarDisk[i]}
    BY <1>1, <1>2 DEF SyncQuarDir, SyncLiveDir, mem, ContractInv, TypeInv, FilesOK
  <1>6. ASSUME Names(live[i], quar[i], "orig"), Names(liveDisk[i], quarDisk[i], "orig")
        PROVE  Names(liveDisk'[i], quarDisk'[i], "orig")
    <2> USE <1>1, <1>2, <1>6 DEF Names, SyncQuarDir, SyncLiveDir, mem, TypeInv, FilesOK, fs, disk, names
    <2>1. CASE SyncQuarantine
      BY <2>1 DEF ContractInv, SyncQuarantine, SecuredInv, SecuringOrder
    <2>2. CASE SyncSource
      BY <2>2 DEF ContractInv, SyncSource, SecuredInv, SecuringOrder
    <2>3. CASE RestoreSyncLive
      BY <2>3 DEF ContractInv, RestoreSyncLive, EmptiedBack
    <2>4. CASE RestoreSyncQuar
      BY <2>4 DEF ContractInv, RestoreSyncQuar, EmptiedBack, LiveDurable
    <2>5. CASE DupSync
      BY <2>5 DEF ContractInv, DupSync, EmptiedBack, LiveDurable
    <2> QED
      BY <2>1, <2>2, <2>3, <2>4, <2>5
  <1> QED
    BY <1>1, <1>3, <1>4, <1>5, <1>6, SettleStep

\* No other step of the helper touches the names.
LEMMA OtherStepsKeepWhereabouts ==
    ASSUME Helper, ~RenameOut, ~RestoreRename, ~DupUnlink,
           ~SyncQuarantine, ~SyncSource, ~RestoreSyncLive, ~RestoreSyncQuar, ~DupSync
    PROVE  UNCHANGED names
  <1>1. CASE ~FileStep
    BY <1>1, OtherStepsKeepFiles DEF names, fs, mem, disk
  <1>2. CASE FileStep
    BY <1>2 DEF FileStep, Protect, RestorePerm, DupPerm, LivePerm, SetPerm, MaybePerm, names, fs,
       mem, disk
  <1> QED
    BY <1>1, <1>2

LEMMA HelperImplements ==
    ASSUME ContractInv, Helper, before' = before
    PROVE  Contract!Next \/ UNCHANGED Contract!vars
  <1>1. CASE pc' = "idle"
    <2>1. result' \in {"QUARANTINED_EXACT", "ORIGINAL_EXACT", "ORIGINAL_EXACT_RECONCILED",
                       "FAILED", "PARTIAL", "KILLED"}
      BY <1>1, Endings DEF ContractInv
    <2> QED
      BY <1>1, <2>1, EndsTruthfully DEF Contract!Next
  <1>2. CASE pc' # "idle" /\ UNCHANGED names
    BY <1>2, NothingMoves DEF ContractInv, Contract!Next
  <1>3. CASE pc' # "idle" /\ ~UNCHANGED names
    <2>1. i \in Targets \/ ~(\/ RenameOut \/ RestoreRename \/ DupUnlink
               \/ SyncQuarantine \/ SyncSource \/ RestoreSyncLive \/ RestoreSyncQuar \/ DupSync)
      BY DEF ContractInv, TypeInv, ProcessInv, RenameOut, RestoreRename, DupUnlink, SyncQuarantine,
         SyncSource, RestoreSyncLive, RestoreSyncQuar, DupSync
    <2> QED
      BY <1>3, <2>1, MovesOut, MovesBack, Resolves, Settles, OtherStepsKeepWhereabouts
         DEF Contract!Next
  <1> QED
    BY <1>1, <1>2, <1>3

\* So are the steps of the environment, the loss of power and the site's.
LEMMA EnvironmentImplements ==
    ASSUME ContractInv, Environment, ContractNext
    PROVE  Contract!Next \/ UNCHANGED Contract!vars
  <1>1. ASSUME NEW m \in Mode, Start(m) PROVE Contract!Begin(m)
    <2>1. /\ UNCHANGED <<Place, Durable>> /\ Phase = "idle" /\ Phase' = m /\ result' = "NONE"
      BY <1>1, PlacesKept DEF Start, fs, mem, disk, Phase, RestorePc
    <2>2. before' = [t \in Targets |-> Place[t] \cup Durable[t]]
      BY <1>1 DEF Start, ContractNext
    <2> QED
      BY <2>1, <2>2 DEF Contract!Begin, Contract!Names
  <1> USE DEF ContractNext, Contract!Next, Contract!vars
  <1>2. CASE Kill
    <2>1. UNCHANGED <<Place, Durable, before>> /\ Phase' = "idle" /\ Phase # "idle" /\ result' = "KILLED"
      BY <1>2, PlacesKept DEF Kill, Exit, fs, mem, disk, Phase, ContractInv, TypeInv, ProcessInv,
         ProcessOK, Mode
    <2> QED
      BY <2>1 DEF Contract!Report, Contract!Truthful
  <1>3. CASE PowerLoss
    <2>1. Place' = Durable /\ Durable' = Durable
      BY <1>3 DEF PowerLoss, Place, Durable, disk
    <2>2. UNCHANGED before /\ Phase' = "idle"
          /\ result' = IF Phase = "idle" THEN result ELSE "KILLED"
      BY <1>3 DEF PowerLoss, Exit, Phase, ContractInv, TypeInv, ProcessInv, ProcessOK, Mode
    <2> QED
      BY <2>1, <2>2 DEF Contract!PowerLoss
  <1>4. CASE StoreWriteback
    BY <1>4, PlacesKept DEF StoreWriteback, fs, mem, disk, proc, Phase
  <1>5. ASSUME NEW t \in Targets, Writeback(t) PROVE Contract!Settle(t)
    <2>1. UNCHANGED <<live, quar, before, result, Phase>>
      BY <1>5 DEF Writeback, mem, proc, Phase
    <2>2. PICK l \in Entry, q \in Entry :
            /\ Between(t, l, q)
            /\ liveDisk' = [liveDisk EXCEPT ![t] = l]
            /\ quarDisk' = [quarDisk EXCEPT ![t] = q]
      BY <1>5 DEF Writeback
    <2>3. /\ liveDisk'[t] = l /\ quarDisk'[t] = q
          /\ \A u \in Targets \ {t} : liveDisk'[u] = liveDisk[u] /\ quarDisk'[u] = quarDisk[u]
      BY <2>2 DEF ContractInv, TypeInv, FilesOK
    <2> QED
      BY <2>1, <2>2, <2>3, SettleStep DEF Between
  <1>6. ASSUME NEW t \in Targets, Site(t)
        PROVE  Contract!Take(t) \/ UNCHANGED Contract!vars
    <2>1. UNCHANGED <<Durable, Phase, before, result>>
      BY <1>6, PlacesKept DEF Site, disk, proc, Phase
    <2>2. CASE SiteAlter(t)
      BY <2>1, <2>2, PlacesKept DEF SiteAlter, mem
    <2>3. CASE \E o \in {"none", "foreign"} : SitePut(t, o)
      <3>1. /\ live'[t] # "orig" /\ UNCHANGED quar
            /\ \A u \in Targets \ {t} : live'[u] = live[u]
        BY <2>3 DEF SitePut, ContractInv, TypeInv, FilesOK
      <3>2. Place'[t] = Place[t] \ {"site"}
        <4>1. Place'[t] \in SUBSET {"site", "store"} /\ Place[t] \ {"site"} \in SUBSET {"site", "store"}
          BY Whereabouts, WhereaboutsNext
        <4> QED
          BY <3>1, <4>1, Whereabouts, WhereaboutsNext, SamePlaces
      <3>3. Place' = [Place EXCEPT ![t] = Place[t] \ {"site"}]
        BY <3>1, <3>2, PlaceChanges
      <3> QED
        BY <2>1, <3>3 DEF Contract!Take, Contract!Relocate
    <2> QED
      BY <1>6, <2>2, <2>3 DEF Site
  <1> QED
    BY <1>1, <1>2, <1>3, <1>4, <1>5, <1>6 DEF Environment, Mode

LEMMA ContractInitially == ContractInit => ContractInv /\ Contract!Init
  <1> SUFFICES ASSUME ContractInit PROVE ContractInv /\ Contract!Init
    OBVIOUS
  <1>1. TypeInv /\ PhaseInv /\ HeldOrig /\ SecuredInv
    BY InitTyped DEF ContractInit, Init, PhaseInv, HeldOrig, SecuredInv, SecuringOrder, ForwardPc,
       RestorePc, ReconcilePc
  <1>2. LiveDurable /\ EmptiedBack /\ EmptiedReconciling /\ Seen
    BY DEF ContractInit, Init, LiveDurable, EmptiedBack, EmptiedReconciling, Seen, RestorePc,
       ReconcilePc
  <1>3. SinceStart
    BY Whereabouts DEF ContractInit, Init, SinceStart, ReconcilePc
  <1>4. Contract!Init
    <2>1. \A t \in Targets : Place[t] = {"site"}
      BY DEF ContractInit, Init, Place
    <2>2. Place = [t \in Targets |-> {"site"}] /\ Durable = Place
      BY <2>1, Whereabouts DEF ContractInit, Init, Place, Durable
    <2> QED
      BY <2>2 DEF ContractInit, Init, Phase, Contract!Init
  <1> QED
    BY <1>1, <1>2, <1>3, <1>4 DEF ContractInv

LEMMA ContractKept == ContractInv /\ [ContractNext]_<<vars, before>> => ContractInv'
  <1> SUFFICES ASSUME ContractInv, [ContractNext]_<<vars, before>> PROVE ContractInv'
    OBVIOUS
  <1>1. [Next]_vars
    BY DEF ContractNext
  <1>2. (TypeInv /\ PhaseInv /\ HeldOrig /\ SecuredInv)'
    BY <1>1, TypeKept, PhaseKept, HeldKept, SecuredKept DEF ContractInv
  <1>3. (LiveDurable /\ EmptiedBack /\ EmptiedReconciling /\ Seen)'
    BY <1>1, LiveDurableKept, EmptiedKept, ReconcilingKept, SeenKept DEF ContractInv
  <1>4. SinceStart'
    <2>1. CASE ContractNext
      BY <2>1, SinceStartKept DEF ContractInv
    <2>2. CASE UNCHANGED <<vars, before>>
      BY <2>2 DEF ContractInv, SinceStart, WasInSite, WasInStore, vars, fs, mem, disk, proc
    <2> QED
      BY <2>1, <2>2
  <1> QED
    BY <1>2, <1>3, <1>4 DEF ContractInv

LEMMA ContractSteps ==
    ContractInv /\ [ContractNext]_<<vars, before>> => [Contract!Next]_(Contract!vars)
  <1> SUFFICES ASSUME ContractInv, [ContractNext]_<<vars, before>>
               PROVE  Contract!Next \/ UNCHANGED Contract!vars
    OBVIOUS
  <1>1. CASE ContractNext /\ Helper
    <2>1. pc # "idle"
      BY <1>1, Endings, Running DEF ContractInv, Helper, OpenApply, OpenFollowUp, PrepareLive, BindManifests, SyncManifests, BeginJournal, CheckHeld, RenameOut, SyncQuarantine, SyncSource, Protect, VerifyQuarantined, RecordMoved, Commit, UndoNext, UndoDone, RestoreCheck, RestorePerm, RestoreRename, RestoreSyncLive, RestoreSyncQuar, RestoreVerify, RollbackPrecheck, Classify, DupPerm, DupUnlink, DupSync, LivePerm, VerifyHome, Observe, ReadError
    <2> QED
      BY <1>1, <2>1, HelperImplements DEF ContractNext
  <1>2. CASE ContractNext /\ Environment
    BY <1>2, EnvironmentImplements
  <1>3. CASE UNCHANGED <<vars, before>>
    BY <1>3, PlacesKept DEF vars, fs, mem, disk, proc, Phase, Contract!vars
  <1> QED
    BY <1>1, <1>2, <1>3 DEF ContractNext, Next

\* Every behaviour of the helper and its disk, with any number of targets, of
\* crashes, of failing calls and of interferences of the site, is a behaviour
\* of the contract: between any two system calls a target loses its last name
\* to nobody but the site, and no receipt or exit code says what is not so.
THEOREM QuarantineImplementsContract == ContractSpec => ImplementsContract
  <1>1. ContractInit => ContractInv /\ Contract!Init
    BY ContractInitially
  <1>2. ContractInv /\ [ContractNext]_<<vars, before>> => ContractInv'
    BY ContractKept
  <1>3. ContractInv /\ [ContractNext]_<<vars, before>> => [Contract!Next]_(Contract!vars)
    BY ContractSteps
  <1> QED
    BY <1>1, <1>2, <1>3, PTL DEF ContractSpec, ImplementsContract, Contract!Spec
=============================================================================
