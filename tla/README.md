# Verification of wapp-security-core

TLA+ models of the concurrent and crash-exposed parts of this repository, the
TLC configurations that check them, and theorems proved with TLAPS. Paths such
as `src/native/...` are the repository's own.

## The system

The repository is the public core of a WordPress incident-response tool. It
has few long-running processes and keeps no database: its state is files and
directories, and its processes are short commands that an operator, a reviewed
launcher or another command starts. What is hard in it is what happens
*between* commands and *between* system calls.

| Part | State it keeps | Operations | Who it talks to |
|---|---|---|---|
| exact-file quarantine helper (`native/exact-file-quarantine-helper.c`) | live and quarantine names, permissions, two manifests, a journal | `apply`, `rollback`, `reconcile-rollback`, two observations | started by its loader; shares the file system with the site |
| its loader and memfd launcher (`lib/native-exact-file-quarantine-ephemeral-loader.sh`, `native/exact-file-quarantine-ephemeral-memfd-launcher.c`) | a staging directory per operation | stage, execute, clean up | the helper |
| emergency operator validator (`lib/emergency-operator-v1.py`) | none; reads packages, reviews, a registry, reservations, one-shot markers | `verify-package`, `verify-review`, `registry-package`, `verify-current-dispatch`, `exec-launcher`, `verify-closure`, legacy reconciliation | the two commands below, and reviewed launchers outside the repository |
| `bin/wapp-emergency-clean` | what it showed to its human | review, execute, reopen | validator, integrity, launcher |
| `bin/wapp-closure-check` | none | decide CLEAN for a lineage | validator, integrity |
| displaced inventory helper (`native/displaced-inventory-helper.c`) | none | snapshots of a tree, two-pass diagnostic, volatile inventory | its loaders; the site's files |
| its loaders and launcher (`lib/native-displaced-inventory-*.sh`, `native/ephemeral-memfd-launcher.c`) | a staging directory | stage, execute, clean up | the inventory helper |
| signed drift diagnostic (`bin/wapp-signed-drift-diagnostic`, `lib/native-drift-diagnostic.py`) | a signed artifact | create, verify | inventory output, product seal, integrity |
| volatile runtime disposition (`lib/volatile-runtime-disposition.py`) | signed dispositions, valid for two hours | create, policy token, inventory create, verify | two diagnostics, inventory helper |
| read-only security surface (`lib/read-only-security-surface.py`) | none | classify findings | inventories |
| plugin policy (`lib/plugin-policy.py`) | none | a disposition for one record | - |
| recovery integrity (`lib/recovery-integrity.sh`) | a key in the Keychain, `.hmac` files | create key, sign, verify | every command |
| dispatch, sealing, release and build scripts | none between calls | - | - |

`PROJECT.json` lists the same parts with their status, and under `hazards`
every place where the code is exposed to an order of events, a crash, a stale
check or a boundary that its tests hardly reach.

What makes each part correct:

- *quarantine helper*: no target is ever without a name, not even after a loss
  of power; a receipt means what it says and stays true; what a crash leaves
  can be reconciled; nothing of the site's is overwritten; every process ends.
- *loaders*: one helper at a time per operation; nothing staged is left behind,
  and a cleanup that is called verified is one.
- *emergency operator*: at most one reopen of a lineage changes the site;
  what became stale during a prompt is not run.
- *closure and reconciliation*: a lineage closes only on what was seen after its
  last mutation, on one site and one Product; text alone never makes an
  execution; a truthful lineage can close.
- *inventory and diagnostic*: two passes that agree are one moment of the tree;
  every difference of two passes that do not is reported once, and the reader
  accepts it; what is said to be created, deleted or replaced was, or its
  directory was, or an issue says why a pass could not tell.
- *signed drift diagnostic and integrity*: nothing is published that mixes two
  captures, nothing verified that mixes two releases, and no Product Seal is
  vouched for but one whose signature was checked, whoever seals meanwhile.
- *volatile disposition*: derived only from continuous evidence in the order it
  was taken, admits only what is harmless, not used after it expires.
- *security surface*: clean means that every object of the tree is accounted
  for; verified means that neither its capture nor its provenance is out of date.

## Modules

| Module | Models |
|---|---|
| `ExactFileQuarantine` | the quarantine helper with its environment |
| `ExactFileQuarantineProofs` | its theorems, and that it implements the contract |
| `QuarantineContract` | what the helper promises, without its system calls |
| `QuarantineRefinement` | the mapping under which `ExactFileQuarantine` implements it |
| `EphemeralLoader` | several loaders of one operation around their helpers |
| `EmergencyOperator` | `wapp-emergency-clean`, the validator it calls, and the launcher it becomes |
| `EmergencyOperatorProofs` | its theorems |
| `ClosureCheck` | `wapp-closure-check` and `verify_closure` over what happened to a site |
| `ClosureCheckProofs` | its theorems |
| `LegacyReconciliation` | `verify_legacy_reconciled_execution` over a launcher that may die |
| `LegacyReconciliationProofs` | its theorems |
| `TwoPassInventory` | two passes over a changing tree, their merge, and the reader of the drift |
| `TwoPassInventoryProofs` | its theorems |
| `SignedDrift` | creation and verification of a signed artifact, the key, the product seal |
| `SignedDriftProofs` | its theorems |
| `VolatileRuntime` | from two drift observations to an inventory bound to a disposition |
| `LoaderAndRuntimeProofs` | the theorems of `EphemeralLoader` and of `VolatileRuntime` |
| `SecuritySurface` | capture, provenance and surface, and the classification of a tree |
| `SecuritySurfaceProofs` | its theorems |
| `MC...` | instances for TLC: bounds, symmetry, the parts a run explores |

How they meet: `EphemeralLoader` starts the process that `ExactFileQuarantine`
is, and its `AtMostOneHelper` is what the latter assumes of processes.
`EmergencyOperator` decides whether a mutation may begin; `LegacyReconciliation`
and `ClosureCheck` judge afterwards, from documents, what became of it, and the
verdict of the first is the `legacy` case of the second. `TwoPassInventory` is
where drifts and inventories come from; `SignedDrift` signs a drift,
`VolatileRuntime` needs two of them, `SecuritySurface` classifies an inventory.
`SignedDrift` also holds the signatures all others take for granted.

### ExactFileQuarantine

State. `live[t]`, `quar[t]` and `perm[t]` say what the two names of a target
hold and which permissions its inode has, as system calls see them;
`liveDisk`, `quarDisk` and `permDisk` what survives a loss of power. `store`
is the quarantine directory and the two manifests in it, `journal` the rows of
the journal. `mode`, `pc`, `i`, `moved`, `direction` and `result` are the
running process: the mode of `main`, the place in its code, the loop index,
the array `moved[]` and the exit code or receipt. `altered` and `taken`
record what the site did. A name holds the object the manifest binds, another
object, or nothing: hashes, modes and owners are the comparison of an object
with the bound one, and `altered` is the case that the object is still there
and its bytes have changed.

Actions. One action is one group of system calls whose outcome the program
tests together. `OpenApply` to `BeginJournal` are `open_context`,
`prepare_live`, `prepare_quarantine` and the manifests; `CheckHeld`, `RenameOut`,
`SyncQuarantine`, `SyncSource`, `Protect`, `VerifyQuarantined` and
`RecordMoved` are the body of the loop in `apply_transaction`, one for each
call that can fail on its own; `Commit` writes the last row and prints the
receipt. `UndoNext`, the `Restore...` actions and `UndoDone` are the loop that
counts down over `restore_one`, which compensation, rollback and
reconciliation share. `Classify` and what follows it are the cases of
`reconcile_rollback`: a moved target, a target at home with either
permissions, both names on one inode, and every other state. `ReadError` is a
read or `lstat` that fails inside a check: `die`. In each, a test of the code
that fails leads where the code goes: to `compensate`, to `die` (exit 20, or 22
once `mutation_started` is set), or to `partial`.

Environment. `Kill` ends the process and keeps the kernel's caches;
`PowerLoss` also throws the caches away. `Writeback` lets the file system write
what it likes of one target, in any mix of old and new, with one restriction:
a rename's removal never becomes durable without its addition. Journaling and
copy-on-write file systems keep this; it is the assumption `Between`.
`SiteAlter` and `SitePut` are the site writing to a file, removing a live name
or putting another file there. The quarantine directory is owner-only and out of
its reach. `Fault` lets any system call fail. One process of an operation runs
at a time: the loader's staging directory is made exclusively.

### EmergencyOperator

State. A lineage is one remediation package (path 0) and reopen packages (paths
1, 2, ...). A path holds an `edition` with its `generated` and `expires` times
and the Product runtime it is `sealed` for. A reopen package has a `schema`
and a `predecessor`; `reservation[q]` is the package committed in the file that
succeeds `q`'s reservation (`q = 0`: the base file). `consumed[p]` is the
edition named in the one-shot marker of `p`. `run[p]` is what the launcher of
`p` has come to, `finished` when the remediation's audit ends. `drifted` are the
packages of which a bound file or review no longer has its bytes, `unsigned`
those whose HMAC, or that of their review or of a dependency, is gone: two
things, as they are not checked in the same places. `pc`, `chosen` and `seen`
are a terminal: its place in `wapp-emergency-clean` and, from `gate` on,
in the launcher, the package it works on and the edition its human was shown.

Actions. `SelectPackage` to `Launch` are the lines of `wapp-emergency-clean`
between two evaluations of the validator; each fails to `idle` and changes
nothing. `VerifyPackage` is `verify_package` as a predicate: validity,
integrity, for a reopen package the whole of `verify_reopen_source_lineage` with
the three schemas of reservations (`PredecessorAdmits`), and the absence of the
marker. `Signed` is the command's own loop over signatures, which runs twice, in
`FirstVerify` and in `Reverify`. `VerifyCurrentDispatch` is the entry point of
the launcher: the marker has to be there and to name this edition. The forms of
the JSON documents are abstracted: a package is admissible or has drifted.

External. The launcher and the authors of packages are not in the repository;
`Claim`, `RemoteVerify`, `Finish`, `AuthorReopen`, `Reissue` and `Withdraw` are
what the validator requires and presupposes of them:

- the marker is made with `mkdir` and a reservation with an exclusive create,
  so each exists once;
- a package is reviewed, and the review signed, only if the validator accepts
  its lineage at that time. The validator itself looks at one link of a chain of
  reservations, so the earlier links rest on this;
- a disposition "aborted, unmutated" is truthful;
- a launcher calls `verify-current-dispatch` after it made the marker and before
  anything else;
- clocks do not run backwards. A file that drifted, and a Product upgraded, are
  not put back to what they were before.

A withdrawal after the last look at the registry is not seen by anyone: the
registry is not part of `verify-current-dispatch`. `RevokedNeverLaunches` is
about what was withdrawn by the time the human confirmed.

### ClosureCheck

State. What happened: `site` (isolated, what a scan would find, the inode of the
root), `runtime`, and per operation `remediated` and `reopened`. What is on
paper: one document per kind in `docs`, the `lineage`, the `record`, whether it
is `signed`. A document holds what was true when it was written; the host may
date it ahead by `skew`. All bindings are by hash, so writing a document anew
drops what bound it. `VerifyClosure` is `verify_closure` of both schemas as a
function of these; `FirstVerify` and `SecondVerify` are the two reads of the
command. `Events` are the operations and the site, `Authors` whoever writes;
nothing obliges them to an order.

### LegacyReconciliation

State. `contract` is the work of a package, `done` when and by which launcher a
piece was carried out, `log` the audit it appends to, `preserved` a copy, `post`
the two observations, `attestation` what binds them all. `Work` and `Report`
are two steps, so that a launcher may die between doing and telling; `Die`
may leave a torn line or a failure. `Verify` is the verifier's reading of the
lines alone. The collector is truthful but may be hasty; a denial is probed
before it is reported. The package and its reviews are intact here; they are
`EmergencyOperator`'s.

### TwoPassInventory

State. `tree` maps a path to its inode, kind, links and change time; `stack`,
`entry` and `step` are the walk of the helper by descriptors; `rows` and
`issues` what each pass wrote down. `seen` and `between` are history: the first
and the last look at each path, and the tree between the passes. One action per
group of system calls on one object: stat, open, read, stat again, list and list
again. Each compares with what was seen before. The calls that may fail for no
reason of the tree (`Fails`) are those that list a directory, the first and the
second time, stat or open an entry, and read a file. `SiteChanges` creates,
removes, modifies or replaces between any two of them. `Pairs` is the merge of
two ordered streams, `Diagnostic` and `Inventory` what is emitted, `Parses` the
checks of `native-drift-diagnostic.py`. No two changes share a change time: the
kernel's clock is finer than the calls. A hash stands for the change time at
which the file was read. No directory is created with an inode under which the
pass has entered a directory elsewhere (`Repeated`): the helper gives one that
has `DIRECTORY_IDENTITY_REPEAT`, a row and an issue and no listing
(`displaced-inventory-helper.c:180`).

### SignedDrift

State. The Keychain's `key`, the `raw` capture, the installed `release`, the
product `seal` and its signature, the artifact `file` and its `sig`, and for
each command its place and its variables. A seal is its bytes: when it was made,
the commit it names and the release whose files it has hashed, so that two seals
of one release differ, and an artifact embeds them, as the code embeds their
SHA-256. Every read and write of one of these is an action. A sealer reads the
release (`ReadRelease`), hashes the files (`HashComponents`), truncates and
writes the seal (`EmptySeal`, `WriteSeal`), signs, truncates and writes the
signature (`EmptySignature`, `WriteSignature`) and verifies it (`CheckSeal`), in
place, so that others meet an empty seal or an empty signature. Seals are
numbered by `seals`: no two share a time, which the code writes to the second.
`FindKey`, `AddKey`, `CompareMac` and `SignArtifact` are the functions of
`recovery-integrity.sh`, called by all three commands. A function called with
`|| fail` runs without `errexit`, so an error inside does not stop it: what it
could not read is empty, and it goes on. Its output is published by two renames,
`MoveArtifact` and `MoveSignature`; the disposition and the surface use the same
two, which are modelled here only.

### VolatileRuntime

State. One path, its `place` (upload, suffix, high sensitivity, runtime state)
fixed, its `file` changing. `Capture` takes a first pass; `EndDiagnostic` takes
the second and keeps what the helper would print. In the volatile mode
`SecondPass` takes it and `EndVolatile`, a later step, opens a log that grew
once more and proves its prefix; a change between the two makes the helper die.
`Disposable` and `Issuable` are `derive` for the files and for the dates,
`HelperAdmits` and `Proved` are `emit_volatile_inventory`, `InventoryDerive` the
binding. Dates of observations are the caller's, as in the code.

### SecuritySurface

State. One capture, one set of provenance and one surface under their paths,
with serials for their bytes. `Issues` and `ParseInventory` are the helper's
rows and the reader's framing (an object of any type with a time before 1970
makes it refuse), `Classify` and `SurfaceState` the derivation, `SurfaceVerify`
the derivation repeated. A provenance set commits to the regular files of its
capture, or does not (`complete`), and each of its records has source evidence of
its own dates. `Mint` and `Attest` issue captures and provenance of any dates.

### EphemeralLoader

State. `stage` is who made the operation's directory, `launcher` the file in it
by its writer and inode, `helpers` the loaders whose helper runs; `created`,
`meta` and `failed` are the script's variables, `audit` what it said of its
cleanup. The actions from `Check` to `StageAbsent` are the script's commands,
from `Look` to `Audit` its EXIT trap. `FillLauncher` writes to the open file and
`ModeLauncher` sets the mode by name, of whatever launcher lies there by then.
The two loaders differ in one place: when the trap cannot remove the launcher,
the displaced-inventory loader goes on to the directory and the exact-file
loader exits with 20. `LeaveLauncher` allows both, so what holds, holds of
either.

## Runs

| Run | Instance | Question |
|---|---|---|
| `exact_interference` | 3 targets, 3 processes, 1 fault, 2 crashes, 1 interference | is a target or a foreign file ever lost; is a rollback all or nothing at its start; does the helper implement its contract |
| `exact_crashes` | 2 targets, 4 processes, 1 fault, 3 crashes, 1 interference | do receipts survive, is the journal truthful, does reconciliation accept every crash state, does every process end |
| `loader` | 4 loaders, 2 inodes, 2 kills, 2 terminations, 2 failures; the fourth loader with one fault at most | can two helpers run; is an audit true; is anything left |
| `operator` | 2 terminals, 2 reopen packages, clock 0..3, lifetimes 1 and 2, 2 editions, 1 upgrade | does one reopen at most mutate; does anything stale mutate or launch |
| `closure` | 2 operations, all formats and classes, clock 0..2, skew 1, 1 change | is a clean verdict true; can a true record close |
| `legacy` | 3 contracts, 2 launchers, 1 death, clock 0..4, 1 change, 1 late denial | is what reconciles executed and seen; does what was executed reconcile |
| `twopass` | 4 paths, 5 inodes, 2 changes, or 1 change and 2 failing calls | is an inventory one moment; is a drift all of the changes and no more; is what it says of them true |
| `drift` | 2 creators, 1 verifier, 1 sealer; 1 fault, 1 kill; 2 captures or releases | what can be published and verified side by side, and under whose seal |
| `volatile` | logs and `wp-config.php`, 3 captures of 2 passes, 3 changes | is what is bound in time and harmless |
| `surface` | 2 paths of every kind, 2 captures, 2 provenance sets, 1 upgrade | is clean complete, is verified current |
| `exact_journal_failure`, `exact_reconcile_receipt` | 1 or 2 targets | findings, below |

Why these bounds. Targets do not share state except the loop, its index and the
journal: two show the compensation of an earlier target for a later one, three
a loop that has a middle. Three processes and a crash reach apply, crash,
reconcile and apply, rollback, observe; the crash run has four, so that two
reconciliations can be killed in turn. Faults are one at a time, as the code
has one compensation and reports a fault in it. One interference is enough to
put the site between any two calls. Three loaders are one that died, one that
holds the directory and one that comes; with a fourth, a loader may set the mode
of a launcher that is not its own. Two inodes make a reuse possible. Two
terminals meet at every marker; two reopen packages are the shortest chain in
which a predecessor and a successor compete, with each of the three schemas; a
clock to 3 with lifetime 2 lets a remediation run, a reopen be made, expire and
be succeeded. Two operations suffice for documents of one to be taken for the
other's. Two launchers and a death are an audit with rows of two runs; three
contracts hold a file, files of both kinds, and a file with rows. The tree has
a directory, a file in it and a file whose name sorts between the two when
paths are compared by their bytes but not when they are walked, and one inode
more than paths, so that a number can come back. Three captures are two
observations and a candidate. Times are small and windows are one or two ticks:
the code only compares and adds them.

Some instances are unions, explored side by side in one run; the CONSTRAINTs in
the MC modules, and the budgets of `TwoPassInventory` and `SignedDrift`, say of
what. `operator`: two terminals whose packages are issued once, or one terminal
whose package is reissued, of either lifetime, upgraded under and loses its
signature; one package at most drifts or loses its signature, as every check
treats packages alike. `closure`: one operation with everything that may change,
or two within two moments and any format of reopening. `loader`: three loaders
with all faults, or four with one. `legacy`: one launcher that ends and a
collector that may be hasty, or launchers that die and a collector that is not.
`surface`: one file, any dates of capture, provenance and evidence, and a set
that may lack its commitment, or any tree and record in the first two moments.
`volatile`: logs of up to three lines for three moments (two under uploads,
where nothing is admitted that grows), or a `wp-config.php` with content or
without. A constraint cuts only what it says; every action fires on some side of
each.

Some invariants are conjunctions of named parts: `VerdictsAreRight` of
`VerifiedIsCurrent`, `VerifiesWhileFresh` and `InventoryIsReadable`;
`BoundIsHarmless` of `AdmittedDriftIsHarmless` and `ConfigUnchanged`;
`BoundWhileCurrent` of `BoundInTime` and `BoundVerifiesUntilExpiry`;
`DriftIsExact` of `DifferenceExplained` and `DeltaExact`. The runs of the
quarantine and the operator check `TypeOK`; the `TypeOK` of the other modules
documents the types of their variables, and their theorems prove it (loader,
closure, surface) or a finer one (`TypeInv`).

Deadlock is checked in the runs of the quarantine and means nothing there but
that write-back and idle steps always exist. It is switched off for all others,
which may stop: commands end, clocks and budgets are bounded.

Fairness. Only `exact_crashes` has any: weak fairness of the helper's own steps,
which is what a scheduler gives a started process. Nothing obliges the disk to
write back, anyone to start a process, or a human to answer; the other
components are commands that may be killed at any point and that nothing
restarts, so no liveness is claimed of them. That a true record *can* close,
or what is fresh verify, is stated as an invariant of what the command would
answer (`CompleteRecordCloses`, `ExecutedReconciles`, `VerifiesWhileFresh`,
`InventoryIsReadable`, `BoundVerifiesUntilExpiry`). No such thing is claimed of
a signed drift: a verification that meets a seal or a signature just truncated,
or a seal made anew of the same release, refuses what was right.

### Findings

- `exact_journal_failure`: the documentation says that failure triggers
  compensation. A failing journal row, or a failing read in a check after a
  move, goes to `die()` instead: `PARTIAL_OR_DIVERGED` with targets left in
  quarantine and no restore tried. The report is truthful, and
  `reconcile-rollback` accepts the state.
- `exact_reconcile_receipt`: a target already back under its live name is
  accepted without an `fsync` of its directories. If the process that renamed
  it was killed just before its own, `ORIGINAL_EXACT_RECONCILED` can be undone
  by a loss of power. File systems whose `fsync` of a file also commits its
  pending rename hide it. `RestoredDurably` is therefore about the targets the
  process itself restored (`Restores`).

### What else came up while modelling

None of these has a run of its own; each is in the model as the code has it, and
where a property has a premise, it is because of one of them.

- *Quarantine.* With both names on one inode after a crash, the reconciliation
  checks the link count and then unlinks the quarantine name (line 142). A site
  that removes its live name between the two leaves the file without a name,
  though "neither quarantine nor rollback permanently deletes bytes"
  (`docs/NATIVE-EXACT-FILE-QUARANTINE.md:26`).
- *Loaders.* The trap of a terminated loader removes the directory while the
  helper runs on, so a second loader may start another
  (`AtMostOneHelper` holds with no termination). A loader that finds a directory
  again after removing its own may remove another's; with three loaders and an
  inode given again, two helpers can run without any signal, so the property
  is about two loaders. A loader killed with SIGKILL leaves its stage, and the
  next one is refused until someone removes it.
- *Operator.* A signature is checked for the last time by the loop of
  `src/bin/wapp-emergency-clean:115`. What follows, the last `verify-review` and
  `verify-package` (lines 121-124), `exec-launcher` and the launcher's
  `verify-current-dispatch` (`src/lib/emergency-operator-v1.py:3127`), compares
  hashes only, so a signature lost during the launcher's own prompt stops
  nothing. `RevokedNeverLaunches` is about what had lost it when the human
  confirmed, `UnfitNeverMutates` about bytes, dates, editions and the Product.
- *Closure.* Schema 1 verifies the reopen package as one not yet consumed and
  schema 2 asks for fields of a private package, so a reopening done by
  `wapp-emergency-clean` closes under neither
  (`src/lib/emergency-operator-v1.py:2817`, though
  `docs/EMERGENCY-OPERATOR-MODE-V1.md:90` requires both lineages). A record
  rewritten between the command's two reads is reported though it is not what was
  signed (`src/bin/wapp-closure-check:95`).
- *Reconciliation.* The two observations must lie 60 seconds apart whatever the
  package has as its `stability_seconds` (line 2672).
- *Surface.* A provenance record for a path that holds a directory leaves no
  trace (`src/lib/read-only-security-surface.py:508`). The expiry of a source
  artifact is compared with the capture's and with no clock (lines 422-423), so
  a surface is created and verified on evidence that has expired, though
  "stale evidence, mismatched provenance and release/ruleset substitution all
  fail closed" (`docs/READ-ONLY-SECURITY-SURFACE.md:30-32`). `VerifiedIsCurrent`
  claims the comparison that is made.
- *Volatile.* Growth of a log under uploads can be disposed of (rule `A`), and
  `docs/NATIVE-FILESYSTEM-EVIDENCE-HELPER.md:5` and
  `tests/test-volatile-runtime-disposition.sh:269` expect the helper to admit it
  once its prefix is proved; `monotonic_log_growth` refuses every path under
  uploads (`displaced-inventory-helper.c:296`), so it never comes to the proof.
  The derivation compares the suffix `.log` without case (line 688) and the helper
  with case, so a growing `.LOG` is disposed of and then refused. No property
  claims that the two agree. A candidate may be older than the observations
  (`src/lib/volatile-runtime-disposition.py:439`); a change of `wp-config.php`
  alone cannot be disposed of, as the provenance set may not be empty (line
  240).
- *Signatures.* A verification with neither a file nor a signature passes the
  comparison of two empty texts (`src/lib/recovery-integrity.sh:116`); a key that
  could not be saved is used all the same (line 79); one failed read of the
  Keychain replaces the key (line 75), so `CreatedStands` has a key from the
  beginning. A second creator moves its output over the first one's
  (`src/bin/wapp-signed-drift-diagnostic:19`), and with a signature in between
  a verification can pass that read another's file: `VerifiedIsWhole` and
  `VouchedForSealIsSigned` are about one creator. A seal and its signature are
  truncated before they are written (`src/bin/wapp-product-seal:17`,
  `src/lib/recovery-integrity.sh:108`); whoever reads in between refuses what was
  and will be right. A failing `openssl rand` is not modelled.
- *Two passes.* A directory that changed between its stat and its open in both
  passes has no row in either (`Unopened`; the inventory then says it is not
  complete). MODIFIED may be a replaced file whose inode was given again. A
  failing call on a directory makes its children CREATED or DELETED, with an
  issue of the directory in the pass that failed. If its listing fails in both,
  at the beginning in one and at the end in the other, the two issues are the same
  and cancel: a child is said DELETED or CREATED, and no issue says why
  (`HinderedIn` excepts it).

## Theorems

| Theorem | States | Module |
|---|---|---|
| `TypeCorrect` | `Spec => []TypeOK` | `ExactFileQuarantineProofs` |
| `AlwaysRecoverable` | `Spec => []LeavesRecoverable` | |
| `NothingLost` | `Spec => []NoTargetLost` | |
| `ForeignStays` | `Spec => ForeignPreserved` | |
| `ReceiptIsDurable` | `Spec => []AppliedDurably` | |
| `JournalIsFaithful` | `Spec => []JournalFaithful` | |
| `RestorationIsDurable` | `Spec => []RestoredDurably` | |
| `RollbackStaysUniform` | `Spec => []RollbackIsUniform` | |
| `ReconcileTakesCrashes` | `Spec => []ReconcileAcceptsCrashes` | |
| `QuarantineImplementsContract` | `ContractSpec => ImplementsContract` | |
| `AuditHolds` | `LoaderSpec => []AuditIsTrue` | `LoaderAndRuntimeProofs` |
| `HelpersExclude` | `LoaderSpec => []AtMostOneHelper` | |
| `NothingLeft` | `LoaderSpec => []LeavesNothing` | |
| `OperatorTypeCorrect` | `Spec => []TypeOK` | `EmergencyOperatorProofs` |
| `OneReopen` | `Spec => []AtMostOneReopen` | |
| `UnfitPackagesStayHarmless` | `Spec => []UnfitNeverMutates` | |
| `RevokedPackagesStayIdle` | `Spec => []RevokedNeverLaunches` | |
| `CleanIsTrue` | `Spec => []CleanWasSeen` | `ClosureCheckProofs` |
| `LineageIsTold` | `Spec => []LineageInOrder` | |
| `CompleteIsClosed` | `Spec => []CompleteRecordCloses` | |
| `ReconciledIsExecuted` | `Spec => []ReconciledWasExecuted` | `LegacyReconciliationProofs` |
| `ReconciledIsSeen` | `Spec => []ReconciledWasSeen` | |
| `ExecutedIsReconciled` | `Spec => []ExecutedReconciles` | |
| `ArtifactIsOfOneCapture` | `Spec => []PublishedIsOfOneCapture` | `SignedDriftProofs` |
| `VouchedForIsWhole` | `Spec => []VerifiedIsWhole` | |
| `SealOfVouchedForIsSigned` | `Spec => []VouchedForSealIsSigned` | |
| `CreationStands` | `Spec => []CreatedStands` | |
| `ObservationsOrdered` | `Spec => []ObservationsInOrder` | `LoaderAndRuntimeProofs` |
| `DriftStaysHarmless` | `Spec => []BoundIsHarmless` | |
| `BindingIsTimely` | `Spec => []BoundWhileCurrent` | |
| `HashesAreOfTheirRows` | `Spec => []RowsAreOfOneFile` | `TwoPassInventoryProofs` |
| `InventoryIsOneMoment` | `Spec => []InventoryIsSnapshot` | |
| `DriftIsTheDifference` | `Spec => []DriftIsExact` | |
| `ChangesAreReported` | `Spec => []NothingUnreported` | |
| `DeltasAreTrue` | `Spec => []ChangesAreTrue` | |
| `CleanIsAccountedFor` | `Spec => []CleanMeansAccountedFor` | `SecuritySurfaceProofs` |
| `VerdictsStand` | `Spec => []VerdictsAreRight` | |
| `RefusalStays` | `Spec => RefusalIsFinal` | |

Every safety property of the passing runs is one of these. The two proof modules
that hold the theorems of more than one thing do so for their size alone; the
names of `EphemeralLoader` begin with `Loader` (`LoaderSpec`, `LoaderTypeOK`)
so that it can stand beside `VolatileRuntime`.

They hold for any number of targets, loaders, terminals, packages, operations,
launchers, commands, paths and captures, and for any values of the bounds. They
are about the models, environment included, and rest on the assumptions named
above and on those the modules make of their constants:

- bounds, windows and lifetimes are natural numbers; there is at least one
  target and one edition, lifetimes are positive;
- `None` and `NoFile` are none of the values they stand beside
  (`LoaderAssumption`, `CommandAssumption`, `NoFileAssumption`, `NoneAssumption`);
- a tree has finitely many paths, a root and one more at least, listed in the
  order of their bytes without repetition; a path lies in the root or in a
  directory of the root; there are as many inodes as paths at least
  (`TreeAssumption`). The two levels are those of the model: `Above` and the
  walk's stack know no third;
- the loaders, and the creators of artifacts, that are ever started are finitely
  many: `AtMostOneHelper` and `VerifiedIsWhole` count them;
- a contract has an `apply` exactly if it has an `after` (`LegacyAssumption`),
  and the sets that classify paths and contents are sets of these.

### The quarantine helper

- *Types.* `restore_one` decrements the loop index past 1, so the
  type of the index is inductive only together with the fact that outside the
  head of the loop it names a target (`ProcessInv`).
- *AlwaysRecoverable.* The property alone does not say why the first rename
  may happen. `BindingOrder` adds what each step of `apply` knows of the
  quarantine root: from `begin` on, both manifests are bound and durable.
- *NothingLost.* `MoveOrder` says where a running move stands: the object is
  under its new name before either directory is synced, and durably so before
  the directory that loses it is. `DuplicateDurable` says that whenever both
  names hold the object the live one is on disk, so that a reconciliation may
  unlink the other. Without them `NoTargetLost` is not inductive: a sync of the
  losing directory would be allowed in a state where only that directory's
  old contents keep the object.
- *ForeignStays.* `HeldOrig`: what is about to leave the quarantine was tested
  there, and nobody else reaches the directory.
- *Receipt and journal.* `PhaseInv` says which mode a step belongs to and that
  a running process has said nothing. `SecuringOrder` says how far the move of the
  loop index has come, `SecuredInv` that all targets before it are durably
  secured as long as nothing is on its way back; a row follows its target.
- *RestorationIsDurable.* The mirror image, `RestoringOrder` and `RestoredInv`,
  for the targets the process itself restored.
- *RollbackStaysUniform.* `UniformInv`: a rollback looks at all targets in their
  order before it restores the first, in the reverse one; undisturbed, what it
  looked at is still so.
- *ReconcileTakesCrashes.* Without the site there are only bound objects
  (`Undisturbed`). `Progress` says what a reconciliation in which nothing fails
  knows of the loop index and of those it has set aside; with `NamesInv` every
  combination of names that can be left is one of its cases.
- *Contract.* `ContractInv` collects what the contract's steps must know:
  `SecuredInv` for a receipt, `EmptiedBack` and `EmptiedReconciling` for a
  restoration, `Seen` for an observation, `SinceStart` for what a process has
  added to the names since it was started, `LiveDurable` for the removal of the
  second one. There is one lemma for each kind of step: system calls that change
  no name stutter, a rename or an unlink is one step of the contract, a receipt
  or an exit code is a claim that `Truthful` allows.

### Loaders

- *AuditHolds.* Nothing comes to lie in a directory whose loader has ended.
- *HelpersExclude.* Of two loaders that have begun, the one that holds the
  directory made it, or the other is past its helper (`Excluded`); `Counted` is
  what a run without terminations has behind it.
- *NothingLeft.* As long as nothing went wrong, whatever is staged has a loader
  that knows it for its own, by its inode, and has its cleanup before it
  (`Attended`).

### Emergency operator, closure and reconciliation

- *OneReopen.* Reservations make the reopen packages a chain (`ChainInv`). A
  terminal at a launcher's step is the only one that holds its package
  (`LauncherInv`). Every package with a successor is `Dead`: aborted, or
  expired before it was dispatched (`SupersededInv`); death is for ever since
  a dead package cannot pass `verify-current-dispatch`. So two packages that
  mutated are the same, the last of the chain, and its marker was made once
  (`MutationInv`).
- *Unfit.* What a terminal was shown is never newer than the path
  (`SeenInv`), seals are never of a future Product (`SealInv`), so unfit stays
  unfit whatever the surroundings do (`UnfitStays`), and the dispatch refuses.
  Signatures are no part of it: the dispatch looks at none.
- *Revoked.* A terminal whose human confirmed something dropped stands before
  the selection with the drop still visible, or behind it with an older edition
  than the path holds (`RevokedInv`), which the last comparison of summaries
  refuses. A withdrawn path can only return to the registry with a new edition.
  What is `unsigned` becomes signed again only with a new edition, too.
- *Closure.* `Chronicle` is the order in which things come to be: events of an
  operation in theirs, no document before what it is about, no binding before
  the document it binds. The three theorems compare its dates with those that
  `verify_closure` compares.
- *ReconciledIsExecuted.* `Staged` says that a live launcher has told of every
  step of its contract before the one it stands at, with a line as exact as the
  work was, and of none behind it; `Announced` that whoever works has a line
  of its own for its beginning. So one beginning and one end leave one launcher,
  which is at its end; `WorkInOrder` and `LogInOrder` give order and dates. Which
  step follows which, and that `Report` tells of the last one done, is
  `AfterIsNext` and `CurrentIs`.
- *ExecutedIsReconciled.* The audit of a first and only launcher has every step
  once and in order (`Neat`), which is all that the verifier's tests ask of it.
- *ReconciledIsSeen.* `Collected`: an observation sees nothing before it began but
  a denial, and nothing after it ended; what was known stays known
  (`KnownLater`). The test of the denial's own date closes the gap.

### Evidence

- *ArtifactIsOfOneCapture.* Nobody holds a derived artifact of two captures: the
  second parse is of the file that was opened (`OneCapture`).
- *CreationStands.* `Standing`: with a key from the start and no other creator
  as far as its renames, file and signature are the reported creation's.
- *VouchedForIsWhole.* `SealFirst`: either derivation reads the seal before the
  version, and the verifier reads the seal after the creator read its version;
  equal artifacts leave no room for an upgrade in between. The creator in
  question is the only one to have begun, by the cardinality the property names.
- *SealOfVouchedForIsSigned.* `SealChecked`: the seal that the verifier finds,
  loads and derives from is the one whose signature it checked, or none, or made
  later than the one the artifact names. What is derived equals the artifact, so
  only the first is left.
- *ObservationsOrdered.* `History` is what the passes of a file have in common
  with its future: a change time never goes back, the bytes a file begins with
  never return once written anew, and under the same beginning it only grows. So
  a later observation cannot end where an earlier one starts, whatever dates
  their caller gave.
- *Harmless, timely.* `Handed` follows what is passed on: a disposition is
  `Derived` from the diagnostics it names, a candidate is one the helper
  `Admitted`, its letter says where the file lies (`Placed`).
- *The walk (two passes).* `IInv` says where the helper is and what it knows.
  `WalkInv`: which directories are open and what is left of each. `FreshInv`:
  what is left has no row, no issue and no look yet, so that every path is told
  of once. `SeenInv`: change times and births of what lies at a path never go
  back (`Later`), so that an object met again with the same change time is the
  same object and was there all the time between. This is what the comparisons
  of the helper rest on, and each of the five theorems uses it.
- *HashesAreOfTheirRows.* `HashInv`: between the two stats of a file, what was
  hashed is of the first stat or the file is no more what it was, and then the
  second differs.
- *InventoryIsOneMoment.* Two texts that agree name the same change times.
  `BetweenInv`: what the second pass still found as the first had seen it was so
  when the second began. `CoverInv`: what lay in a directory that has not changed
  since it was seen got a row or an issue; so nothing is missing from
  rows without issues.
- *DriftIsTheDifference.* `InOrder` puts the rows of a pass in the order of their
  paths and its issues in the order of `Rank`, and `InOrderIs` is the lemma that it
  gives each once, ascending: no two keys are the same. `Pairs` is a
  recursive function over two places in the streams. That there is such a
  function, and that it yields exactly what is in one stream only or differs,
  in order and once (`Merges`), are inductions over what is left of both. An
  induction theorem that takes an operator is of no use to the provers; both are
  written as the choice of a least counterexample among natural numbers, which
  is first-order.
- *ChangesAreReported, DeltasAreTrue.* A second layer, `Full`, adds to `IInv` what
  the looks of the passes see. `FrameInv`: an open directory that has not changed
  has exactly the names that were read. `Past` is a path that will not be seen by the
  second pass as the first saw it; `FirstInv` and `UnhashedInv` make it so
  of everything the first pass told an issue of because it changed; `SecondRowInv` and
  `LastInv` say, of what the second pass saw last, that it has a row, or an
  issue and has changed, or lies in a directory that has. So what differs leaves
  a difference, of rows or of issues, at the path or above it, and where no
  call failed there is no difference without a change. `LookedInv` says why a
  pass has not looked at a path of a directory it entered: the look is still
  awaited, or the directory could not be listed or the path not be stat'ed
  (`LookInv`, with `MissedInv` and `ParentInv`). So a row that the other pass has
  not is explained at its path or above, by what was seen or by an issue.
- *Surface.* `Dated`: nothing is dated further ahead than clocks may differ.
  `Backed`: while its artifacts are in place a surface is what they give.
  `Spoken`: the verdict is about what is there. `RefusalIsFinal` is an action
  property: time only makes a surface older, and what is issued anew under the
  path of one of its artifacts is another one.

### Only model-checked

`HelperEnds`, a liveness property under fairness, which the provers have no
rules for. The properties of the two violation runs are false of the code and
are checked to be.

No module uses a RECURSIVE operator. The inductive invariants of
`TwoPassInventory` were checked by TLC before they were proved, on a root, a
directory and a file in it, with three changes, two changes and a failing call,
or one and two.

## What could come next

The system is modelled as far as it is listed above, and every safety property
the runs check is proved.

1. The assumption of `ExactFileQuarantine` that one process of an operation runs
   at a time is, for two loaders, `HelpersExclude`; the two modules are not
   composed. With three loaders the code does not guarantee it.
2. The launcher of `ephemeral-memfd-launcher.c` and the trusted loader, which are
   one step of a loader.
3. Trees of more than two levels, for which `TwoPassInventory` needs `Above` as
   a closure and the proof an induction over the depth.

## Not modelled

- `lib/plugin-policy.py`: a conjunction over the fields of one record read once.
  No state, no second actor: a model would repeat its lines.
- The forms of JSON documents, hashing and encoding: a document is admissible or
  has drifted, bytes are an object or a model value.
- Of the inventory helper: uid and mode, symbolic links, byte and entry caps,
  the deadline, a root replaced by rename, and the listing of single files for
  a rollback. They add rows and refusals to the walk, none that reads another's
  state. Nor a failure, for no reason of the tree, of the last stat of an entry,
  of `fstat` on what is open, of `dup` and `lseek`, or of the open of the root.
- Directories that are renamed, and what the helper makes of one that it has
  entered under another name, `DIRECTORY_IDENTITY_REPEAT`: a row with an issue
  and no listing. Without renames it takes two directories side by side and three
  changes (both found, the first one entered and removed, the other removed and
  made anew under the inode set free); the bound in `Create` leaves it out.
- The trusted loader of the inventory helper, which seals it in memory and keeps
  nothing on the host, and the launchers, which are one step of a loader.
- Dispatch, sealing beyond the seal itself, release, audit and build scripts,
  embedded binaries and configuration: sequential, no state between calls.
- A log replaced between the disposition and its candidate is not compared by
  the code, which binds the path; the model has it and no property forbids it.
