---------------------------- MODULE VolatileRuntime ----------------------------
(***************************************************************************)
(* The bounded volatile runtime disposition                                *)
(* (src/lib/volatile-runtime-disposition.py, src/bin/wapp-volatile-runtime- *)
(* disposition) and the two modes of the native helper it stands between   *)
(* (src/native/displaced-inventory-helper.c).                              *)
(*                                                                         *)
(* A file of the site changes while the site runs.  Two diagnostic captures *)
(* of two passes each see it change in the same harmless way; the           *)
(* disposition derived from them lets a later volatile inventory, again of  *)
(* two passes, tolerate that change, and the inventory is then bound to the *)
(* disposition.                                                            *)
(*                                                                         *)
(* One path.  Its place says what the code asks of a path and never         *)
(* changes; companion: another file drifts with it and has provenance.      *)
(***************************************************************************)
EXTENDS Naturals, Sequences

CONSTANTS
    Places,       \* [upload, suffix, config, companion, degraded]
    NoFile,       \* no file, no artifact
    Operations,   \* operation identities a caller gives to captures
    MaxGap,       \* the 24 hours between two observations
    IssueWindow,  \* the 10 minutes to issue a disposition
    Lifetime,     \* the 2 hours of a disposition
    MaxTime,      \* clock
    MaxSize,      \* size of the file
    MaxEdits,     \* changes of the file
    MaxRaws,      \* diagnostic captures
    MaxCaptures   \* captures of both modes

ASSUME PlacesAssumption ==
    Places \subseteq [upload: BOOLEAN, suffix: {".log", ".LOG", "other"},
                      config: BOOLEAN, companion: BOOLEAN, degraded: BOOLEAN]
ASSUME VolatileBoundsAssumption ==
    /\ MaxGap \in Nat /\ IssueWindow \in Nat /\ Lifetime \in Nat
    /\ MaxTime \in Nat /\ MaxSize \in Nat /\ MaxEdits \in Nat
    /\ MaxRaws \in Nat /\ MaxCaptures \in Nat

Times == 0 .. MaxTime

\* base names the bytes a file begins with, 0 if it is empty: appending keeps it,
\* writing anew does not.  A pass reads exactly this.
Files == [ino: 0 .. MaxEdits, exec: BOOLEAN, base: 0 .. MaxEdits,
          size: 0 .. MaxSize, mtime: Times, ctime: Times]
Behaviors == {"CTIME_ONLY", "LOG_GROWTH"}

VARIABLES
    now,          \* one clock, of the site and of the operator
    place,
    file,         \* the file under the path, or NoFile
    edits,        \* changes so far
    captures,     \* captures begun so far; each has a staging identity of its own
    running,      \* the capture between its passes: [mode, letter, operation, stage, pass1, pass2]
    raws,         \* raw diagnostics in the order they were taken
    disposition,  \* the disposition made last
    tokens,       \* policy tokens printed
    candidate,    \* a volatile inventory
    bound         \* the inventory bound to a disposition

site == <<place, file, edits>>
vars == <<now, site, captures, running, raws, disposition, tokens, candidate, bound>>

Init ==
    /\ now = 0
    /\ place \in Places
    /\ file = [ino |-> 0, exec |-> FALSE, base |-> 0, size |-> 0, mtime |-> 0, ctime |-> 0]
    /\ edits = 0 /\ captures = 0
    /\ running = NoFile
    /\ raws = << >>
    /\ disposition = NoFile /\ tokens = {}
    /\ candidate = NoFile /\ bound = NoFile

-----------------------------------------------------------------------------
(* States of a file, as two passes show them.                              *)

\* state_without_ctime.
Rest(s) == <<s.ino, s.exec, s.base, s.size, s.mtime>>
CtimeOnly(s, t) == Rest(s) = Rest(t) /\ s.ctime # t.ctime

Grows(s, t) ==
    /\ <<s.ino, s.exec>> = <<t.ino, t.exec>>
    /\ s.size < t.size
    /\ s.mtime <= t.mtime /\ s.ctime <= t.ctime

\* behavior: how a delta is disposed of; "NONE" is refused.
Behavior(s, t) ==
    IF NoFile \in {s, t} THEN "NONE"
    ELSE IF s.ino # t.ino \/ s.exec \/ t.exec THEN "NONE"
    ELSE IF CtimeOnly(s, t) THEN "CTIME_ONLY"
    ELSE IF Grows(s, t) THEN "LOG_GROWTH"
    ELSE "NONE"

-----------------------------------------------------------------------------
(* derive, from the raw diagnostics i and j, stamped with the times a and b *)
(* their caller gave, issued at time t; high: as the high-sensitivity state *)
(* of wp-config.php.                                                       *)

\* runtime_continuity.
RuntimeContinuity(i, j) ==
    place.degraded => /\ raws[i].operation # raws[j].operation
                      /\ raws[i].stage # raws[j].stage

\* Wrong on purpose, to test ObservationsInOrder: a change time that differs is a
\* later one.
ContinuousButForTimes(i, j) ==
    LET post == raws[i].pass2
        pre == raws[j].pass1
    IN IF Behavior(raws[i].pass1, post) = "CTIME_ONLY" THEN Rest(post) = Rest(pre) ELSE post = pre

\* The second observation starts where the first one ended.
Continuous(i, j) ==
    LET post == raws[i].pass2
        pre == raws[j].pass1
    IN IF Behavior(raws[i].pass1, post) = "CTIME_ONLY"
       THEN Rest(post) = Rest(pre) /\ post.ctime <= pre.ctime
       ELSE post = pre

\* high_sensitivity_state.
HighSensitivityState(i, j) ==
    LET first == raws[i]
        second == raws[j]
    IN /\ ~place.upload
       /\ \A s \in {first.pass1, first.pass2, second.pass1, second.pass2} :
              Rest(s) = Rest(first.pass1)
       /\ first.pass1.ctime <= first.pass2.ctime
       /\ first.pass2.ctime <= second.pass1.ctime
       /\ second.pass1.ctime <= second.pass2.ctime

\* The provenance set lists every path but the high-sensitivity one, and
\* is never empty.  It vouches for the path's role, a log by its suffix.
ProvenanceScope(high) == high => place.companion
RoleAdmits(behavior) == behavior = "LOG_GROWTH" => place.suffix \in {".log", ".LOG"}

Disposable(i, j, high) ==
    LET behavior == Behavior(raws[i].pass1, raws[i].pass2) IN
    /\ RuntimeContinuity(i, j)
    /\ behavior \in Behaviors
    /\ Behavior(raws[j].pass1, raws[j].pass2) = behavior
    /\ Continuous(i, j)
    /\ high => place.config /\ behavior = "CTIME_ONLY" /\ HighSensitivityState(i, j)
    /\ ProvenanceScope(high)
    /\ ~high => RoleAdmits(behavior)

Issuable(a, b, t) ==
    /\ a < b /\ b <= a + MaxGap
    /\ b <= t /\ t <= b + IssueWindow

\* The rule for the helper.
Letter(behavior) ==
    IF behavior = "CTIME_ONLY" THEN "C" ELSE IF place.upload THEN "A" ELSE "L"

Current(d) == d.issued <= now /\ now <= d.issued + Lifetime

-----------------------------------------------------------------------------
(* The native helper.                                                      *)

\* monotonic_log_growth.
MonotonicLogGrowth(s, t) ==
    /\ Grows(s, t)
    /\ place.suffix = ".log" /\ ~place.upload /\ ~s.exec

\* What of a file fstat returns.
Stat(s) == <<s.ino, s.exec, s.size, s.mtime, s.ctime>>

\* Wrong on purpose, to test BoundIsHarmless: the bytes are not read again.
LogPrefixBySize(s, t, upload) ==
    /\ place.upload = upload
    /\ file # NoFile /\ Stat(file) = Stat(t)

\* verify_log_prefix for a location marker: the file is opened again, is what the
\* second pass saw, and begins with the bytes of the first.
LogPrefix(s, t, upload) ==
    /\ place.upload = upload
    /\ file # NoFile /\ Stat(file) = Stat(t)
    /\ s.size = 0 \/ s.base = file.base

\* emit_volatile_inventory, for the rule of the path: what the rows of the two passes
\* decide, and what a log that grew must prove.
HelperAdmits(letter, s, t) ==
    /\ NoFile \notin {s, t}
    /\ IF s = t
       THEN ~s.exec /\ place.upload = (letter = "A")
       ELSE \/ letter = "C" /\ CtimeOnly(s, t) /\ ~s.exec
            \/ letter \in {"A", "L"} /\ MonotonicLogGrowth(s, t)
Proved(letter, s, t) == letter # "C" /\ s # t => LogPrefix(s, t, letter = "A")

-----------------------------------------------------------------------------
(* parse_candidate and inventory_derive.                                   *)

\* A degraded candidate has an operation and a stage of its own.
NotReplayed(d, c) ==
    place.degraded => \A k \in {d.first, d.second} :
        c.operation # raws[k].operation /\ c.stage # raws[k].stage

\* The state of wp-config.php is the one observed.
StateUnchanged(d, c) ==
    /\ Rest(c.pass2) = Rest(raws[d.first].pass1)
    /\ raws[d.second].pass2.ctime <= c.pass2.ctime

ParseCandidate(d, c) ==
    /\ NotReplayed(d, c)
    /\ c.letter = d.letter
    /\ ~c.pass2.exec
    /\ d.high => StateUnchanged(d, c)

\* Wrong on purpose, to test BoundWhileCurrent: the disposition is checked when its token
\* is printed, and not again.
InventoryDeriveLate(d, c) == ParseCandidate(d, c)

InventoryDerive(d, c) == Current(d) /\ ParseCandidate(d, c)

-----------------------------------------------------------------------------
(* Captures.                                                               *)

\* The identities of a capture are read of the degraded runtime only.
Capture(mode, letter, operation) ==
    /\ running = NoFile
    /\ captures < MaxCaptures
    /\ captures' = captures + 1
    /\ running' = [mode |-> mode, letter |-> letter,
                   operation |-> IF place.degraded THEN operation ELSE 0,
                   stage |-> captures + 1, pass1 |-> file, pass2 |-> NoFile]
    /\ UNCHANGED <<now, site, raws, disposition, tokens, candidate, bound>>

StartDiagnostic(operation) ==
    /\ Len(raws) < MaxRaws
    /\ Capture("diagnostic", "none", operation)

StartVolatile(letter, operation) ==
    /\ letter \in tokens
    /\ candidate = NoFile
    /\ Capture("volatile-inventory", letter, operation)

\* A diagnostic is an account of a difference between its passes.
EndDiagnostic ==
    /\ running # NoFile /\ running.mode = "diagnostic"
    /\ running.pass1 # file
    /\ raws' = Append(raws, [pass1 |-> running.pass1, pass2 |-> file,
                             operation |-> running.operation, stage |-> running.stage])
    /\ running' = NoFile
    /\ UNCHANGED <<now, site, captures, disposition, tokens, candidate, bound>>

\* The second pass ends.
SecondPass ==
    /\ running # NoFile /\ running.mode = "volatile-inventory" /\ running.pass2 = NoFile
    /\ HelperAdmits(running.letter, running.pass1, file)
    /\ running' = [running EXCEPT !.pass2 = file]
    /\ UNCHANGED <<now, site, captures, raws, disposition, tokens, candidate, bound>>

\* The rows are compared, a log that grew is read again, and the inventory printed.
EndVolatile ==
    /\ running # NoFile /\ running.pass2 # NoFile
    /\ Proved(running.letter, running.pass1, running.pass2)
    /\ candidate' = [pass1 |-> running.pass1, pass2 |-> running.pass2,
                     letter |-> running.letter,
                     operation |-> running.operation, stage |-> running.stage]
    /\ running' = NoFile
    /\ UNCHANGED <<now, site, captures, raws, disposition, tokens, bound>>

\* Any other capture fails, and so may any that is cut short.
FailCapture ==
    /\ running # NoFile
    /\ running' = NoFile
    /\ UNCHANGED <<now, site, captures, raws, disposition, tokens, candidate, bound>>

-----------------------------------------------------------------------------
(* The commands.                                                           *)

\* The two diagnostics are signed with observation times of the caller's.
Create(i, j, a, b, t, high) ==
    /\ Disposable(i, j, high) /\ Issuable(a, b, t)
    /\ disposition' =
           [first |-> i, second |-> j, observed |-> <<a, b>>, issued |-> t, high |-> high,
            letter |-> Letter(Behavior(raws[i].pass1, raws[i].pass2))]
    /\ UNCHANGED <<now, site, captures, running, raws, tokens, candidate, bound>>

PolicyToken ==
    /\ disposition # NoFile
    /\ Current(disposition)
    /\ tokens' = tokens \cup {disposition.letter}
    /\ UNCHANGED <<now, site, captures, running, raws, disposition, candidate, bound>>

\* The inventory keeps what it was derived from.
InventoryCreate ==
    /\ NoFile \notin {disposition, candidate}
    /\ bound = NoFile
    /\ InventoryDerive(disposition, candidate)
    /\ bound' = [disposition |-> disposition, candidate |-> candidate, at |-> now]
    /\ UNCHANGED <<now, site, captures, running, raws, disposition, tokens, candidate>>

\* inventory_verify: the derivation repeated.
InventoryVerifies ==
    /\ bound # NoFile
    /\ InventoryDerive(bound.disposition, bound.candidate)

-----------------------------------------------------------------------------
(* The site and the clock.                                                 *)

\* The kernel stamps the change time of every change.
Change(new) ==
    /\ edits < MaxEdits
    /\ edits' = edits + 1
    /\ file' = new
    /\ UNCHANGED <<now, place, captures, running, raws, disposition, tokens, candidate, bound>>

AppendLine ==
    /\ file # NoFile /\ file.size < MaxSize
    /\ Change([file EXCEPT !.base = IF file.size = 0 THEN edits + 1 ELSE @,
                           !.size = @ + 1, !.mtime = now, !.ctime = now])

NewBase(size) == IF size = 0 THEN 0 ELSE edits + 1

\* The modification time may be set back to what it was.
Rewrite(size, restored) ==
    /\ file # NoFile
    /\ Change([file EXCEPT !.base = NewBase(size), !.size = size,
                           !.mtime = IF restored THEN @ ELSE now, !.ctime = now])

\* A change of owner or mode taken back, a hard link made and removed.
Touch == file # NoFile /\ Change([file EXCEPT !.ctime = now])

Chmod == file # NoFile /\ Change([file EXCEPT !.exec = ~@, !.ctime = now])

Delete == file # NoFile /\ Change(NoFile)

Replace(size) ==
    Change([ino |-> edits + 1, exec |-> FALSE, base |-> NewBase(size),
            size |-> size, mtime |-> now, ctime |-> now])

Tick ==
    /\ now < MaxTime
    /\ now' = now + 1
    /\ UNCHANGED <<site, captures, running, raws, disposition, tokens, candidate, bound>>

Next ==
    \/ \E operation \in Operations : StartDiagnostic(operation)
    \/ \E letter \in {"A", "C", "L"}, operation \in Operations : StartVolatile(letter, operation)
    \/ EndDiagnostic \/ SecondPass \/ EndVolatile \/ FailCapture
    \/ \E i, j \in DOMAIN raws, high \in BOOLEAN :
           /\ Disposable(i, j, high)
           /\ \E a, b, t \in Times : Create(i, j, a, b, t, high)
    \/ PolicyToken \/ InventoryCreate
    \/ AppendLine \/ Touch \/ Chmod \/ Delete
    \/ \E size \in 0 .. MaxSize, restored \in BOOLEAN : Rewrite(size, restored)
    \/ \E size \in 0 .. MaxSize : Replace(size)
    \/ Tick

Spec == Init /\ [][Next]_vars

-----------------------------------------------------------------------------
(* What should hold.                                                       *)

Passes == Files \cup {NoFile}
Operated(c) == c.operation \in Operations \cup {0} /\ c.stage \in 1 .. captures

\* The types of the variables; a disposition is about two captures that were taken.
TypeOK ==
    /\ now \in Times /\ place \in Places /\ file \in Passes
    /\ edits \in 0 .. MaxEdits /\ captures \in 0 .. MaxCaptures
    /\ running # NoFile => {running.pass1, running.pass2} \subseteq Passes /\ running.stage = captures
    /\ Len(raws) <= MaxRaws
    /\ \A k \in DOMAIN raws : Operated(raws[k]) /\ {raws[k].pass1, raws[k].pass2} \subseteq Passes
    /\ disposition # NoFile =>
           /\ {disposition.first, disposition.second} \subseteq DOMAIN raws
           /\ disposition.letter \in {"A", "C", "L"} /\ disposition.issued \in Times
    /\ tokens \subseteq {"A", "C", "L"}
    /\ candidate # NoFile => Operated(candidate) /\ {candidate.pass1, candidate.pass2} \subseteq Files
    /\ bound # NoFile => bound.at \in 0 .. now

\* The two observations of a disposition are two captures, and the first was taken
\* first, whatever times and operations their caller gave: a change time never
\* goes back, and the second starts where the first ended (derive).
ObservationsInOrder ==
    disposition # NoFile => disposition.first < disposition.second

\* wp-config.php bound as unchanged was the same in all six passes: identity, mode,
\* bytes and modification time, with change times in order (high_sensitivity_state,
\* emit_volatile_inventory, parse_candidate).
ConfigUnchanged ==
    bound # NoFile /\ bound.disposition.high =>
        LET first == raws[bound.disposition.first]
            second == raws[bound.disposition.second]
            seen == <<first.pass1, first.pass2, second.pass1, second.pass2, bound.candidate.pass2>>
        IN /\ \A k \in 1 .. 5 : Rest(seen[k]) = Rest(bound.candidate.pass1)
           /\ \A k \in 1 .. 4 : seen[k].ctime <= seen[k + 1].ctime

\* What differs between the passes of a bound inventory is a change time, or lines
\* added to the same file: a log that is neither an upload nor executable, whose
\* earlier bytes are still there (emit_volatile_inventory, parse_candidate).
AdmittedDriftIsHarmless ==
    bound # NoFile =>
        LET s == bound.candidate.pass1
            t == bound.candidate.pass2
        IN \/ Rest(s) = Rest(t)
           \/ /\ bound.disposition.letter = "L"
              /\ <<s.ino, FALSE, FALSE>> = <<t.ino, s.exec, t.exec>>
              /\ s.size < t.size /\ (s.size > 0 => s.base = t.base)
              /\ place.suffix = ".log" /\ ~place.upload

\* An inventory is bound under a disposition that was issued in time after its second
\* observation and has not expired, so within a day, ten minutes and two hours of
\* the first (derive, policy-token, inventory_derive).
BoundInTime ==
    bound # NoFile =>
        LET d == bound.disposition IN
        /\ d.observed[2] <= d.issued /\ d.issued <= bound.at
        /\ bound.at <= d.observed[2] + IssueWindow + Lifetime
        /\ bound.at <= d.observed[1] + MaxGap + IssueWindow + Lifetime

\* A bound inventory verifies until its disposition expires, whatever else is
\* captured, disposed of or changed on the site (inventory_verify).
BoundVerifiesUntilExpiry ==
    bound # NoFile /\ now <= bound.disposition.issued + Lifetime => InventoryVerifies

\* A bound inventory holds no drift but a harmless one, of a log between its passes
\* and of wp-config.php from the first observation on.
BoundIsHarmless == AdmittedDriftIsHarmless /\ ConfigUnchanged

\* An inventory is bound and verifies exactly within the life of its disposition.
BoundWhileCurrent == BoundInTime /\ BoundVerifiesUntilExpiry

=============================================================================
