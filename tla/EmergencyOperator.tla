--------------------------- MODULE EmergencyOperator ---------------------------
(***************************************************************************)
(* The emergency operator of the command line: operators' terminals that   *)
(* run wapp emergency-clean (src/bin/wapp-emergency-clean) over signed      *)
(* packages, and the validator they call (src/lib/emergency-operator-v1.py).*)
(* A terminal verifies, asks a human, verifies again and replaces itself    *)
(* by the package's launcher; the launcher claims the one-shot marker, has  *)
(* the package verified once more and mutates the site.                     *)
(*                                                                         *)
(* One remediation package, and the reopen packages made for it, each with  *)
(* a reservation below the remediation's marker: the base one, or the one   *)
(* that succeeds the reservation of an earlier reopen package.  Packages,   *)
(* registry and launchers are made elsewhere; they appear here as the code  *)
(* reads and calls them.                                                    *)
(***************************************************************************)
EXTENDS Naturals

CONSTANTS
    Sessions,     \* terminals
    Lifetimes,    \* expires_at_epoch - generated_at_epoch of the packages
    MaxReopens,   \* reopen packages made for the remediation
    MaxTime,      \* clock
    MaxEdition,   \* times the remediation package is issued under its path
    MaxProduct    \* upgrades of the Product runtime

ASSUME LifetimesAssumption == Lifetimes \subseteq Nat \ {0}
ASSUME OperatorBoundsAssumption ==
    /\ MaxReopens \in Nat
    /\ MaxTime \in Nat
    /\ MaxEdition \in Nat \ {0}
    /\ MaxProduct \in Nat

\* A package is named by its path: the remediation, or a reopen package.
Remediation == 0
Reopens == 1 .. MaxReopens
Packages == 0 .. MaxReopens

\* What the launcher of a package has come to.  "dispatched" is verified but
\* has not changed the site; "aborted" never will.
Run == {"none", "claimed", "dispatched", "mutating", "completed", "partial", "aborted"}

\* Where a terminal is in wapp emergency-clean and, from gate on, in the
\* launcher that has replaced it.
SessionPc == {"idle", "verify", "review", "prompt", "reselect", "reverify",
              "rereview", "launch", "gate", "dispatch", "remote", "mutate"}

VARIABLES
    now,          \* time.time()
    product,      \* the Product runtime installed
    authored,     \* packages that exist
    registered,   \* packages the registry selects, one of a phase
    edition,      \* package -> which bytes its path holds
    generated,    \* package -> generated_at_epoch
    expires,      \* package -> expires_at_epoch
    sealed,       \* package -> Product runtime of its seal
    drifted,      \* packages with a bound file or a review whose bytes no longer match
    unsigned,     \* packages whose HMAC, or that of their review or a dependency, is gone
    predecessor,  \* reopen package -> whose reservation its own succeeds, 0 for the base
    schema,       \* reopen package -> schema of its reservation
    reservation,  \* reservation path -> reopen package committed in it, or 0
    consumed,     \* package -> edition named in its consumption marker, or 0
    run,          \* package -> what its launcher has come to
    finished,     \* when the remediation's execution audit ends
    pc, chosen,   \* terminal -> label, package it works on
    seen,         \* terminal -> edition shown to its human
    revoked,      \* history: terminals whose human confirmed what the registry had dropped
                  \* or what was not signed any more
    unfit,        \* history: packages claimed when they were not to be run any more
    mutations     \* history: <<terminal, package>> of every launcher that began to mutate

clock == <<now, product>>
dates == <<edition, generated, expires, sealed>>
broken == <<drifted, unsigned>>
files == <<authored, registered, dates, broken, predecessor, schema, reservation>>
markers == <<consumed, run, finished>>
terminals == <<pc, chosen, seen>>
history == <<revoked, unfit, mutations>>
vars == <<clock, files, markers, terminals, history>>

Init ==
    /\ now = 0 /\ product = 0
    /\ authored = {Remediation} /\ registered = {Remediation}
    /\ edition = [p \in Packages |-> 1]
    /\ generated = [p \in Packages |-> 0]
    /\ expires \in {[p \in Packages |-> l] : l \in Lifetimes}
    /\ sealed = [p \in Packages |-> 0]
    /\ drifted = {} /\ unsigned = {}
    /\ predecessor = [p \in Packages |-> 0]
    /\ schema = [p \in Packages |-> 1]
    /\ reservation = [p \in Packages |-> 0]
    /\ consumed = [p \in Packages |-> 0]
    /\ run = [p \in Packages |-> "none"]
    /\ finished = 0
    /\ pc = [s \in Sessions |-> "idle"]
    /\ chosen = [s \in Sessions |-> Remediation]
    /\ seen = [s \in Sessions |-> 1]
    /\ revoked = {} /\ unfit = {} /\ mutations = {}

-----------------------------------------------------------------------------
(* verify_reopen_source_lineage, for a reopen package generated at time t  *)
(* with a reservation of schema k that succeeds that of package q.         *)

\* The remediation is consumed, and its audit ends within its validity and
\* before the reopen package was made.
SourceExecuted(t) ==
    /\ Remediation \notin drifted
    /\ consumed[Remediation] = edition[Remediation]
    /\ run[Remediation] = "completed"
    /\ finished < expires[Remediation]
    /\ finished <= t

\* The file reopen-completed below the remediation's marker.
ReopenCompleted == \E r \in Reopens : run[r] = "completed"

\* Schema 2: the predecessor was consumed, and a reviewed disposition says
\* that its launcher ended without touching the site.
ConsumedPredecessor(q) == consumed[q] = edition[q] /\ run[q] = "aborted"

\* Schema 3: the predecessor expired before this package was made, and its
\* marker does not exist now.
UnconsumedPredecessor(q, t) == expires[q] <= t /\ consumed[q] = 0

PredecessorAdmits(k, q, t) ==
    \/ k = 1 /\ q = Remediation
    \/ k = 2 /\ q \in Reopens /\ ConsumedPredecessor(q)
    \/ k = 3 /\ q \in Reopens /\ UnconsumedPredecessor(q, t)

LineageAdmits(k, q, t) ==
    /\ SourceExecuted(t)
    /\ ~ReopenCompleted
    /\ PredecessorAdmits(k, q, t)

\* The reservation is at the path its schema and predecessor give it, and
\* commits to this package.
ReservationHeld(p) == reservation[predecessor[p]] = p

-----------------------------------------------------------------------------
(* verify_package.                                                         *)

Fresh(p) == generated[p] <= now /\ now < expires[p]

\* bound_file, verify_product_seal and verify_review: bytes, and no HMAC.
Intact(p) == p \notin drifted /\ sealed[p] = product

Admissible(p) ==
    /\ Fresh(p)
    /\ Intact(p)
    /\ p \in Reopens =>
        LineageAdmits(schema[p], predecessor[p], generated[p]) /\ ReservationHeld(p)

VerifyPackage(p) == Admissible(p) /\ consumed[p] = 0

\* The command's own loop over the package, its review and its dependencies,
\* among which a reopen package has the remediation and the review of it.
Signed(p) == p \notin unsigned /\ (p \in Reopens => Remediation \notin unsigned)

\* Wrong on purpose, to test UnfitNeverMutates: only the marker is looked at.
VerifyMarkerOnly(p, e) == edition[p] = e /\ consumed[p] = e

\* verify-current-dispatch, called by the launcher with the hash it was
\* started for: the marker must be there now, and name this edition.
VerifyCurrentDispatch(p, e) ==
    /\ edition[p] = e /\ consumed[p] = e
    /\ Admissible(p)

-----------------------------------------------------------------------------
(* wapp emergency-clean DOMAIN --execute | --reopen.                       *)

Step(s, l) == pc' = [pc EXCEPT ![s] = l]

\* Verified or ended: every fail of the script leaves nothing behind.
Check(s, ok, l) == Step(s, IF ok THEN l ELSE "idle")

\* Wrong on purpose, to test TypeOK: the path is taken from the registry
\* without a look at the file it binds.
SelectUnbound(s) ==
    /\ pc[s] = "idle"
    /\ \E p \in Packages : chosen' = [chosen EXCEPT ![s] = p]
    /\ Step(s, "verify")
    /\ revoked' = revoked \ {s}
    /\ UNCHANGED <<clock, files, markers, seen, unfit, mutations>>

\* The registry is verified and selects a package of the phase.
SelectPackage(s) ==
    /\ pc[s] = "idle"
    /\ \E p \in registered : chosen' = [chosen EXCEPT ![s] = p]
    /\ Step(s, "verify")
    /\ revoked' = revoked \ {s}
    /\ UNCHANGED <<clock, files, markers, seen, unfit, mutations>>

FirstVerify(s) ==
    /\ pc[s] = "verify"
    /\ Check(s, VerifyPackage(chosen[s]) /\ Signed(chosen[s]), "review")
    /\ UNCHANGED <<clock, files, markers, chosen, seen, history>>

\* verify-review, the second verify-package, whose summary is displayed, and
\* the stop of a review, of another class or of a missing terminal.
ReviewPackage(s) ==
    /\ pc[s] = "review"
    /\ \/ Check(s, VerifyPackage(chosen[s]), "prompt")
       \/ Step(s, "idle")
    /\ seen' = [seen EXCEPT ![s] = edition[chosen[s]]]
    /\ UNCHANGED <<clock, files, markers, chosen, history>>

\* What the human confirms: path and bytes as the registry selects them, and
\* the package's own signatures.
Selected(s) == chosen[s] \in registered /\ edition[chosen[s]] = seen[s]
Standing(s) == Selected(s) /\ chosen[s] \notin unsigned

\* The human types the phrase, which carries the hash of the package shown,
\* or anything else.
Confirm(s) ==
    /\ pc[s] = "prompt"
    /\ \/ /\ Step(s, "reselect")
          /\ revoked' = IF Standing(s) THEN revoked ELSE revoked \cup {s}
       \/ /\ Step(s, "idle")
          /\ UNCHANGED revoked
    /\ UNCHANGED <<clock, files, markers, chosen, seen, unfit, mutations>>

\* registry-package must select the same paths; it checks the hashes against
\* the registry as it is now.
Reselect(s) ==
    /\ pc[s] = "reselect"
    /\ Check(s, chosen[s] \in registered, "reverify")
    /\ UNCHANGED <<clock, files, markers, chosen, seen, history>>

\* The last look at a signature: the steps from here to the launcher's first
\* change of the site compare bytes only.
Reverify(s) ==
    /\ pc[s] = "reverify"
    /\ Check(s, VerifyPackage(chosen[s]) /\ Signed(chosen[s]), "rereview")
    /\ UNCHANGED <<clock, files, markers, chosen, seen, history>>

\* Wrong on purpose, to test RevokedNeverLaunches: the summaries shown and
\* found now are not compared.
RereviewWithoutSummary(s) ==
    /\ pc[s] = "rereview"
    /\ Check(s, VerifyPackage(chosen[s]), "launch")
    /\ UNCHANGED <<clock, files, markers, chosen, seen, history>>

\* verify-review, the last verify-package, and its summary equal to the one
\* the human saw.
Rereview(s) ==
    /\ pc[s] = "rereview"
    /\ Check(s, VerifyPackage(chosen[s]) /\ edition[chosen[s]] = seen[s], "launch")
    /\ UNCHANGED <<clock, files, markers, chosen, seen, history>>

\* exec-launcher: the launcher's bytes are pinned and hashed.  The launcher
\* is one of the bound files, so it may be what drifted.
Launch(s) ==
    /\ pc[s] = "launch"
    /\ \/ Step(s, "gate")
       \/ chosen[s] \in drifted /\ Step(s, "idle")
    /\ UNCHANGED <<clock, files, markers, chosen, seen, history>>

-----------------------------------------------------------------------------
(* The launcher.                                                           *)

SetRun(p, r) == run' = [run EXCEPT ![p] = r]

\* Nothing this terminal may still run: the claim of it is too late.
Unfit(p, e) == ~(now < expires[p] /\ Intact(p) /\ edition[p] = e)

\* Wrong on purpose, to test AtMostOneReopen: mkdir -p, which accepts a marker
\* that another terminal has made.
ClaimAgain(s) ==
    /\ pc[s] = "gate"
    /\ consumed' = [consumed EXCEPT ![chosen[s]] = seen[s]]
    /\ SetRun(chosen[s], "claimed") /\ Step(s, "dispatch")
    /\ UNCHANGED <<clock, files, finished, chosen, seen, history>>

\* After its own human gate the launcher makes the marker with mkdir, which
\* fails when it exists, and writes the package hash into it.
Claim(s) ==
    /\ pc[s] = "gate"
    /\ LET p == chosen[s] IN
       \/ /\ consumed[p] = 0
          /\ consumed' = [consumed EXCEPT ![p] = seen[s]]
          /\ SetRun(p, "claimed")
          /\ unfit' = IF Unfit(p, seen[s]) THEN unfit \cup {p} ELSE unfit
          /\ Step(s, "dispatch")
       \/ /\ Step(s, "idle")
          /\ UNCHANGED <<consumed, run, unfit>>
    /\ UNCHANGED <<clock, files, finished, chosen, seen, revoked, mutations>>

Dispatch(s) ==
    /\ pc[s] = "dispatch"
    /\ LET p == chosen[s] IN
       \/ /\ VerifyCurrentDispatch(p, seen[s])
          /\ SetRun(p, "dispatched") /\ Step(s, "remote")
       \/ /\ ~VerifyCurrentDispatch(p, seen[s])
          /\ SetRun(p, "aborted") /\ Step(s, "idle")
    /\ UNCHANGED <<clock, files, consumed, finished, chosen, seen, history>>

\* The checks on the host, before the first change of the site.
RemoteVerify(s) ==
    /\ pc[s] = "remote"
    /\ LET p == chosen[s] IN
       \/ /\ SetRun(p, "mutating") /\ Step(s, "mutate")
          /\ mutations' = mutations \cup {<<s, p>>}
       \/ /\ SetRun(p, "aborted") /\ Step(s, "idle")
          /\ UNCHANGED mutations
    /\ UNCHANGED <<clock, files, consumed, finished, chosen, seen, revoked, unfit>>

Finish(s) ==
    /\ pc[s] = "mutate"
    /\ \/ SetRun(chosen[s], "completed")
       \/ SetRun(chosen[s], "partial")
    /\ finished' = IF chosen[s] = Remediation THEN now ELSE finished
    /\ Step(s, "idle")
    /\ UNCHANGED <<clock, files, consumed, chosen, seen, history>>

\* The terminal is closed, at any point.
Kill(s) ==
    /\ pc[s] # "idle"
    /\ IF pc[s] \in {"dispatch", "remote"} THEN SetRun(chosen[s], "aborted")
       ELSE IF pc[s] = "mutate" THEN SetRun(chosen[s], "partial")
       ELSE UNCHANGED run
    /\ Step(s, "idle")
    /\ UNCHANGED <<clock, files, consumed, finished, chosen, seen, history>>

Terminal(s) ==
    \/ SelectPackage(s) \/ FirstVerify(s) \/ ReviewPackage(s) \/ Confirm(s)
    \/ Reselect(s) \/ Reverify(s) \/ Rereview(s) \/ Launch(s)
    \/ Claim(s) \/ Dispatch(s) \/ RemoteVerify(s) \/ Finish(s) \/ Kill(s)

-----------------------------------------------------------------------------
(* Those who make packages, and what happens to files and clock.           *)

\* A reopen package is made and reviewed, its reservation created where none
\* exists, and the registry selects it from now on.  The reviewer signs what
\* the validator accepts at that time.
AuthorReopen(p, q, k, l) ==
    /\ p \in Reopens \ authored
    /\ \A r \in Reopens : r < p => r \in authored
    /\ q \in authored /\ reservation[q] = 0
    /\ LineageAdmits(k, q, now)
    /\ authored' = authored \cup {p}
    /\ registered' = (registered \ Reopens) \cup {p}
    /\ generated' = [generated EXCEPT ![p] = now]
    /\ expires' = [expires EXCEPT ![p] = now + l]
    /\ sealed' = [sealed EXCEPT ![p] = product]
    /\ predecessor' = [predecessor EXCEPT ![p] = q]
    /\ schema' = [schema EXCEPT ![p] = k]
    /\ reservation' = [reservation EXCEPT ![q] = p]
    /\ UNCHANGED <<clock, edition, broken, markers, terminals, history>>

\* The remediation package is made anew under the same path, with new
\* evidence, signed and registered.
Reissue(l) ==
    /\ edition[Remediation] < MaxEdition
    /\ edition' = [edition EXCEPT ![Remediation] = @ + 1]
    /\ generated' = [generated EXCEPT ![Remediation] = now]
    /\ expires' = [expires EXCEPT ![Remediation] = now + l]
    /\ sealed' = [sealed EXCEPT ![Remediation] = product]
    /\ drifted' = drifted \ {Remediation} /\ unsigned' = unsigned \ {Remediation}
    /\ registered' = registered \cup {Remediation}
    /\ UNCHANGED <<clock, authored, predecessor, schema, reservation, markers,
                   terminals, history>>

Withdraw(p) ==
    /\ p \in registered
    /\ registered' = registered \ {p}
    /\ UNCHANGED <<clock, authored, dates, broken, predecessor, schema, reservation,
                   markers, terminals, history>>

Drift(p) ==
    /\ p \in authored \ drifted
    /\ drifted' = drifted \cup {p}
    /\ UNCHANGED <<clock, authored, registered, dates, unsigned, predecessor, schema,
                   reservation, markers, terminals, history>>

\* A signature file is lost or rewritten, or the key it was made with.
Unsign(p) ==
    /\ p \in authored \ unsigned
    /\ unsigned' = unsigned \cup {p}
    /\ UNCHANGED <<clock, authored, registered, dates, drifted, predecessor, schema,
                   reservation, markers, terminals, history>>

Upgrade ==
    /\ product < MaxProduct
    /\ product' = product + 1
    /\ UNCHANGED <<now, files, markers, terminals, history>>

Tick ==
    /\ now < MaxTime
    /\ now' = now + 1
    /\ UNCHANGED <<product, files, markers, terminals, history>>

Surroundings ==
    \/ \E p, q \in Packages, k \in 1 .. 3, l \in Lifetimes : AuthorReopen(p, q, k, l)
    \/ \E l \in Lifetimes : Reissue(l)
    \/ \E p \in Packages : Withdraw(p) \/ Drift(p) \/ Unsign(p)
    \/ Upgrade \/ Tick

Next == (\E s \in Sessions : Terminal(s)) \/ Surroundings

Spec == Init /\ [][Next]_vars

-----------------------------------------------------------------------------
(* Properties.                                                             *)

ClockOK == now \in Nat /\ product \in Nat /\ finished \in Nat

PackagesOK ==
    /\ authored \subseteq Packages /\ Remediation \in authored
    /\ registered \subseteq authored
    /\ drifted \subseteq authored /\ unsigned \subseteq authored
    /\ edition \in [Packages -> 1 .. MaxEdition]
    /\ generated \in [Packages -> Nat] /\ expires \in [Packages -> Nat]
    /\ sealed \in [Packages -> Nat]
    /\ predecessor \in [Packages -> Packages] /\ schema \in [Packages -> 1 .. 3]
    /\ reservation \in [Packages -> Packages]

RunsOK ==
    /\ consumed \in [Packages -> 0 .. MaxEdition]
    /\ run \in [Packages -> Run]

TerminalsOK ==
    /\ pc \in [Sessions -> SessionPc]
    /\ chosen \in [Sessions -> authored]
    /\ seen \in [Sessions -> 1 .. MaxEdition]
    /\ revoked \subseteq Sessions /\ unfit \subseteq Packages
    /\ mutations \subseteq Sessions \X Packages

TypeOK == ClockOK /\ PackagesOK /\ RunsOK /\ TerminalsOK

\* One shot, and one reopen: of all packages of a lineage at most one reopen,
\* and of the remediation one run, ever begins to change the site, from one
\* terminal, however many were verified, confirmed and launched side by side
\* (EMERGENCY-OPERATOR-MODE-V1.md: the reservation "prevents two distinct
\* reopen continuations from the same lineage").
AtMostOneReopen ==
    \A m, n \in mutations :
        (m[2] \in Reopens <=> n[2] \in Reopens) => m = n

\* A package that has expired, has a bound file or review of other bytes, lost
\* its Product runtime or been issued anew before its marker was claimed
\* changes nothing: the time a terminal spends at the launcher's prompt is
\* covered by verify-current-dispatch.  Not so its signatures: the dispatch
\* looks at none.
UnfitNeverMutates ==
    \A p \in unfit : run[p] \in {"claimed", "aborted"}

\* What the registry had withdrawn, superseded or issued anew, or what had
\* lost its signature, by the time the human confirmed it is never handed to
\* a launcher: confirmed packages are verified again, HMAC and all.
RevokedNeverLaunches ==
    \A s \in revoked : pc[s] \in {"idle", "reselect", "reverify", "rereview"}

=============================================================================
