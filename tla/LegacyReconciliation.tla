------------------------- MODULE LegacyReconciliation -------------------------
(***************************************************************************)
(* The reconciliation of a remediation whose execution audit was never      *)
(* signed (verify_legacy_reconciled_execution of src/lib/                   *)
(* emergency-operator-v1.py).  A launcher appends to its audit and may be   *)
(* killed, fail or be started again.  Long after, a collector observes the  *)
(* site, perhaps hastily, and an author binds the audit, a copy of it and   *)
(* the observations.  From these alone the verifier must tell whether the   *)
(* remediation was carried out and has held.  The package and its reviews   *)
(* are those of EmergencyOperator, taken here to be intact.                 *)
(***************************************************************************)
EXTENDS Naturals, Sequences, SequencesExt

CONSTANTS
    Contracts,    \* what packages may have to do: sets of Markers
    Expiry,       \* when the package expires; it was generated at 0
    Gap,          \* sixty seconds, whatever the package has as its stability
    MaxTime,      \* bound of the clock
    MaxRuns,      \* launchers started for the operation
    MaxDeaths,    \* those of them that may be stopped on the way
    MaxChanges,   \* what happens to the site by itself
    MaxProbes,    \* requests that are reported late
    None          \* nothing yet

\* What a launcher reports of its work: files quarantined, files transformed,
\* rows of the database changed, and then read back.
Markers == {"quarantine", "replace", "apply", "after"}

ASSUME LegacyAssumption ==
    /\ \A c \in Contracts : c \subseteq Markers /\ ("apply" \in c <=> "after" \in c)
    /\ Expiry \in Nat /\ Gap \in Nat \ {0}
    /\ MaxTime \in Nat /\ MaxRuns \in Nat /\ MaxDeaths \in Nat
    /\ MaxChanges \in Nat /\ MaxProbes \in Nat

Times == 0 .. MaxTime

VARIABLES
    now,
    contract,     \* of the package
    runs, pc,     \* launchers started, and what the last one does next
    done,         \* marker -> when and by which launchers that was carried out
    site,         \* isolated, and work that has been undone
    changes,
    log,          \* the audit: lines with what they report, when, and if exactly
    preserved,    \* a copy of it
    post,         \* the poststate: of which audit, its observations, completed
    probe,        \* a request that found the site denied and is not yet reported
    probes,       \* made so far
    attestation   \* what binds them, and when

launcher == <<runs, pc, done, log>>
collector == <<post, probe, probes>>
vars == <<now, contract, launcher, site, changes, preserved, collector, attestation>>

Init ==
    /\ now = 0 /\ contract \in Contracts
    /\ runs = 0 /\ pc = "none" /\ done = [m \in Markers |-> {}]
    /\ site = [isolated |-> FALSE, undone |-> {}] /\ changes = 0
    /\ log = <<>> /\ preserved = <<>>
    /\ post = None /\ probe = None /\ probes = 0 /\ attestation = None

-----------------------------------------------------------------------------
(* verify_legacy_reconciled_execution.                                     *)

\* Lines of the audit that report this, and those that report it exactly as the
\* contract has it.
Reports(what) == {i \in DOMAIN log : log[i].what = what}
Exact(what) == {i \in Reports(what) : log[i].exact}

\* bounded_text_lines: a file that ends in the middle of a line is no audit.
Framed == log # <<>> /\ Last(log).what # "torn"

\* Wrong on purpose, to test ReconciledWasExecuted: whatever the line counts.
OnceInAnyNumber(what) == \E i \in DOMAIN log : Reports(what) = {i}

Once(what) == \E i \in DOMAIN log : Reports(what) = {i} /\ Exact(what) = {i}

\* The attestation's hashes of the audit and of the copy.
SourcesBound(a) == a.log = log /\ a.preserved = preserved /\ log = preserved

\* Exactly one beginning and one end, and every marker of the contract once.
SuccessReported ==
    /\ Once("begin") /\ Once("terminal")
    /\ \A m \in contract : Once(m)
    /\ \A m \in Markers \ contract : Reports(m) = {}

Index(what) == CHOOSE i \in Reports(what) : TRUE

Before(first, second) ==
    first \in contract \cup {"begin"} /\ second \in contract \cup {"terminal"} =>
        Index(first) < Index(second)

MarkersInOrder ==
    /\ \A m \in contract : Before("begin", m) /\ Before(m, "terminal")
    /\ Before("begin", "terminal") /\ Before("apply", "after")
    /\ \A f \in {"quarantine", "replace"} : Before(f, "apply")

At(what) == log[Index(what)].at

\* The audit lies within the package's life, the attestation after it; the
\* rows are changed and read back between beginning and end.
Chronology(a) ==
    /\ At("begin") <= At("terminal") /\ At("terminal") < Expiry
    /\ Expiry <= a.generated /\ a.generated <= now
    /\ "apply" \in contract =>
        At("begin") <= At("apply") /\ At("apply") <= At("after") /\ At("after") <= At("terminal")

\* Every line with a date is a known one, between beginning and end; those
\* without, the reports of files, are known ones.
RecordsKnown ==
    \A i \in DOMAIN log :
        /\ log[i].what \in {"begin", "terminal"} \cup contract
        /\ log[i].what \notin {"quarantine", "replace"} =>
            /\ Index("begin") <= i /\ i <= Index("terminal")
            /\ log[i].at <= At("terminal")

\* What each observation must have found.
Evidence ==
    {"isolation", "files", "denial"} \cup
        (IF "apply" \in contract THEN {"database"} ELSE {})

\* Wrong on purpose, to test ReconciledWasSeen: a denial of any date.
ProvenByAnyDenial(o) ==
    /\ o.end # None /\ o.begin <= o.end
    /\ \A k \in Evidence : o.seen[k] # None

\* A denial is dated within its observation.
Proven(o) ==
    /\ o.end # None /\ o.begin <= o.end
    /\ \A k \in Evidence : o.seen[k] # None
    /\ o.begin <= o.seen["denial"] /\ o.seen["denial"] <= o.end

\* Wrong on purpose, to test ExecutedReconciles: the poststate is to be older
\* than the attestation by a second.
PoststateProvenEarlier(a) ==
    LET obs == a.post.obs IN
    /\ a.post = post /\ a.post.log = log
    /\ Len(obs) = 2 /\ Proven(obs[1]) /\ Proven(obs[2])
    /\ Expiry <= obs[1].begin /\ obs[1].end < obs[2].begin
    /\ obs[2].begin - obs[1].begin >= Gap
    /\ a.post.completed # None
    /\ obs[2].end <= a.post.completed /\ a.post.completed < a.generated

\* Two observations after the package's expiry, the first over before the
\* second begins, and the beginnings apart.
PoststateProven(a) ==
    LET obs == a.post.obs IN
    /\ a.post = post /\ a.post.log = log
    /\ Len(obs) = 2 /\ Proven(obs[1]) /\ Proven(obs[2])
    /\ Expiry <= obs[1].begin /\ obs[1].end < obs[2].begin
    /\ obs[2].begin - obs[1].begin >= Gap
    /\ a.post.completed # None
    /\ obs[2].end <= a.post.completed /\ a.post.completed <= a.generated

Admissible(a) ==
    /\ SourcesBound(a) /\ Framed /\ SuccessReported
    /\ MarkersInOrder /\ Chronology(a) /\ RecordsKnown
    /\ PoststateProven(a)

\* The verdict and, when it is not a refusal, the date later documents start from.
Verify(a) ==
    IF a # None /\ Admissible(a)
    THEN [state |-> "RECONCILED", generated |-> a.generated]
    ELSE [state |-> "REFUSED", generated |-> None]

Reconciled == Verify(attestation).state = "RECONCILED"

-----------------------------------------------------------------------------
(* The launcher.                                                           *)

\* What it does after a step, in the order of its contract.
After(step) ==
    LET order == <<"begin", "quarantine", "replace", "apply", "after", "terminal">>
        left == {i \in DOMAIN order :
                    /\ order[i] \in contract \cup {"begin", "terminal"}
                    /\ \A j \in DOMAIN order : order[j] = step => i > j}
    IN  IF left = {} THEN "ended" ELSE order[CHOOSE i \in left : \A j \in left : i <= j]

Line(what, exact) == [what |-> what, at |-> now, exact |-> exact]

\* One that is started after the collector changes the audit that it binds.
Start ==
    /\ runs < MaxRuns /\ pc \in {"none", "dead"} /\ now < Expiry /\ post = None
    /\ runs' = runs + 1 /\ pc' = "begin"
    /\ UNCHANGED <<done, site, log>>

\* The site is isolated before anything is changed.
Begin ==
    /\ pc = "begin"
    /\ log' = Append(log, Line("begin", TRUE)) /\ pc' = After("begin")
    /\ site' = [site EXCEPT !.isolated = TRUE]
    /\ UNCHANGED <<runs, done>>

\* A piece of work is carried out; some of it may not be there to be done.
Work(m) ==
    /\ pc = m /\ m \in contract
    /\ \E all \in IF done[m] = {} THEN BOOLEAN ELSE {FALSE} :
        /\ done' = [done EXCEPT ![m] = @ \cup {[at |-> now, by |-> runs, all |-> all]}]
        /\ pc' = IF all THEN "report" ELSE "reportPart"
    /\ UNCHANGED <<runs, site, log>>

\* The work last carried out is the one to be reported.
Current ==
    LET mine == {m \in contract : \E d \in done[m] : d.by = runs}
    IN  CHOOSE m \in mine : After(m) \notin mine

Report ==
    /\ pc \in {"report", "reportPart"}
    /\ log' = Append(log, Line(Current, pc = "report")) /\ pc' = After(Current)
    /\ UNCHANGED <<runs, done, site>>

\* The site is left isolated.
Complete ==
    /\ pc = "terminal"
    /\ log' = Append(log, Line("terminal", TRUE)) /\ pc' = "ended"
    /\ UNCHANGED <<runs, done, site>>

\* It is killed, perhaps in the middle of a line, or reports a failure and stops.
Die ==
    /\ pc \notin {"none", "dead", "ended"} /\ runs <= MaxDeaths
    /\ pc' = "dead"
    /\ \/ UNCHANGED log
       \/ \E what \in {"torn", "failure"} : log' = Append(log, Line(what, FALSE))
    /\ UNCHANGED <<runs, done, site>>

Launcher ==
    /\ Start \/ Begin \/ (\E m \in Markers : Work(m)) \/ Report \/ Complete \/ Die
    /\ UNCHANGED <<now, contract, changes, preserved, collector, attestation>>

-----------------------------------------------------------------------------
(* Site, collector and author.                                             *)

\* The incident returns, or the isolation is lifted.  What happens after the
\* attestation is no part of it.
SiteChanges ==
    /\ attestation = None
    /\ changes < MaxChanges /\ changes' = changes + 1
    /\ \/ \E m \in Markers : done[m] # {} /\ site' = [site EXCEPT !.undone = @ \cup {m}]
       \/ site.isolated /\ site' = [site EXCEPT !.isolated = FALSE]

Holds(marks) == \A m \in marks \cap contract : done[m] # {} /\ m \notin site.undone

True(k) ==
    CASE k \in {"isolation", "denial"} -> site.isolated
      [] k = "files" -> Holds({"quarantine", "replace"})
      [] k = "database" -> Holds({"apply", "after"})

\* The launcher has stopped, for all its operator knows.
Stopped == pc \in {"dead", "ended"}

Preserve ==
    /\ Stopped /\ preserved = <<>> /\ preserved' = log
    /\ UNCHANGED <<collector, attestation>>

Collect ==
    /\ Stopped /\ preserved # <<>> /\ post = None
    /\ post' = [log |-> log, obs |-> <<>>, completed |-> None]
    /\ UNCHANGED <<preserved, probe, probes, attestation>>

Observing == post # None /\ post.completed = None

Open == Observing /\ post.obs # <<>> /\ Last(post.obs).end = None

BeginObservation ==
    /\ Observing /\ ~Open /\ Len(post.obs) < 2
    /\ post' = [post EXCEPT !.obs = Append(@,
        [begin |-> now, end |-> None, seen |-> [k \in Evidence |-> None]])]
    /\ UNCHANGED <<preserved, probe, probes, attestation>>

\* One call on the host reports what is true there; then a request finds the
\* site denied, or one made earlier is reported.
See(kinds) ==
    LET i == Len(post.obs)
        From(time) == [k \in Evidence |-> IF k \in kinds THEN time ELSE post.obs[i].seen[k]]
    IN
    /\ Open /\ \A k \in Evidence : post.obs[i].seen[k] = None <=> k \in kinds \cup {"denial"}
    /\ \/ (\A k \in kinds : True(k)) /\ probe' = probe
          /\ post' = [post EXCEPT !.obs[i].seen = From(now)]
       \/ /\ kinds = {"denial"} /\ probe # None /\ probe' = None
          /\ post' = [post EXCEPT !.obs[i].seen = From(probe)]
    /\ UNCHANGED <<preserved, probes, attestation>>

Probe ==
    /\ Observing /\ ~Open /\ probe = None /\ True("denial") /\ probe' = now
    /\ probes < MaxProbes /\ probes' = probes + 1
    /\ UNCHANGED <<preserved, post, attestation>>

EndObservation ==
    /\ Open /\ post' = [post EXCEPT !.obs[Len(post.obs)].end = now]
    /\ UNCHANGED <<preserved, probe, probes, attestation>>

CompletePoststate ==
    /\ Observing /\ ~Open /\ post' = [post EXCEPT !.completed = now]
    /\ UNCHANGED <<preserved, probe, probes, attestation>>

Attest ==
    /\ post # None /\ ~Open
    /\ attestation' = [log |-> log, preserved |-> preserved, post |-> post, generated |-> now]
    /\ UNCHANGED <<preserved, collector>>

\* The author attests last: what binds a file written anew is refused.
Paperwork ==
    /\ attestation = None
    /\ \/ Preserve \/ Collect \/ BeginObservation
       \/ See(Evidence \ {"denial"}) \/ See({"denial"})
       \/ Probe \/ EndObservation \/ CompletePoststate \/ Attest
    /\ UNCHANGED <<now, contract, launcher, site, changes>>

Tick == now < MaxTime /\ now' = now + 1

Surroundings ==
    \/ Tick /\ UNCHANGED <<contract, launcher, site, changes, preserved, collector, attestation>>
    \/ SiteChanges /\ UNCHANGED <<now, contract, launcher, preserved, collector, attestation>>

Next == Launcher \/ Paperwork \/ Surroundings

Spec == Init /\ [][Next]_vars

-----------------------------------------------------------------------------
(* Properties.                                                             *)

TypeOK ==
    /\ now \in Times /\ contract \in Contracts
    /\ runs \in 0 .. MaxRuns /\ changes \in 0 .. MaxChanges
    /\ site \in [isolated : BOOLEAN, undone : SUBSET Markers]
    /\ \A i \in DOMAIN log : log[i].at \in Times /\ log[i].exact \in BOOLEAN
    /\ probe \in Times \cup {None} /\ probes \in 0 .. MaxProbes
    /\ Verify(attestation) \in
        [state : {"RECONCILED"}, generated : Times] \cup [state : {"REFUSED"}, generated : {None}]

\* A reconciled execution took place: one launcher and no other carried out all
\* of the contract, in its order and within the package's life, and ended.
\* Nothing but lines of text vouches for it.
ReconciledWasExecuted ==
    Reconciled =>
        /\ pc = "ended"
        /\ \A m \in contract : \E t \in Times :
            t < Expiry /\ done[m] = {[at |-> t, by |-> runs, all |-> TRUE]}
        /\ \A m, n \in contract : \A d \in done[m], e \in done[n] : After(m) = n => d.at <= e.at

\* It was seen to hold twice after the package had expired: each thing anew,
\* and nothing of the first time after the second had begun.
ReconciledWasSeen ==
    Reconciled =>
        LET obs == attestation.post.obs IN
        \A k \in Evidence :
            /\ Expiry <= obs[1].seen[k]
            /\ obs[1].seen[k] < obs[2].begin /\ obs[2].begin <= obs[2].seen[k]
            /\ obs[2].seen[k] <= attestation.generated
            /\ obs[2].seen[k] - obs[1].begin >= Gap

\* What was carried out in full and observed by the book is reconciled, at once
\* and at any later time.
ByTheBook(a) ==
    LET obs == a.post.obs IN
    /\ runs = 1 /\ pc = "ended" /\ Last(log).at < Expiry
    /\ \A i \in DOMAIN log : log[i].exact
    /\ a.log = log /\ preserved = log /\ a.preserved = log
    /\ a.post = post /\ a.post.log = log
    /\ a.post.completed # None /\ Len(obs) = 2
    /\ \A n \in 1 .. 2, k \in Evidence :
        obs[n].seen[k] # None /\ obs[n].begin <= obs[n].seen[k]
    /\ Expiry <= obs[1].begin /\ obs[1].end < obs[2].begin
    /\ obs[2].begin >= obs[1].begin + Gap

ExecutedReconciles == attestation # None /\ ByTheBook(attestation) => Reconciled

=============================================================================
