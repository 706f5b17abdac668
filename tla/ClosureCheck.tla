----------------------------- MODULE ClosureCheck -----------------------------
(***************************************************************************)
(* The closure of an incident (verify_closure of src/lib/                  *)
(* emergency-operator-v1.py and src/bin/wapp-closure-check): documents that *)
(* say what was seen of a site, when and for which operation, are bound by  *)
(* a closure record, and the command decides whether they make the incident *)
(* clean.  Authors are truthful: a document holds what the site was when it *)
(* was written.  They may be late, mix operations and have a clock that is  *)
(* ahead.  Every binding is by hash, so writing a document anew makes what  *)
(* bound it unusable for good; the model drops it.                          *)
(***************************************************************************)
EXTENDS Naturals

CONSTANTS
    Operations,    \* remediations of the site
    Formats,       \* how reopenings are packaged and run
    Classes,       \* how remediations are evidenced
    Expiry,        \* when the packages of remediations expire
    ReopenExpiry,  \* when those of reopenings do
    MaxTime,       \* bound of the clock
    MaxChanges,    \* what happens to the site by itself, and upgrades
    MaxSkew,       \* how far the host's clock may be ahead
    None           \* no document, no event

ASSUME ClosureAssumption ==
    /\ Formats \subseteq {"command", "private", "unmarked"}
    /\ Classes \subseteq {"signed", "legacy"}
    /\ Expiry \in Nat /\ ReopenExpiry \in Nat
    /\ MaxTime \in Nat /\ MaxSkew \in Nat /\ MaxChanges \in Nat

Times == 0 .. MaxTime

\* What a scan would find: nothing, the incident again, or something else that
\* blocks (a critical finding, a gap of coverage, unknown persistence).
Finding == {"none", "recurrence", "other"}

VARIABLES
    now, skew,     \* the operator's clock and how far the host's is ahead
    site,          \* isolated, finding, root (inode of the document root)
    runtime,       \* the Product that runs the command
    changes,       \* spent of MaxChanges
    remediated,    \* operation -> when, how evidenced, on which root, by which Product
    reopened,      \* operation -> when and in which format
    docs,          \* kind -> the document of that kind
    lineage,       \* the historical lineage that binds two of them
    record,        \* the closure record that binds it and the others
    signed,        \* the record is signed and the registry binds its bytes
    pc             \* of the command

events == <<site, runtime, changes, remediated, reopened>>
papers == <<docs, lineage, record, signed>>
vars == <<now, skew, events, papers, pc>>

Kinds == {"poststate", "postopen", "identity", "evidence"}

Init ==
    /\ now = 0 /\ skew \in 0 .. MaxSkew
    /\ site = [isolated |-> FALSE, finding |-> "recurrence", root |-> 1]
    /\ runtime = 1 /\ changes = 0
    /\ remediated = [op \in Operations |-> None]
    /\ reopened = [op \in Operations |-> None]
    /\ docs = [k \in Kinds |-> None]
    /\ lineage = None /\ record = None /\ signed = FALSE
    /\ pc = "idle"

-----------------------------------------------------------------------------
(* verify_closure.                                                         *)

Within(date, low, high) == low <= date /\ date <= high

\* Collectors on the host date what they see with the host's clock.
Date(k) == docs[k].time + skew

\* A document of this kind, of the operation, is there.
About(k, op) == docs[k] # None /\ docs[k].op = op

\* verify_historical_execution_audit: an audit that begins no sooner than low.
Audited(at, low) == Within(at, low, lineage.date)

\* verify_historical_remediation_poststate.
PoststateSeen(op, low) ==
    /\ About("poststate", op)
    /\ docs["poststate"].root = remediated[op].root
    /\ docs["poststate"].finding # "recurrence"
    /\ Within(Date("poststate"), low, lineage.date)

\* verify_historical_post_open.
PostOpenSeen(op, low) ==
    /\ About("postopen", op)
    /\ docs["postopen"].root = remediated[op].root
    /\ ~docs["postopen"].isolated /\ docs["postopen"].finding # "recurrence"
    /\ Within(Date("postopen"), low, lineage.date)

\* The remediation of a lineage: its audit and poststate or, when the audit was
\* never signed, the reconciliation of both.
RemediationVerified(op) ==
    LET done == remediated[op] IN
    /\ done # None
    /\ \/ done.class = "signed" /\ Audited(done.at, 0) /\ PoststateSeen(op, done.at)
       \/ done.class = "legacy" /\ done.at < Expiry /\ PoststateSeen(op, Expiry)

\* The reopening: its package, consumption, audit and what was seen after it.
\* The fields asked for are those of a private reopen package; a package that
\* emergency-clean accepts has none of them.
ReopenVerified(op) ==
    LET back == reopened[op] IN
    /\ back # None /\ back.format = "private"
    /\ Audited(back.at, Date("poststate"))
    /\ PostOpenSeen(op, back.at)

HistoricalLineage(r) ==
    /\ lineage # None
    /\ lineage.op = r.op /\ lineage.date <= r.generated
    /\ RemediationVerified(r.op)
    /\ ReopenVerified(r.op)

\* Wrong on purpose, to test LineageInOrder: an identity of any age.
SiteIdentityOfAnyAge(r) ==
    /\ About("identity", r.op)
    /\ docs["identity"].product = r.product
    /\ docs["identity"].root = remediated[r.op].root
    /\ Date("identity") <= r.generated

\* verify_current_site_identity.
SiteIdentity(r) ==
    /\ About("identity", r.op)
    /\ docs["identity"].product = r.product
    /\ docs["identity"].root = remediated[r.op].root
    /\ Within(Date("identity"), Date("postopen"), r.generated)

\* Schema 1: the reopen package is verified as one that is in date and has not
\* been consumed, and its postcheck names both operations.
ReopenAndPostcheck(r) ==
    /\ remediated[r.op] # None /\ r.product = remediated[r.op].product
    /\ r.generated < ReopenExpiry
    /\ reopened[r.op] # None => reopened[r.op].format = "unmarked"
    /\ About("postopen", r.op)
    /\ Date("postopen") <= r.generated

Bound(r) ==
    IF r.schema = 2 THEN HistoricalLineage(r) /\ SiteIdentity(r)
    ELSE ReopenAndPostcheck(r)

\* From when on evidence counts, and what the lineage says of recurrence.
Earliest(r) == IF r.schema = 2 THEN Date("identity") ELSE Date("postopen")

Recurred(r) == r.schema = 1 /\ docs["postopen"].finding = "recurrence"

\* Wrong on purpose, to test CleanWasSeen: evidence of any age.
EvidenceVerifiedOfAnyAge(r) ==
    /\ About("evidence", r.op)
    /\ docs["evidence"].product = r.product
    /\ Date("evidence") <= r.generated
    /\ (docs["evidence"].finding = "recurrence") = Recurred(r)

\* Wrong on purpose, to test CompleteRecordCloses: evidence of the same second
\* as the record is refused.
EvidenceVerifiedEarlier(r) ==
    /\ About("evidence", r.op)
    /\ docs["evidence"].product = r.product
    /\ Within(Date("evidence") + 1, Earliest(r) + 1, r.generated)
    /\ (docs["evidence"].finding = "recurrence") = Recurred(r)

\* derive_closure_checks and the comparison with the lineage.
EvidenceVerified(r) ==
    /\ About("evidence", r.op)
    /\ docs["evidence"].product = r.product
    /\ Within(Date("evidence"), Earliest(r), r.generated)
    /\ (docs["evidence"].finding = "recurrence") = Recurred(r)

Admissible(r) ==
    /\ r.generated <= now
    /\ r.product = runtime
    /\ Bound(r)
    /\ EvidenceVerified(r)

Blocked(r) ==
    \/ now >= r.freshUntil
    \/ r.schema = 1 /\ docs["postopen"].isolated
    \/ docs["evidence"].finding # "none"

\* CLEAN stands for the three clean statuses.
VerifyClosure(r) ==
    IF ~Admissible(r) THEN "REFUSED"
    ELSE IF Blocked(r) THEN "STILL_INCOMPLETE" ELSE "CLEAN"

-----------------------------------------------------------------------------
(* bin/wapp-closure-check.                                                 *)

\* The registry's signature and binding, the record's signature, the first
\* verification and the signatures of what it depends on.
FirstVerify ==
    /\ pc = "idle" /\ signed
    /\ VerifyClosure(record) # "REFUSED"
    /\ pc' = "verified"
    /\ UNCHANGED <<now, skew, events, papers>>

\* The second verification reads the record's path again; its verdict is what
\* the command reports.
SecondVerify ==
    /\ pc = "verified" /\ pc' = "idle"
    /\ UNCHANGED <<now, skew, events, papers>>

Verdict == IF record = None THEN "REFUSED" ELSE VerifyClosure(record)

-----------------------------------------------------------------------------
(* The operations and the site.                                            *)

\* A remediation isolates the site and removes the incident.
Remediate(op, class) ==
    /\ remediated[op] = None /\ ~site.isolated
    /\ now < Expiry
    /\ remediated' = [remediated EXCEPT ![op] =
        [at |-> now, class |-> class, root |-> site.root, product |-> runtime]]
    /\ site' = [site EXCEPT !.isolated = TRUE, !.finding = "none"]
    /\ UNCHANGED <<runtime, changes, reopened>>

\* The marker of the reopen package is there unless it was run unmarked.
Reopen(op, format) ==
    /\ remediated[op] # None /\ reopened[op] = None /\ site.isolated
    /\ reopened' = [reopened EXCEPT ![op] = [at |-> now, format |-> format]]
    /\ site' = [site EXCEPT !.isolated = FALSE]
    /\ UNCHANGED <<runtime, changes, remediated>>

\* The incident comes back, something else turns up, or the document root is
\* replaced by another one under the same path.
SiteChanges ==
    /\ changes < MaxChanges /\ changes' = changes + 1
    /\ \/ site.finding = "none" /\ \E f \in Finding : site' = [site EXCEPT !.finding = f]
       \/ site.root = 1 /\ site' = [site EXCEPT !.root = 2]
    /\ UNCHANGED <<runtime, remediated, reopened>>

Upgrade ==
    /\ changes < MaxChanges /\ changes' = changes + 1
    /\ runtime = 1 /\ runtime' = 2
    /\ UNCHANGED <<site, remediated, reopened>>

Events ==
    /\ \/ \E op \in Operations :
            \/ \E c \in Classes : Remediate(op, c)
            \/ \E f \in Formats : Reopen(op, f)
       \/ SiteChanges \/ Upgrade
    /\ UNCHANGED <<now, skew, papers, pc>>

Tick ==
    /\ now < MaxTime /\ now' = now + 1
    /\ UNCHANGED <<skew, events, papers, pc>>

-----------------------------------------------------------------------------
(* The authors.                                                            *)

\* What a document of each kind says of the site, and, for the properties,
\* when it was really written.
Says(k, op) ==
    CASE k = "poststate" ->
            [op |-> op, time |-> now, root |-> site.root, finding |-> site.finding]
      [] k = "postopen" ->
            [op |-> op, time |-> now, root |-> site.root, finding |-> site.finding,
             isolated |-> site.isolated]
      [] k = "identity" ->
            [op |-> op, time |-> now, root |-> site.root, product |-> runtime]
      [] k = "evidence" ->
            [op |-> op, time |-> now, finding |-> site.finding, product |-> runtime]

Observe(k, op) ==
    /\ k = "poststate" => remediated[op] # None /\ site.isolated
    /\ k = "postopen" => reopened[op] # None
    /\ docs' = [docs EXCEPT ![k] = Says(k, op)]
    /\ lineage' = IF k \in {"poststate", "postopen"} THEN None ELSE lineage
    /\ record' = None /\ signed' = FALSE

WriteLineage(op) ==
    /\ lineage' = [op |-> op, date |-> now]
    /\ record' = None /\ signed' = FALSE
    /\ UNCHANGED docs

\* The record is written and then signed, in two steps.
WriteRecord(op, schema, until) ==
    /\ record' = [schema |-> schema, op |-> op, product |-> runtime,
                  generated |-> now, freshUntil |-> until]
    /\ signed' = FALSE
    /\ UNCHANGED <<docs, lineage>>

SignRecord == record # None /\ signed' = TRUE /\ UNCHANGED <<docs, lineage, record>>

Authors ==
    /\ \/ \E op \in Operations :
            \/ \E k \in Kinds : Observe(k, op)
            \/ WriteLineage(op)
            \/ \E schema \in {1, 2}, until \in now + 1 .. MaxTime + 1 :
                WriteRecord(op, schema, until)
       \/ SignRecord
    /\ UNCHANGED <<now, skew, events, pc>>

Next == FirstVerify \/ SecondVerify \/ Events \/ Tick \/ Authors

Spec == Init /\ [][Next]_vars

-----------------------------------------------------------------------------
(* Properties.                                                             *)

TypeOK ==
    /\ now \in Times /\ skew \in 0 .. MaxSkew
    /\ site \in [isolated : BOOLEAN, finding : Finding, root : {1, 2}]
    /\ changes \in 0 .. MaxChanges
    /\ runtime \in {1, 2} /\ signed \in BOOLEAN
    /\ pc \in {"idle", "verified"}
    /\ signed => record # None
    /\ Verdict \in {"CLEAN", "STILL_INCOMPLETE", "REFUSED"}

\* A clean verdict was once true: after the reopening of this very operation,
\* with the Product that now reports it, someone saw nothing that blocks, and
\* the record is in date.  Only the dates of the documents carry this.
CleanWasSeen ==
    Verdict = "CLEAN" =>
        LET done == remediated[record.op]  back == reopened[record.op]
            seen == docs["evidence"]
        IN  /\ done # None /\ back # None
            /\ done.at <= back.at /\ back.at <= seen.time
            /\ seen.finding = "none" /\ seen.product = runtime
            /\ now < record.freshUntil

\* A clean verdict on an executed lineage has the whole history behind it, in
\* this order and on one document root: remediated, seen isolated, reopened,
\* seen open, the serving root identified.
LineageInOrder ==
    Verdict = "CLEAN" /\ record.schema = 2 =>
        LET done == remediated[record.op]  back == reopened[record.op]
            T(k) == docs[k].time
        IN  /\ done.at <= T("poststate") /\ T("poststate") <= back.at
            /\ back.at <= T("postopen") /\ ~docs["postopen"].isolated
            /\ T("postopen") <= T("identity")
            /\ \A k \in {"poststate", "postopen", "identity"} :
                docs[k].root = done.root

\* An operation done and documented by the book: every document of it, written
\* in order, on one root, of a clean site, and nothing out of date.
BoundKinds(r) == IF r.schema = 2 THEN Kinds ELSE {"postopen", "evidence"}

ByTheBook(r) ==
    LET done == remediated[r.op]  back == reopened[r.op]
        T(k) == docs[k].time
    IN  /\ done # None /\ back # None
        /\ \A k \in BoundKinds(r) : About(k, r.op)
        /\ \A k \in BoundKinds(r) \ {"identity"} : docs[k].finding = "none"
        /\ \A k \in BoundKinds(r) \ {"evidence"} : docs[k].root = done.root
        /\ \A k \in BoundKinds(r) \cap {"identity", "evidence"} :
            docs[k].product = runtime
        /\ ~docs["postopen"].isolated /\ T("postopen") <= T("evidence")
        /\ r.schema = 2 =>
            /\ lineage # None /\ lineage.op = r.op
            /\ T("poststate") <= back.at
            /\ done.class = "legacy" => T("poststate") >= Expiry
            /\ T("postopen") <= T("identity") /\ T("identity") <= T("evidence")
        /\ r.product = runtime /\ done.product = runtime
        /\ now < r.freshUntil /\ now < ReopenExpiry
        /\ skew = 0

\* What was done and documented by the book is reported clean, up to the last
\* second of the record, for a reopening of the format its schema reads.
CompleteRecordCloses ==
    record # None /\ ByTheBook(record) =>
        \/ Verdict = "CLEAN"
        \/ reopened[record.op].format #
            IF record.schema = 2 THEN "private" ELSE "unmarked"

=============================================================================
