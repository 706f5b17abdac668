---------------------------- MODULE SecuritySurface ----------------------------
(***************************************************************************)
(* The read-only security surface                                          *)
(* (src/lib/read-only-security-surface.py, src/bin/wapp-read-only-security- *)
(* surface): a signed native inventory of a site's tree and a signed set of *)
(* provenance records are derived into one surface, which is verified again *)
(* by deriving it once more.                                               *)
(*                                                                         *)
(* The inventory is what the native helper prints of a tree that stood      *)
(* still (src/native/displaced-inventory-helper.c).  Captures and           *)
(* provenance are issued elsewhere, at any time and with any dates.         *)
(***************************************************************************)
EXTENDS Naturals, FiniteSets

CONSTANTS
    Paths,        \* relative paths of the tree
    Uploads,      \* those below a component named uploads
    Suffixed,     \* those with an executable suffix
    Contents,     \* SHA-256 of files
    Malicious,    \* those of the ruleset
    Kinds,        \* what a path may hold beside a file: "absent", "directory", "other"
    Windows,      \* dates of the source evidence of a record: [observed, expires]
    Oddities,     \* how an object may be: "plain", "ancient", a file "hardlink", "unhashed"
    NoFile,       \* an artifact that does not exist
    Skew,         \* the 60 seconds of clock difference allowed
    IssueWindow,  \* the 10 minutes a surface may lie back
    MaxLifetime,  \* the 30 minutes of a capture
    MaxTime,      \* clock
    MaxRelease,   \* upgrades of the Public Core
    MaxIssues,    \* captures issued, and provenance sets issued
    Recaptured,   \* trees found by captures after the first
    Reattested    \* records of provenance sets after the first

ASSUME PathsAssumption == Uploads \subseteq Paths /\ Suffixed \subseteq Paths
ASSUME ContentsAssumption == Malicious \subseteq Contents
ASSUME ObjectsAssumption ==
    /\ Kinds \subseteq {"absent", "directory", "other"}
    /\ Oddities \subseteq {"plain", "hardlink", "unhashed", "ancient"}
ASSUME SurfaceBoundsAssumption ==
    /\ Skew \in Nat /\ IssueWindow \in Nat /\ MaxLifetime \in Nat
    /\ MaxTime \in Nat /\ MaxRelease \in Nat /\ MaxIssues \in Nat

Times == 0 .. MaxTime
ASSUME WindowsAssumption == Windows \subseteq [observed: Times, expires: Times]

\* A file is executable by its mode (x) or by its suffix.  Its oddity is what
\* the inventory says beside its content: more links than one, no hash
\* because of a byte cap, a time before 1970, which any object may have.
Objects == [kind: Kinds \cap {"absent"}] \cup
           [kind: Kinds \ {"absent"}, odd: Oddities \cap {"plain", "ancient"}] \cup
           [kind: {"regular"}, content: Contents, x: BOOLEAN, odd: Oddities]
Trees == [Paths -> Objects]

\* Provenance names a content for some paths, by source evidence of its own dates.
Records == UNION {[R -> Contents] : R \in SUBSET Paths}
Evidence == UNION {[R -> Windows] : R \in SUBSET Paths}

ASSUME IssuesAssumption == Recaptured \subseteq Trees /\ Reattested \subseteq Records

Verdicts == {"NONE", "CAPTURE_VERIFIED", "CAPTURE_REFUSED", "VERIFIED", "REFUSED"}
States == {"COMPLETE_NO_ACTION", "COMPLETE_ACTION_REQUIRED", "UNRESOLVED_NON_CLEAN"}

\* The artifacts; NoFile is none of them.
Captures == [serial: 1 .. MaxIssues, tree: Trees, release: 0 .. MaxRelease,
             observed: Times, expires: Times]
Provenances ==
    {p \in [serial: 1 .. MaxIssues, capture: 1 .. MaxIssues, complete: BOOLEAN,
            records: Records, sources: Evidence, generated: Times, expires: Times] :
         DOMAIN p.sources = DOMAIN p.records}
Surfaces == [capture: 1 .. MaxIssues, prov: 1 .. MaxIssues, release: 0 .. MaxRelease,
             generated: Times, expires: Times, state: States]

ASSUME NoFileAssumption == NoFile \notin Captures \cup Provenances \cup Surfaces

VARIABLES
    now,      \* the clock of the machine the commands run on
    release,  \* its commit and version
    capture,  \* the capture under its path; serial stands for its bytes
    prov,     \* the provenance set under its path; complete: it commits to the regular
              \* files of the capture
    surface,  \* the surface created
    verdict   \* what the command that ended last said

vars == <<now, release, capture, prov, surface, verdict>>

Init ==
    /\ now = 0 /\ release = 0
    /\ capture = NoFile /\ prov = NoFile /\ surface = NoFile
    /\ verdict = "NONE"

-----------------------------------------------------------------------------
(* The inventory: rows of the helper, and the parser that reads them.      *)

Entries(tree) == {p \in Paths : tree[p].kind # "absent"}
Regulars(tree) == {p \in Paths : tree[p].kind = "regular"}
Hashed(tree) == {p \in Regulars(tree) : tree[p].odd # "unhashed"}

\* Paths with an UNRESOLVED row.
Issues(tree) ==
    {p \in Entries(tree) : \/ tree[p].kind = "other"
                           \/ p \in Regulars(tree) /\ tree[p].odd \in {"hardlink", "unhashed"}}

\* What the parser asks beside the framing: times are
\* unsigned, an object without a hash, with several links or of another
\* type must have an issue.
ParseInventory(tree) ==
    /\ \A p \in Entries(tree) : tree[p].odd # "ancient"
    /\ Regulars(tree) \ Hashed(tree) \subseteq Issues(tree)
    /\ {p \in Regulars(tree) : tree[p].odd = "hardlink"} \subseteq Issues(tree)
    /\ {p \in Entries(tree) : tree[p].kind = "other"} \subseteq Issues(tree)

CoverageComplete(tree) == Issues(tree) = {}

\* capture_verify with require_current.
CaptureVerify ==
    /\ capture # NoFile
    /\ capture.release = release
    /\ ParseInventory(capture.tree)
    /\ capture.observed < capture.expires
    /\ capture.expires <= capture.observed + MaxLifetime
    /\ capture.observed <= now + Skew
    /\ now <= capture.expires

\* provenance: bound to the capture's bytes and its regular files, within its
\* validity, and the evidence of every record as well.
Provenance ==
    /\ prov # NoFile
    /\ prov.capture = capture.serial
    /\ prov.complete
    /\ prov.generated \in capture.observed .. capture.expires
    /\ prov.generated < prov.expires
    /\ prov.expires <= capture.expires
    /\ \A p \in DOMAIN prov.records :
        /\ capture.observed <= prov.sources[p].observed
        /\ prov.sources[p].observed < prov.sources[p].expires
        /\ prov.sources[p].expires <= capture.expires

-----------------------------------------------------------------------------
(* classify and surface_derive.                                            *)

Executable(p, file) == file.x \/ p \in Suffixed

\* Wrong on purpose, to test CleanMeansAccountedFor: a record vouches for its path
\* and not for a content.
ClassifyByPath(p, file, records) ==
    IF file.content \in Malicious \/ (Executable(p, file) /\ p \in Uploads)
    THEN "ACTION_REQUIRED"
    ELSE IF p \in DOMAIN records THEN "PASS" ELSE "UNRESOLVED"

\* What is said of a file with a hash.
Classify(p, file, records) ==
    IF file.content \in Malicious \/ (Executable(p, file) /\ p \in Uploads)
    THEN "ACTION_REQUIRED"
    ELSE IF p \in DOMAIN records /\ records[p] = file.content THEN "PASS" ELSE "UNRESOLVED"

\* The objects of a surface: files with a hash, and records without an entry.
Missing(tree, records) == DOMAIN records \ Entries(tree)
Evaluated(tree, records, result) ==
    {p \in Hashed(tree) : Classify(p, tree[p], records) = result}
        \cup (IF result = "UNRESOLVED" THEN Missing(tree, records) ELSE {})

SurfaceState(tree, records) ==
    IF ~CoverageComplete(tree) \/ Evaluated(tree, records, "UNRESOLVED") # {}
    THEN "UNRESOLVED_NON_CLEAN"
    ELSE IF Evaluated(tree, records, "ACTION_REQUIRED") = {}
         THEN "COMPLETE_NO_ACTION"
         ELSE "COMPLETE_ACTION_REQUIRED"

\* surface_derive for the time g given on the command line or read from the
\* surface.
Derivable(g) ==
    /\ CaptureVerify
    /\ now <= g + IssueWindow /\ g <= now + Skew
    /\ g \in capture.observed .. capture.expires
    /\ Provenance
    /\ g <= prov.expires

SurfaceDerive(g) ==
    [capture   |-> capture.serial,
     prov      |-> prov.serial,
     release   |-> release,
     generated |-> g,
     expires   |-> IF capture.expires < prov.expires THEN capture.expires ELSE prov.expires,
     state     |-> SurfaceState(capture.tree, prov.records)]

\* Wrong on purpose, to test VerdictsAreRight: the derivation stands for the
\* surface's own expiry.
SurfaceVerifyUnexpired ==
    /\ surface.release = release
    /\ surface.capture = capture.serial
    /\ surface.prov = prov.serial
    /\ Derivable(surface.generated)
    /\ SurfaceDerive(surface.generated) = surface

\* Wrong on purpose, to test RefusalIsFinal: the artifacts are those now under the
\* paths, whatever bytes were bound.
SurfaceVerifyByPath ==
    /\ surface.release = release
    /\ Derivable(surface.generated)
    /\ SurfaceDerive(surface.generated).state = surface.state
    /\ now <= surface.expires

\* surface_verify: the artifacts referred to have their bytes, and the
\* derivation repeated gives the surface.
SurfaceVerify ==
    /\ surface.release = release
    /\ surface.capture = capture.serial
    /\ surface.prov = prov.serial
    /\ Derivable(surface.generated)
    /\ SurfaceDerive(surface.generated) = surface
    /\ now <= surface.expires

-----------------------------------------------------------------------------
(* The commands.                                                           *)

CaptureVerifyCommand ==
    /\ capture # NoFile
    /\ verdict' = IF CaptureVerify THEN "CAPTURE_VERIFIED" ELSE "CAPTURE_REFUSED"
    /\ UNCHANGED <<now, release, capture, prov, surface>>

\* The output is created once.
Create(g) ==
    /\ surface = NoFile
    /\ Derivable(g)
    /\ surface' = SurfaceDerive(g)
    /\ verdict' = "NONE"
    /\ UNCHANGED <<now, release, capture, prov>>

Verify ==
    /\ surface # NoFile
    /\ verdict' = IF SurfaceVerify THEN "VERIFIED" ELSE "REFUSED"
    /\ UNCHANGED <<now, release, capture, prov, surface>>

-----------------------------------------------------------------------------
(* Around the commands.                                                    *)

Serial(file) == IF file = NoFile THEN 0 ELSE file.serial

\* The Private producer captures a tree; its clock may run ahead.
Mint(tree, observed, expires) ==
    /\ Serial(capture) < MaxIssues
    /\ observed <= now + Skew
    /\ capture' = [serial |-> Serial(capture) + 1, tree |-> tree, release |-> release,
                   observed |-> observed, expires |-> expires]
    /\ verdict' = "NONE"
    /\ UNCHANGED <<now, release, prov, surface>>

Attest(records, sources, complete, generated, expires) ==
    /\ capture # NoFile
    /\ Serial(prov) < MaxIssues
    /\ prov' = [serial |-> Serial(prov) + 1, capture |-> capture.serial, complete |-> complete,
                records |-> records, sources |-> sources,
                generated |-> generated, expires |-> expires]
    /\ verdict' = "NONE"
    /\ UNCHANGED <<now, release, capture, surface>>

Upgrade ==
    /\ release < MaxRelease
    /\ release' = release + 1 /\ verdict' = "NONE"
    /\ UNCHANGED <<now, capture, prov, surface>>

Tick ==
    /\ now < MaxTime
    /\ now' = now + 1 /\ verdict' = "NONE"
    /\ UNCHANGED <<release, capture, prov, surface>>

Next ==
    \/ CaptureVerifyCommand
    \/ \E g \in Times : Create(g)
    \/ Verify
    \/ \E tree \in IF capture = NoFile THEN Trees ELSE Recaptured, observed, expires \in Times :
           Mint(tree, observed, expires)
    \/ \E records \in IF prov = NoFile THEN Records ELSE Reattested :
           \E sources \in [DOMAIN records -> Windows], complete \in BOOLEAN,
              generated, expires \in Times :
               Attest(records, sources, complete, generated, expires)
    \/ Upgrade
    \/ Tick

Spec == Init /\ [][Next]_vars

-----------------------------------------------------------------------------
(* What should hold.                                                       *)

\* The types of the variables.
TypeOK ==
    /\ now \in Times /\ release \in 0 .. MaxRelease
    /\ capture \in Captures \cup {NoFile}
    /\ prov \in Provenances \cup {NoFile}
    /\ surface \in Surfaces \cup {NoFile}
    /\ verdict \in Verdicts

Clean == verdict = "VERIFIED" /\ surface.state = "COMPLETE_NO_ACTION"

\* A surface that verifies as COMPLETE_NO_ACTION leaves nothing of the captured
\* tree out: every object is a directory or a file with a hash, one link, a
\* record of exactly its content, no content of the ruleset, and if it is
\* executable it is not an upload; and no record is of a path without an entry
\* (classify, surface_derive, parse_inventory).
CleanMeansAccountedFor ==
    Clean =>
        /\ \A p \in Entries(capture.tree) :
            LET o == capture.tree[p] IN
            \/ o.kind = "directory"
            \/ /\ o.kind = "regular" /\ o.odd = "plain"
               /\ p \in DOMAIN prov.records /\ prov.records[p] = o.content
               /\ o.content \notin Malicious
               /\ ~(p \in Uploads /\ Executable(p, o))
        /\ DOMAIN prov.records \subseteq Entries(capture.tree)

\* The capture under its path is of this release and between its dates, which lie at
\* most a capture's lifetime apart; it was not taken in the future.
CaptureIsCurrent ==
    /\ capture.release = release
    /\ capture.observed - Skew <= now /\ now <= capture.expires
    /\ now <= capture.observed + MaxLifetime

\* What verifies is current: its capture is, its provenance is about this capture and
\* has not expired, the evidence of every record was observed and expires within the
\* capture's validity, and the surface was generated after the capture, within the
\* issue window (the checks of four functions on dates of four artifacts).  That the
\* evidence itself has not expired by now is not said, for it is not compared.
VerifiedIsCurrent ==
    /\ verdict = "CAPTURE_VERIFIED" => CaptureIsCurrent
    /\ verdict = "VERIFIED" =>
        /\ CaptureIsCurrent /\ surface.release = release
        /\ prov.capture = capture.serial /\ prov.complete
        /\ now <= prov.expires
        /\ \A p \in DOMAIN prov.records :
            /\ prov.sources[p].observed >= capture.observed
            /\ prov.sources[p].expires <= capture.observed + MaxLifetime
        /\ surface.generated \in capture.observed .. prov.expires
        /\ now <= surface.generated + IssueWindow

\* A surface that was created verifies as long as it has not expired, lies within
\* the issue window, and neither release nor artifacts have changed.
VerifiesWhileFresh ==
    verdict = "REFUSED" =>
        \/ release # surface.release
        \/ <<capture.serial, prov.serial>> # <<surface.capture, surface.prov>>
        \/ now > surface.expires
        \/ now > surface.generated + IssueWindow

\* Once a surface would be refused it is refused for ever: neither time nor an
\* artifact issued later under the same path revives it.
RefusalIsFinal ==
    [][surface # NoFile /\ ~SurfaceVerify => ~SurfaceVerify']_vars

\* The parser reads every inventory the helper prints but one with a time before
\* 1970: a current capture of this release, of a proper lifetime, is verified.
InventoryIsReadable ==
    verdict = "CAPTURE_REFUSED" =>
        \/ capture.release # release
        \/ capture.expires \notin capture.observed + 1 .. capture.observed + MaxLifetime
        \/ now \notin capture.observed - Skew .. capture.expires
        \/ \E p \in Entries(capture.tree) : capture.tree[p].odd = "ancient"

\* The verdicts of both commands are right, either way: CAPTURE_VERIFIED and VERIFIED
\* only for a capture and a provenance set that are current, CAPTURE_REFUSED and
\* REFUSED only for a reason that can be named.
VerdictsAreRight == VerifiedIsCurrent /\ VerifiesWhileFresh /\ InventoryIsReadable

=============================================================================
