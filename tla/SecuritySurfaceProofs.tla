------------------------- MODULE SecuritySurfaceProofs -------------------------
(***************************************************************************)
(* Proofs about the read-only security surface, for every tree, ruleset and *)
(* set of provenance, any dates, and any number of captures and releases.  *)
(***************************************************************************)
EXTENDS SecuritySurface, TLAPS

-----------------------------------------------------------------------------
(* What the steps do.                                                      *)

\* A command answers, or a surface is created; around them an artifact is issued
\* anew under a serial of its own, the release goes up, or time passes.
Answers ==
    /\ UNCHANGED <<now, release, capture, prov, surface>>
    /\ \/ capture # NoFile /\ verdict' = IF CaptureVerify THEN "CAPTURE_VERIFIED" ELSE "CAPTURE_REFUSED"
       \/ surface # NoFile /\ verdict' = IF SurfaceVerify THEN "VERIFIED" ELSE "REFUSED"

Creates ==
    \E g \in Times :
        /\ surface = NoFile /\ Derivable(g) /\ surface' = SurfaceDerive(g)
        /\ verdict' = "NONE" /\ UNCHANGED <<now, release, capture, prov>>

Captured ==
    /\ capture' \in Captures /\ capture' # NoFile
    /\ capture'.serial = Serial(capture) + 1
    /\ capture'.release = release /\ capture'.observed <= now + Skew
    /\ verdict' = "NONE" /\ UNCHANGED <<now, release, prov, surface>>

Attested ==
    /\ capture # NoFile
    /\ prov' \in Provenances /\ prov' # NoFile
    /\ prov'.serial = Serial(prov) + 1
    /\ verdict' = "NONE" /\ UNCHANGED <<now, release, capture, surface>>

\* What the types say of the numbers.
LEMMA NumbersTyped ==
    ASSUME TypeOK
    PROVE  /\ now \in Nat /\ release \in Nat /\ Skew \in Nat /\ IssueWindow \in Nat /\ MaxLifetime \in Nat
           /\ capture # NoFile =>
                /\ capture \in Captures /\ capture.serial \in Nat /\ capture.release \in Nat
                /\ capture.observed \in Nat /\ capture.expires \in Nat /\ capture.tree \in Trees
           /\ prov # NoFile =>
                /\ prov \in Provenances /\ prov.serial \in Nat /\ prov.capture \in Nat
                /\ prov.generated \in Nat /\ prov.expires \in Nat
           /\ surface # NoFile =>
                /\ surface \in Surfaces /\ surface.capture \in Nat /\ surface.prov \in Nat
                /\ surface.release \in Nat /\ surface.generated \in Nat /\ surface.expires \in Nat
  BY SurfaceBoundsAssumption DEF TypeOK, Captures, Provenances, Surfaces, Times

LEMMA SerialTyped ==
    ASSUME TypeOK
    PROVE  Serial(capture) \in 0 .. MaxIssues /\ Serial(prov) \in 0 .. MaxIssues
  <1>1. 0 \in 0 .. MaxIssues
    BY SurfaceBoundsAssumption
  <1>2. capture # NoFile => capture.serial \in 1 .. MaxIssues
    BY DEF TypeOK, Captures
  <1>3. prov # NoFile => prov.serial \in 1 .. MaxIssues
    BY DEF TypeOK, Provenances
  <1>4. 1 .. MaxIssues \subseteq 0 .. MaxIssues
    BY SurfaceBoundsAssumption
  <1> QED
    BY <1>1, <1>2, <1>3, <1>4 DEF Serial

LEMMA MintStep ==
    ASSUME TypeOK, NEW tree \in Trees, NEW observed \in Times, NEW expires \in Times,
           Mint(tree, observed, expires)
    PROVE  Captured
  <1>1. /\ Serial(capture) < MaxIssues /\ observed <= now + Skew
        /\ capture' = [serial |-> Serial(capture) + 1, tree |-> tree, release |-> release,
                       observed |-> observed, expires |-> expires]
        /\ verdict' = "NONE" /\ UNCHANGED <<now, release, prov, surface>>
    BY DEF Mint
  <1>2. Serial(capture) + 1 \in 1 .. MaxIssues
    BY <1>1, SerialTyped, SurfaceBoundsAssumption
  <1>3. capture' \in Captures
    BY <1>1, <1>2 DEF TypeOK, Captures
  <1>4. capture' # NoFile
    BY <1>3, NoFileAssumption
  <1> QED
    BY <1>1, <1>3, <1>4 DEF Captured

LEMMA AttestStep ==
    ASSUME TypeOK, NEW records \in Records, NEW sources \in [DOMAIN records -> Windows],
           NEW complete \in BOOLEAN, NEW generated \in Times, NEW expires \in Times,
           Attest(records, sources, complete, generated, expires)
    PROVE  Attested
  <1>1. /\ capture # NoFile /\ Serial(prov) < MaxIssues
        /\ prov' = [serial |-> Serial(prov) + 1, capture |-> capture.serial, complete |-> complete,
                    records |-> records, sources |-> sources, generated |-> generated, expires |-> expires]
        /\ verdict' = "NONE" /\ UNCHANGED <<now, release, capture, surface>>
    BY DEF Attest
  <1>2. Serial(prov) + 1 \in 1 .. MaxIssues
    BY <1>1, SerialTyped, SurfaceBoundsAssumption
  <1>3. capture.serial \in 1 .. MaxIssues
    <2>1. capture \in Captures
      BY <1>1, NumbersTyped
    <2> QED
      BY <2>1 DEF Captures
  <1>6. sources \in Evidence /\ DOMAIN sources = DOMAIN records
    <2>1. PICK R \in SUBSET Paths : records \in [R -> Contents]
      BY DEF Records
    <2>2. sources \in [R -> Windows] /\ DOMAIN records = R
      BY <2>1
    <2> QED
      BY <2>1, <2>2 DEF Evidence
  <1>4. prov' \in Provenances
    BY <1>1, <1>2, <1>3, <1>6 DEF Provenances
  <1>5. prov' # NoFile
    BY <1>4, NoFileAssumption
  <1> QED
    BY <1>1, <1>4, <1>5 DEF Attested

\* Every step is one of these.
LEMMA StepKinds ==
    ASSUME TypeOK, [Next]_vars
    PROVE  Answers \/ Creates \/ Captured \/ Attested \/ Upgrade \/ Tick \/ UNCHANGED vars
  <1>1. CASE CaptureVerifyCommand
    BY <1>1 DEF CaptureVerifyCommand, Answers
  <1>2. CASE Verify
    BY <1>2 DEF Verify, Answers
  <1>3. ASSUME NEW g \in Times, Create(g)
        PROVE  Creates
    BY <1>3 DEF Create, Creates
  <1>4. ASSUME NEW tree \in IF capture = NoFile THEN Trees ELSE Recaptured,
               NEW observed \in Times, NEW expires \in Times, Mint(tree, observed, expires)
        PROVE  Captured
    <2>1. tree \in Trees
      BY <1>4, IssuesAssumption
    <2> QED
      BY <1>4, <2>1, MintStep
  <1>5. ASSUME NEW records \in IF prov = NoFile THEN Records ELSE Reattested,
               NEW sources \in [DOMAIN records -> Windows], NEW complete \in BOOLEAN,
               NEW generated \in Times, NEW expires \in Times,
               Attest(records, sources, complete, generated, expires)
        PROVE  Attested
    <2>1. records \in Records
      BY <1>5, IssuesAssumption
    <2> QED
      BY <1>5, <2>1, AttestStep
  <1> QED
    BY <1>1, <1>2, <1>3, <1>4, <1>5 DEF Next

\* What a derivation gives.
LEMMA DeriveTyped ==
    ASSUME TypeOK, NEW g \in Times, Derivable(g)
    PROVE  SurfaceDerive(g) \in Surfaces /\ SurfaceDerive(g) # NoFile
  <1>1. capture # NoFile /\ prov # NoFile
    BY DEF Derivable, CaptureVerify, Provenance
  <1>2. capture \in Captures /\ prov \in Provenances /\ release \in 0 .. MaxRelease
    BY <1>1 DEF TypeOK
  <1>3. /\ capture.serial \in 1 .. MaxIssues /\ prov.serial \in 1 .. MaxIssues
        /\ capture.expires \in Times /\ prov.expires \in Times
    BY <1>2 DEF Captures, Provenances
  <1>4. SurfaceState(capture.tree, prov.records) \in States
    BY DEF SurfaceState, States
  <1>5. SurfaceDerive(g) \in Surfaces
    BY <1>2, <1>3, <1>4 DEF SurfaceDerive, Surfaces
  <1> QED
    BY <1>5, NoFileAssumption

\* THEOREM.  TypeOK: the variables keep their types, whatever is issued.
THEOREM TypeCorrect == Spec => []TypeOK
  <1>1. Init => TypeOK
    BY SurfaceBoundsAssumption DEF Init, TypeOK, Times, Verdicts
  <1>2. ASSUME TypeOK, [Next]_vars
        PROVE  TypeOK'
    <2>1. CASE Answers
      BY <1>2, <2>1 DEF Answers, TypeOK, Verdicts
    <2>2. CASE Creates
      BY <1>2, <2>2, DeriveTyped DEF Creates, TypeOK, Verdicts
    <2>3. CASE Captured
      BY <1>2, <2>3 DEF Captured, TypeOK, Verdicts
    <2>4. CASE Attested
      BY <1>2, <2>4 DEF Attested, TypeOK, Verdicts
    <2>5. CASE Upgrade
      BY <1>2, <2>5, SurfaceBoundsAssumption DEF Upgrade, TypeOK, Verdicts
    <2>6. CASE Tick
      BY <1>2, <2>6, SurfaceBoundsAssumption DEF Tick, TypeOK, Verdicts, Times
    <2>7. CASE UNCHANGED vars
      BY <1>2, <2>7 DEF vars, TypeOK
    <2> QED
      BY <1>2, <2>1, <2>2, <2>3, <2>4, <2>5, <2>6, <2>7, StepKinds
  <1> QED
    BY <1>1, <1>2, PTL DEF Spec

-----------------------------------------------------------------------------
(* What is true of the artifacts between the commands.                     *)

\* Nothing is dated further ahead than clocks may differ, and a surface refers to
\* releases and serials that were issued.
Dated ==
    /\ capture # NoFile => capture.observed <= now + Skew
    /\ surface # NoFile =>
        /\ capture # NoFile /\ prov # NoFile
        /\ surface.release <= release /\ surface.generated <= now + Skew
        /\ surface.capture <= capture.serial /\ surface.prov <= prov.serial

\* Whether a surface is what surface_derive gives, but for the clock and the release.
Sound(g) ==
    /\ capture # NoFile /\ ParseInventory(capture.tree)
    /\ capture.observed < capture.expires /\ capture.expires <= capture.observed + MaxLifetime
    /\ g \in capture.observed .. capture.expires
    /\ Provenance /\ g <= prov.expires
    /\ surface = [capture |-> capture.serial, prov |-> prov.serial, release |-> capture.release,
                  generated |-> g,
                  expires |-> IF capture.expires < prov.expires THEN capture.expires ELSE prov.expires,
                  state |-> SurfaceState(capture.tree, prov.records)]

\* As long as its artifacts are there a surface is what they give.
Backed ==
    surface # NoFile /\ capture.serial = surface.capture /\ prov.serial = surface.prov =>
        Sound(surface.generated)

\* The verdict is about what is there.
Spoken ==
    /\ verdict = "VERIFIED" => surface # NoFile /\ SurfaceVerify
    /\ verdict = "REFUSED" => surface # NoFile /\ ~SurfaceVerify
    /\ verdict = "CAPTURE_VERIFIED" => capture # NoFile /\ CaptureVerify
    /\ verdict = "CAPTURE_REFUSED" => capture # NoFile /\ ~CaptureVerify

Established == Dated /\ Backed /\ Spoken

LEMMA AlwaysTyped == Spec => []TypeOK
  <1> QED
    BY TypeCorrect

\* The commands' conditions depend on nothing but the clock, the release and the artifacts.
LEMMA SameAnswer ==
    ASSUME UNCHANGED <<now, release, capture, prov, surface>>
    PROVE  (SurfaceVerify <=> SurfaceVerify') /\ (CaptureVerify <=> CaptureVerify')
  <1>1. (CaptureVerify <=> CaptureVerify') /\ (Provenance <=> Provenance')
    BY DEF CaptureVerify, Provenance
  <1>2. \A g : (Derivable(g) <=> Derivable(g)') /\ SurfaceDerive(g) = SurfaceDerive(g)'
    BY <1>1 DEF Derivable, SurfaceDerive
  <1>3. SurfaceVerify <=> SurfaceVerify'
    <2>1. Derivable(surface.generated) <=> Derivable(surface.generated)'
      BY <1>1 DEF Derivable
    <2>2. SurfaceDerive(surface.generated) = SurfaceDerive(surface.generated)'
      BY DEF SurfaceDerive
    <2> QED
      BY <2>1, <2>2 DEF SurfaceVerify
  <1> QED
    BY <1>1, <1>3

LEMMA SoundStays ==
    ASSUME NEW g, UNCHANGED <<capture, prov, surface>>
    PROVE  Sound(g) <=> Sound(g)'
  BY DEF Sound, Provenance

\* A surface is created with what was just verified.
LEMMA CreatedIsSound ==
    ASSUME TypeOK, NEW g \in Times, Derivable(g), surface' = SurfaceDerive(g), UNCHANGED <<capture, prov>>
    PROVE  Sound(g)' /\ surface'.generated = g /\ g <= now + Skew /\ surface'.release = release
           /\ surface'.capture = capture.serial /\ surface'.prov = prov.serial
           /\ capture # NoFile /\ prov # NoFile
  <1>1. CaptureVerify /\ Provenance /\ g \in capture.observed .. capture.expires /\ g <= prov.expires
        /\ g <= now + Skew
    BY DEF Derivable
  <1>2. /\ capture # NoFile /\ prov # NoFile /\ capture.release = release /\ ParseInventory(capture.tree)
        /\ capture.observed < capture.expires /\ capture.expires <= capture.observed + MaxLifetime
    BY <1>1 DEF CaptureVerify, Provenance
  <1>3. surface' = [capture |-> capture.serial, prov |-> prov.serial, release |-> capture.release,
                    generated |-> g,
                    expires |-> IF capture.expires < prov.expires THEN capture.expires ELSE prov.expires,
                    state |-> SurfaceState(capture.tree, prov.records)]
    BY <1>2 DEF SurfaceDerive
  <1>4. Provenance'
    BY <1>1 DEF Provenance
  <1>5. Sound(g)'
    BY <1>1, <1>2, <1>3, <1>4 DEF Sound
  <1> QED
    BY <1>1, <1>2, <1>3, <1>5

LEMMA DatedKept ==
    ASSUME TypeOK, Dated, [Next]_vars
    PROVE  Dated'
  <1>1. CASE Answers \/ UNCHANGED vars
    BY <1>1 DEF Answers, vars, Dated
  <1>2. CASE Creates
    <2>1. PICK g \in Times : /\ Derivable(g) /\ surface' = SurfaceDerive(g)
                             /\ UNCHANGED <<now, release, capture, prov>>
      BY <1>2 DEF Creates
    <2>2. /\ surface'.generated = g /\ g <= now + Skew /\ surface'.release = release
          /\ surface'.capture = capture.serial /\ surface'.prov = prov.serial
          /\ capture # NoFile /\ prov # NoFile
      BY <2>1, CreatedIsSound
    <2>3. release <= release /\ capture.serial <= capture.serial /\ prov.serial <= prov.serial
      BY <2>2, NumbersTyped
    <2> QED
      BY <2>1, <2>2, <2>3 DEF Dated
  <1>3. CASE Captured
    <2>1. capture # NoFile => capture'.serial = capture.serial + 1
      BY <1>3 DEF Captured, Serial
    <2> QED
      BY <1>3, <2>1, NumbersTyped DEF Captured, Dated
  <1>4. CASE Attested
    <2>1. prov # NoFile => prov'.serial = prov.serial + 1
      BY <1>4 DEF Attested, Serial
    <2> QED
      BY <1>4, <2>1, NumbersTyped DEF Attested, Dated
  <1>5. CASE Upgrade
    BY <1>5, NumbersTyped DEF Upgrade, Dated
  <1>6. CASE Tick
    BY <1>6, NumbersTyped DEF Tick, Dated
  <1> QED
    BY <1>1, <1>2, <1>3, <1>4, <1>5, <1>6, StepKinds

LEMMA BackedKept ==
    ASSUME TypeOK, Dated, Backed, [Next]_vars
    PROVE  Backed'
  <1>1. CASE UNCHANGED <<capture, prov, surface>>
    BY <1>1, SoundStays DEF Backed
  <1>2. CASE Creates
    <2>1. PICK g \in Times : Derivable(g) /\ surface' = SurfaceDerive(g) /\ UNCHANGED <<capture, prov>>
      BY <1>2 DEF Creates
    <2>2. Sound(g)' /\ surface'.generated = g
      BY <2>1, CreatedIsSound
    <2>3. Sound(surface.generated)'
      BY <2>2 DEF Sound
    <2> QED
      BY <2>3 DEF Backed
  <1>3. CASE Captured
    <2>1. /\ surface' = surface /\ prov' = prov
          /\ (surface # NoFile => capture # NoFile /\ surface.capture <= capture.serial)
          /\ (capture # NoFile => capture'.serial = capture.serial + 1)
      BY <1>3 DEF Captured, Serial, Dated
    <2>2. surface # NoFile => capture'.serial # surface.capture
      BY <2>1, NumbersTyped
    <2> QED
      BY <2>1, <2>2 DEF Backed
  <1>4. CASE Attested
    <2>1. /\ surface' = surface /\ capture' = capture
          /\ (surface # NoFile => prov # NoFile /\ surface.prov <= prov.serial)
          /\ (prov # NoFile => prov'.serial = prov.serial + 1)
      BY <1>4 DEF Attested, Serial, Dated
    <2>2. surface # NoFile => prov'.serial # surface.prov
      BY <2>1, NumbersTyped
    <2> QED
      BY <2>1, <2>2 DEF Backed
  <1>5. Answers \/ Upgrade \/ Tick \/ UNCHANGED vars => UNCHANGED <<capture, prov, surface>>
    BY DEF Answers, Upgrade, Tick, vars
  <1> QED
    BY <1>1, <1>2, <1>3, <1>4, <1>5, StepKinds

LEMMA SpokenKept ==
    ASSUME TypeOK, Spoken, [Next]_vars
    PROVE  Spoken'
  <1>1. CASE Answers
    BY <1>1, SameAnswer DEF Answers, Spoken
  <1>2. CASE UNCHANGED vars
    BY <1>2, SameAnswer DEF vars, Spoken
  <1>3. CASE verdict' = "NONE"
    BY <1>3 DEF Spoken
  <1>4. Creates \/ Captured \/ Attested \/ Upgrade \/ Tick => verdict' = "NONE"
    BY DEF Creates, Captured, Attested, Upgrade, Tick
  <1> QED
    BY <1>1, <1>2, <1>3, <1>4, StepKinds

LEMMA AlwaysEstablished == Spec => []Established
  <1>1. Init => Established
    BY DEF Init, Established, Dated, Backed, Spoken
  <1>2. TypeOK /\ Established /\ [Next]_vars => Established'
    BY DatedKept, BackedKept, SpokenKept DEF Established
  <1> QED
    BY <1>1, <1>2, AlwaysTyped, PTL DEF Spec

-----------------------------------------------------------------------------
(* What the commands say.                                                  *)

\* A surface whose artifacts are there verifies unless it is out of date.
LEMMA FreshVerifies ==
    ASSUME TypeOK, Dated, Backed, surface # NoFile, release = surface.release,
           capture.serial = surface.capture, prov.serial = surface.prov,
           now <= surface.expires, now <= surface.generated + IssueWindow
    PROVE  SurfaceVerify
  <1> DEFINE g == surface.generated
  <1>1. Sound(g)
    BY DEF Backed
  <1>2. /\ surface = [capture |-> capture.serial, prov |-> prov.serial, release |-> capture.release,
                      generated |-> g,
                      expires |-> IF capture.expires < prov.expires THEN capture.expires ELSE prov.expires,
                      state |-> SurfaceState(capture.tree, prov.records)]
        /\ capture # NoFile /\ ParseInventory(capture.tree) /\ Provenance
        /\ capture.observed < capture.expires /\ capture.expires <= capture.observed + MaxLifetime
        /\ g \in capture.observed .. capture.expires /\ g <= prov.expires
    BY <1>1 DEF Sound
  <1>3. capture.release = release
    BY <1>2
  <1>4. SurfaceDerive(g) = surface
    BY <1>2, <1>3 DEF SurfaceDerive
  <1>5. surface.expires = IF capture.expires < prov.expires THEN capture.expires ELSE prov.expires
    BY <1>2
  <1>6. prov # NoFile /\ capture.observed <= now + Skew /\ g <= now + Skew
    BY <1>2 DEF Dated
  <1>7. now <= capture.expires
    BY <1>2, <1>5, <1>6, NumbersTyped
  <1>8. CaptureVerify
    BY <1>2, <1>3, <1>6, <1>7 DEF CaptureVerify
  <1>9. Derivable(g)
    BY <1>2, <1>6, <1>8 DEF Derivable
  <1> QED
    BY <1>4, <1>9 DEF SurfaceVerify

\* An inventory of the helper has an issue for all that the parser asks one for.
LEMMA HelperIsRead ==
    ASSUME NEW tree \in Trees, \A p \in Entries(tree) : tree[p].odd # "ancient"
    PROVE  ParseInventory(tree)
  <1>1. \A p \in Regulars(tree) : p \in Entries(tree)
    BY DEF Regulars, Entries
  <1>2. Regulars(tree) \ Hashed(tree) \subseteq Issues(tree)
    BY <1>1 DEF Hashed, Issues
  <1>3. {p \in Regulars(tree) : tree[p].odd = "hardlink"} \subseteq Issues(tree)
    BY <1>1 DEF Issues
  <1>4. {p \in Entries(tree) : tree[p].kind = "other"} \subseteq Issues(tree)
    BY DEF Issues
  <1> QED
    BY <1>2, <1>3, <1>4 DEF ParseInventory

\* A capture that verifies is current.
LEMMA VerifiedCapture ==
    ASSUME TypeOK, CaptureVerify
    PROVE  CaptureIsCurrent
  <1>1. /\ capture.release = release /\ capture.expires <= capture.observed + MaxLifetime
        /\ capture.observed <= now + Skew /\ now <= capture.expires /\ capture # NoFile
    BY DEF CaptureVerify
  <1> QED
    BY <1>1, NumbersTyped DEF CaptureIsCurrent

\* The evidence of a record that provenance takes lies within the capture's lifetime.
LEMMA EvidenceWithinCapture ==
    ASSUME TypeOK, CaptureVerify, Provenance, NEW p \in DOMAIN prov.records
    PROVE  /\ prov.sources[p].observed >= capture.observed
           /\ prov.sources[p].expires <= capture.observed + MaxLifetime
  <1>1. /\ prov # NoFile /\ capture # NoFile
        /\ capture.observed <= prov.sources[p].observed /\ prov.sources[p].expires <= capture.expires
        /\ capture.expires <= capture.observed + MaxLifetime
    BY DEF Provenance, CaptureVerify
  <1>2. prov.sources[p] \in Windows
    <2>1. prov.sources \in Evidence /\ p \in DOMAIN prov.sources
      BY <1>1, NumbersTyped DEF Provenances
    <2> QED
      BY <2>1 DEF Evidence
  <1>3. prov.sources[p].observed \in Nat /\ prov.sources[p].expires \in Nat
    BY <1>2, WindowsAssumption DEF Times
  <1> QED
    BY <1>1, <1>3, NumbersTyped

\* THEOREM.  VerdictsAreRight: capture-verify and surface_verify say CAPTURE_VERIFIED and
\* VERIFIED only of a capture that is current, the latter with provenance that is
\* current and evidence of the capture's lifetime, and refuse only for a reason that
\* can be named.
THEOREM VerdictsStand == Spec => []VerdictsAreRight
  <1>1. ASSUME TypeOK, Established
        PROVE  VerifiedIsCurrent
    <2> DEFINE g == surface.generated
    <2>1. verdict = "CAPTURE_VERIFIED" => CaptureIsCurrent
      BY <1>1, VerifiedCapture DEF Established, Spoken
    <2>2. ASSUME verdict = "VERIFIED"
          PROVE  /\ CaptureIsCurrent /\ surface.release = release
                 /\ prov.capture = capture.serial /\ prov.complete /\ now <= prov.expires
                 /\ \A p \in DOMAIN prov.records :
                       /\ prov.sources[p].observed >= capture.observed
                       /\ prov.sources[p].expires <= capture.observed + MaxLifetime
                 /\ g \in capture.observed .. prov.expires /\ now <= g + IssueWindow
      <3>1. surface # NoFile /\ SurfaceVerify
        BY <1>1, <2>2 DEF Established, Spoken
      <3>2. /\ surface.release = release /\ Derivable(g) /\ SurfaceDerive(g) = surface
            /\ now <= surface.expires
        BY <3>1 DEF SurfaceVerify
      <3>3. /\ CaptureVerify /\ Provenance /\ now <= g + IssueWindow
            /\ g \in capture.observed .. capture.expires /\ g <= prov.expires
        BY <3>2 DEF Derivable
      <3>4. /\ capture # NoFile /\ prov # NoFile
            /\ prov.capture = capture.serial /\ prov.complete
        BY <3>3 DEF CaptureVerify, Provenance
      <3>5. surface.expires = IF capture.expires < prov.expires THEN capture.expires ELSE prov.expires
        BY <3>2 DEF SurfaceDerive
      <3>6. now <= prov.expires
        BY <1>1, <3>1, <3>2, <3>4, <3>5, NumbersTyped
      <3>7. g \in capture.observed .. prov.expires
        BY <1>1, <3>1, <3>3, <3>4, NumbersTyped
      <3>8. CaptureIsCurrent
        BY <1>1, <3>3, VerifiedCapture
      <3>9. \A p \in DOMAIN prov.records :
               /\ prov.sources[p].observed >= capture.observed
               /\ prov.sources[p].expires <= capture.observed + MaxLifetime
        BY <1>1, <3>3, EvidenceWithinCapture
      <3> QED
        BY <3>2, <3>3, <3>4, <3>6, <3>7, <3>8, <3>9
    <2> QED
      BY <2>1, <2>2 DEF VerifiedIsCurrent
  <1>2. ASSUME TypeOK, Established, verdict = "REFUSED"
        PROVE  VerifiesWhileFresh
    <2>1. surface # NoFile /\ ~SurfaceVerify /\ capture # NoFile /\ prov # NoFile /\ Dated /\ Backed
      BY <1>2 DEF Established, Spoken, Dated
    <2>2. ~(/\ release = surface.release /\ capture.serial = surface.capture /\ prov.serial = surface.prov
            /\ now <= surface.expires /\ now <= surface.generated + IssueWindow)
      BY <1>2, <2>1, FreshVerifies
    <2> QED
      BY <1>2, <2>1, <2>2, NumbersTyped DEF VerifiesWhileFresh
  <1>3. ASSUME TypeOK, Established, verdict = "CAPTURE_REFUSED"
        PROVE  InventoryIsReadable
    <2>1. capture # NoFile /\ ~CaptureVerify
      BY <1>3 DEF Established, Spoken
    <2>2. /\ now \in Nat /\ Skew \in Nat /\ MaxLifetime \in Nat /\ capture.observed \in Nat
          /\ capture.expires \in Nat /\ capture.tree \in Trees
      BY <1>3, <2>1, NumbersTyped
    <2>3. ASSUME capture.release = release, capture.expires \in capture.observed + 1 .. capture.observed + MaxLifetime,
                 now \in capture.observed - Skew .. capture.expires,
                 \A p \in Entries(capture.tree) : capture.tree[p].odd # "ancient"
          PROVE  FALSE
      <3>1. /\ capture.observed < capture.expires /\ capture.expires <= capture.observed + MaxLifetime
            /\ capture.observed <= now + Skew /\ now <= capture.expires
        BY <2>2, <2>3
      <3>2. ParseInventory(capture.tree)
        BY <2>2, <2>3, HelperIsRead
      <3> QED
        BY <2>1, <2>3, <3>1, <3>2 DEF CaptureVerify
    <2> QED
      BY <2>3 DEF InventoryIsReadable
  <1>4. TypeOK /\ Established => VerdictsAreRight
    BY <1>1, <1>2, <1>3 DEF VerdictsAreRight, VerifiesWhileFresh, InventoryIsReadable
  <1> QED
    BY <1>4, AlwaysTyped, AlwaysEstablished, PTL

\* THEOREM.  RefusalIsFinal: a surface that surface_verify would refuse is refused
\* after every step: time only makes it older, and whatever is issued under the path
\* of one of its artifacts is not that artifact.
THEOREM RefusalStays == Spec => RefusalIsFinal
  <1>1. ASSUME TypeOK, Dated, surface # NoFile, ~SurfaceVerify, [Next]_vars, SurfaceVerify'
        PROVE  FALSE
    <2>1. CASE UNCHANGED <<now, release, capture, prov, surface>>
      BY <1>1, <2>1, SameAnswer
    <2>2. Answers \/ UNCHANGED vars => UNCHANGED <<now, release, capture, prov, surface>>
      BY DEF Answers, vars
    <2>3. ~Creates
      BY <1>1 DEF Creates
    <2>4. /\ capture # NoFile /\ prov # NoFile
          /\ surface.release <= release /\ surface.generated <= now + Skew /\ capture.observed <= now + Skew
          /\ surface.capture <= capture.serial /\ surface.prov <= prov.serial
      BY <1>1 DEF Dated
    <2>5. surface'.release = release' /\ surface'.capture = capture'.serial /\ surface'.prov = prov'.serial
      BY <1>1 DEF SurfaceVerify
    <2>6. CASE Captured
      <3>1. surface' = surface /\ capture'.serial = capture.serial + 1
        BY <2>4, <2>6 DEF Captured, Serial
      <3> QED
        BY <1>1, <2>4, <2>5, <3>1, NumbersTyped
    <2>7. CASE Attested
      <3>1. surface' = surface /\ prov'.serial = prov.serial + 1
        BY <2>4, <2>7 DEF Attested, Serial
      <3> QED
        BY <1>1, <2>4, <2>5, <3>1, NumbersTyped
    <2>8. CASE Upgrade
      <3>1. surface' = surface /\ release' = release + 1
        BY <2>8 DEF Upgrade
      <3> QED
        BY <1>1, <2>4, <2>5, <3>1, NumbersTyped
    <2>9. CASE Tick
      <3>1. UNCHANGED <<release, capture, prov, surface>> /\ now' = now + 1
        BY <2>9 DEF Tick
      <3>2. /\ Derivable(surface.generated)' /\ SurfaceDerive(surface.generated)' = surface'
            /\ now' <= surface'.expires
        BY <1>1 DEF SurfaceVerify
      <3>3. now <= surface.expires
        BY <1>1, <3>1, <3>2, NumbersTyped
      <3>4. /\ CaptureVerify' /\ Provenance' /\ now' <= surface.generated + IssueWindow
            /\ surface.generated \in capture.observed .. capture.expires
            /\ surface.generated <= prov.expires
        BY <3>1, <3>2 DEF Derivable
      <3>5. CaptureVerify
        BY <1>1, <2>4, <3>1, <3>4, NumbersTyped DEF CaptureVerify
      <3>6. Provenance /\ now <= surface.generated + IssueWindow
        BY <1>1, <3>1, <3>4, NumbersTyped DEF Provenance
      <3>7. Derivable(surface.generated)
        BY <2>4, <3>4, <3>5, <3>6 DEF Derivable
      <3>8. SurfaceDerive(surface.generated) = surface
        BY <3>1, <3>2 DEF SurfaceDerive
      <3> QED
        BY <1>1, <2>5, <3>1, <3>3, <3>7, <3>8 DEF SurfaceVerify
    <2> QED
      BY <1>1, <2>1, <2>2, <2>3, <2>6, <2>7, <2>8, <2>9, StepKinds
  <1>2. TypeOK /\ Established /\ [Next]_vars => [surface # NoFile /\ ~SurfaceVerify => ~SurfaceVerify']_vars
    BY <1>1 DEF Established
  <1> QED
    BY <1>2, AlwaysTyped, AlwaysEstablished, PTL DEF Spec, RefusalIsFinal

\* THEOREM.  CleanMeansAccountedFor: whatever the tree, the ruleset and the provenance,
\* classify, surface_derive and parse_inventory leave nothing of a captured tree out
\* of a surface that verifies as COMPLETE_NO_ACTION.
THEOREM CleanIsAccountedFor == Spec => []CleanMeansAccountedFor
  <1>1. ASSUME TypeOK, Established, Clean, NEW p \in Entries(capture.tree)
        PROVE  LET o == capture.tree[p] IN
                 \/ o.kind = "directory"
                 \/ /\ o.kind = "regular" /\ o.odd = "plain"
                    /\ p \in DOMAIN prov.records /\ prov.records[p] = o.content
                    /\ o.content \notin Malicious
                    /\ ~(p \in Uploads /\ Executable(p, o))
    <2> DEFINE tree == capture.tree
               records == prov.records
               o == tree[p]
    <2>1. surface # NoFile /\ SurfaceVerify /\ surface.state = "COMPLETE_NO_ACTION"
      BY <1>1 DEF Clean, Established, Spoken
    <2>2. SurfaceDerive(surface.generated) = surface /\ Derivable(surface.generated)
      BY <2>1 DEF SurfaceVerify
    <2>3. /\ SurfaceState(tree, records) = "COMPLETE_NO_ACTION"
          /\ capture # NoFile /\ ParseInventory(tree)
      BY <2>1, <2>2 DEF SurfaceDerive, Derivable, CaptureVerify
    <2>4. /\ Issues(tree) = {} /\ Evaluated(tree, records, "UNRESOLVED") = {}
          /\ Evaluated(tree, records, "ACTION_REQUIRED") = {}
      BY <2>3 DEF SurfaceState, CoverageComplete
    <2>5. tree \in Trees /\ p \in Paths /\ o.kind # "absent"
      BY <1>1, <2>3, NumbersTyped DEF Entries
    <2>6. o \in Objects
      BY <2>5 DEF Trees
    <2>7. CASE o.kind # "regular"
      <3>1. o.kind \in {"absent", "directory", "other"}
        BY <2>6, <2>7, ObjectsAssumption DEF Objects
      <3>2. o.kind # "other"
        BY <1>1, <2>4, <2>5 DEF Issues
      <3> QED
        BY <2>5, <3>1, <3>2
    <2>8. CASE o.kind = "regular"
      <3>1. o.odd \in {"plain", "hardlink", "unhashed", "ancient"}
        <4>1. o \in [kind: {"regular"}, content: Contents, x: BOOLEAN, odd: Oddities]
          BY <2>6, <2>8, ObjectsAssumption DEF Objects
        <4> QED
          BY <4>1, ObjectsAssumption
      <3>2. p \in Regulars(tree)
        BY <2>5, <2>8 DEF Regulars
      <3>3. o.odd \notin {"hardlink", "unhashed"}
        BY <1>1, <2>4, <3>2 DEF Issues
      <3>4. o.odd # "ancient"
        BY <2>3, <3>2 DEF ParseInventory
      <3>5. p \in Hashed(tree) /\ o.odd = "plain"
        BY <3>1, <3>2, <3>3, <3>4 DEF Hashed
      <3>6. Classify(p, o, records) # "UNRESOLVED" /\ Classify(p, o, records) # "ACTION_REQUIRED"
        BY <2>4, <3>5 DEF Evaluated
      <3> QED
        BY <2>8, <3>5, <3>6 DEF Classify
    <2> QED
      BY <2>7, <2>8
  <1>3. ASSUME TypeOK, Established, Clean
        PROVE  DOMAIN prov.records \subseteq Entries(capture.tree)
    <2>1. /\ SurfaceDerive(surface.generated) = surface /\ Derivable(surface.generated)
          /\ surface.state = "COMPLETE_NO_ACTION"
      BY <1>3 DEF Clean, Established, Spoken, SurfaceVerify
    <2>2. SurfaceState(capture.tree, prov.records) = "COMPLETE_NO_ACTION"
      BY <2>1 DEF SurfaceDerive
    <2>3. Missing(capture.tree, prov.records) = {}
      BY <2>2 DEF SurfaceState, Evaluated
    <2> QED
      BY <2>3 DEF Missing
  <1>2. TypeOK /\ Established => CleanMeansAccountedFor
    BY <1>1, <1>3 DEF CleanMeansAccountedFor
  <1> QED
    BY <1>2, AlwaysTyped, AlwaysEstablished, PTL
=========
