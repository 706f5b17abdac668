---------------------------- MODULE SignedDriftProofs ---------------------------
(***************************************************************************)
(* Proofs about the signed drift diagnostic, for any number of commands    *)
(* that create, verify and seal side by side, and any budget of failing    *)
(* calls, killed commands, new captures and upgrades.                      *)
(***************************************************************************)
EXTENDS SignedDrift, FiniteSetTheorems, TLAPS

\* A step of the command i.
Acts(i) ==
    \/ i \in Sealers /\ Seal(i)
    \/ i \in Creators /\ Create(i)
    \/ i \in Verifiers /\ Verify(i)
    \/ i \in Creators \cup Verifiers /\ Derive(i)
    \/ FindKey(i) \/ AddKey(i) \/ CompareMac(i) \/ Kill(i)

LEMMA NextActs == Next => Surroundings \/ \E i \in Commands : Acts(i)
  BY DEF Next, Acts, Commands

-----------------------------------------------------------------------------
(* Types.                                                                  *)

SealMacs == [key : 0 .. keys, of : Seals \cup {Unfinished}]

ArtifactMacs == [key : 0 .. keys, of : Artifacts]

Locals ==
    [doc : {None, "seal", "artifact", "new"}, task : {None, "sign", "verify"},
     expected : SealMacs \cup ArtifactMacs \cup {None}, key : 0 .. keys \cup {None},
     opened : 0 .. raw \cup {None}, sealed : Seals \cup {None},
     version : 0 .. release \cup {None}, hashed : 0 .. release \cup {None},
     artifact : Artifacts \cup {None}, mac : SealMacs \cup ArtifactMacs \cup {None}]

Labels ==
    {"start", "hash", "emptySeal", "writeSeal", "find", "add", "mac", "emptySignature",
     "writeSignature", "check", "open", "load", "first", "second", "bindings",
     "compare", "moveArtifact", "moveSignature"} \cup Ended

\* What a command must have read where it stands.
Ready(i) ==
    /\ pc[i] \in {"add", "mac"} => local[i].key # None
    /\ pc[i] \in {"load", "first", "second"} => local[i].opened # None
    /\ pc[i] \in {"first", "second"} => local[i].sealed # None
    /\ pc[i] \in {"second", "hash", "emptySeal", "writeSeal"} => local[i].version # None
    /\ pc[i] \in {"emptySeal", "writeSeal"} => local[i].hashed # None
    /\ i \in Creators /\ local[i].task = "sign" => local[i].artifact # None
    /\ i \in Creators /\ pc[i] \in {"moveArtifact", "moveSignature", "created"} => local[i].artifact # None
    /\ i \in Verifiers /\ pc[i] \in {"compare", "verified"} => local[i].artifact # None

\* Creators sign artifacts, sealers the seal.
Signs(i) ==
    /\ i \in Creators => local[i].mac \in ArtifactMacs \cup {None}
    /\ i \in Sealers => local[i].mac \in SealMacs \cup {None}

TypeInv ==
    /\ keys \in Nat /\ seals \in Nat /\ raw \in Nat /\ release \in Nat /\ failures \in Nat /\ kills \in Nat
    /\ key \in 0 .. keys \cup {None} /\ seal \in Seals \cup {Unfinished, None}
    /\ sealSig \in SealMacs \cup {None} /\ sig \in ArtifactMacs \cup {None}
    /\ file \in Artifacts \cup {None}
    /\ pc \in [Commands -> Labels] /\ local \in [Commands -> Locals]
    /\ Affordable(Begun, failures, kills, raw + release)
    /\ \A i \in Commands : Ready(i) /\ Signs(i)

\* What was of an earlier capture, release, seal and set of keys is of the later one.
LEMMA Grows ==
    ASSUME keys \in Nat, seals \in Nat, raw \in Nat, release \in Nat,
           keys' \in Nat, seals' \in Nat, raw' \in Nat, release' \in Nat,
           keys <= keys', seals <= seals', raw <= raw', release <= release'
    PROVE  /\ Seals \subseteq Seals' /\ Artifacts \subseteq Artifacts'
           /\ SealMacs \subseteq SealMacs' /\ ArtifactMacs \subseteq ArtifactMacs'
           /\ Locals \subseteq Locals'
  <1>1. /\ 0 .. keys \subseteq 0 .. keys' /\ 0 .. raw \subseteq 0 .. raw' /\ 0 .. release \subseteq 0 .. release'
        /\ 0 .. seals \subseteq 0 .. seals'
    OBVIOUS
  <1>2. Seals \subseteq Seals'
    BY <1>1 DEF Seals
  <1>3. Artifacts \subseteq Artifacts'
    BY <1>1, <1>2 DEF Artifacts
  <1>4. SealMacs \subseteq SealMacs'
    BY <1>1, <1>2 DEF SealMacs, Unfinished
  <1>5. ArtifactMacs \subseteq ArtifactMacs'
    BY <1>1, <1>3 DEF ArtifactMacs
  <1>6. Locals \subseteq Locals'
    BY <1>1, <1>2, <1>3, <1>4, <1>5 DEF Locals
  <1> QED
    BY <1>2, <1>3, <1>4, <1>5, <1>6

\* None is no key, no seal, no artifact and no signature.
LEMMA NoneIsNothing ==
    ASSUME TypeInv
    PROVE  /\ None \notin Nat /\ None \notin Seals /\ None # Unfinished /\ None \notin Artifacts
           /\ None \notin SealMacs /\ None \notin ArtifactMacs
           /\ Unfinished \notin Seals
  <1>1. Seals \subseteq [made : Nat, commit : Nat, hashed : Nat]
    BY DEF Seals, TypeInv
  <1>2. Seals \cup {Unfinished} \subseteq SealText
    BY <1>1 DEF SealText
  <1>3. Artifacts \subseteq ArtifactText
    BY <1>2 DEF Artifacts, ArtifactText, TypeInv
  <1>4. SealMacs \subseteq [key : Nat, of : SealText \cup ArtifactText]
    BY <1>2 DEF SealMacs, TypeInv
  <1>5. ArtifactMacs \subseteq [key : Nat, of : SealText \cup ArtifactText]
    BY <1>3 DEF ArtifactMacs, TypeInv
  <1>6. Unfinished \notin Seals
    BY <1>1, CommandAssumption DEF Unfinished
  <1> QED
    BY <1>2, <1>3, <1>4, <1>5, <1>6, CommandAssumption

\* A command's variables after a call of the library, with one more value, and
\* with a new artifact that is to be signed.
AfterCall(r, d, t, e) == [r EXCEPT !.doc = d, !.task = t, !.expected = e]
WithKey(r, k) == [r EXCEPT !.key = k]
WithOpened(r, x) == [r EXCEPT !.opened = x]
WithSealed(r, x) == [r EXCEPT !.sealed = x]
WithVersion(r, x) == [r EXCEPT !.version = x]
WithHashed(r, x) == [r EXCEPT !.hashed = x]
WithArtifact(r, a) == [r EXCEPT !.artifact = a]
WithMac(r, m) == [r EXCEPT !.mac = m]
WithNew(r, a) == [r EXCEPT !.artifact = a, !.task = "sign", !.doc = "new"]

\* What a call of the library writes.
LEMMA Called ==
    ASSUME local \in [Commands -> Locals], NEW i \in Commands, NEW d, NEW t, NEW e, Call(i, d, t, e)
    PROVE  /\ local' = [local EXCEPT ![i] = AfterCall(local[i], d, t, e)]
           /\ local' = [local EXCEPT ![i] = local'[i]]
           /\ local'[i] = AfterCall(local[i], d, t, e)
           /\ pc' = [pc EXCEPT ![i] = "find"]
  <1>1. local' = [local EXCEPT ![i] = AfterCall(local[i], d, t, e)]
    BY DEF Call, AfterCall
  <1>2. local' = [local EXCEPT ![i] = local'[i]]
    BY <1>1
  <1>3. local'[i] = AfterCall(local[i], d, t, e)
    BY <1>1
  <1> QED
    BY <1>1, <1>2, <1>3 DEF Call, Goto

LEMMA NewArtifact ==
    ASSUME local \in [Commands -> Locals], NEW i \in Commands, NEW a,
           local' = [local EXCEPT ![i].artifact = a, ![i].task = "sign", ![i].doc = "new"]
    PROVE  local'[i] = WithNew(local[i], a)
  BY DEF WithNew

LEMMA VerificationBegun ==
    ASSUME local \in [Commands -> Locals], NEW i \in Commands, BeginVerify(i)
    PROVE  Call(i, "artifact", "verify", sig)
  BY DEF BeginVerify, CallVerify, Signature

\* The command that acts, what it was about, and what it leaves alone.
LEMMA OthersWait ==
    ASSUME TypeInv, NEW i \in Commands, Acts(i)
    PROVE  /\ pc' = [pc EXCEPT ![i] = pc'[i]]
           /\ pc[i] \notin {"created", "verified", "sealed", "refused", "killed"}
           /\ pc'[i] # "start"
           /\ raw' = raw /\ release' = release /\ keys' \in Nat /\ keys <= keys'
           /\ seals' \in Nat /\ seals <= seals'
           /\ failures' \in Nat /\ kills' \in Nat
           /\ key' # None \/ key' = key
  <1>1. /\ pc \in [Commands -> Labels] /\ keys \in Nat /\ seals \in Nat /\ failures \in Nat /\ kills \in Nat
        /\ pc[i] = "add" => local[i].key # None
    BY DEF TypeInv, Ready
  <1> USE <1>1 DEF Goto, Stay, GoesThrough, Fails, Private, world, keychain, sealed, published,
          counters, Ended
  <1>2. CASE i \in Sealers /\ WriteSeal(i)
    BY <1>2 DEF WriteSeal, Call
  <1>3. CASE i \in Sealers /\ SignSeal(i)
    BY <1>3 DEF SignSeal
  <1>4. CASE i \in Sealers /\ CheckSeal(i)
    BY <1>4 DEF CheckSeal, CallVerify, Call
  <1>5. CASE i \in Creators /\ CheckOutput(i)
    BY <1>5 DEF CheckOutput, CallVerify, Call
  <1>6. CASE i \in Creators /\ SignArtifact(i)
    BY <1>6 DEF SignArtifact
  <1>7. CASE i \in Creators /\ MoveArtifact(i)
    BY <1>7 DEF MoveArtifact
  <1>8. CASE i \in Creators /\ MoveSignature(i)
    BY <1>8 DEF MoveSignature
  <1>9. CASE i \in Verifiers /\ BeginVerify(i)
    BY <1>9 DEF BeginVerify, CallVerify, Call
  <1>10. CASE i \in Verifiers /\ ReadBindings(i)
    BY <1>10 DEF ReadBindings, CallVerify, Call
  <1>11. CASE i \in Verifiers /\ Compare(i)
    BY <1>11 DEF Compare
  <1>12. CASE i \in Creators \cup Verifiers /\ OpenRaw(i)
    BY <1>12 DEF OpenRaw
  <1>13. CASE i \in Creators \cup Verifiers /\ LoadSeal(i)
    BY <1>13 DEF LoadSeal
  <1>14. CASE i \in Creators \cup Verifiers /\ FirstParse(i)
    BY <1>14 DEF FirstParse
  <1>15. CASE i \in Creators \cup Verifiers /\ SecondParse(i)
    BY <1>15 DEF SecondParse, Derived, Artifact
  <1>16. CASE FindKey(i)
    BY <1>16 DEF FindKey
  <1>17. CASE AddKey(i)
    BY <1>17 DEF AddKey
  <1>18. CASE CompareMac(i)
    BY <1>18 DEF CompareMac, Accepted
  <1>19. CASE Kill(i)
    BY <1>19 DEF Kill
  <1>20. CASE i \in Sealers /\ ReadRelease(i)
    BY <1>20 DEF ReadRelease
  <1>21. CASE i \in Sealers /\ HashComponents(i)
    BY <1>21 DEF HashComponents
  <1>22. CASE i \in Sealers /\ EmptySeal(i)
    BY <1>22 DEF EmptySeal
  <1>23. CASE i \in Sealers /\ EmptySignature(i)
    BY <1>23 DEF EmptySignature
  <1>24. CASE i \in Sealers /\ WriteSignature(i)
    BY <1>24 DEF WriteSignature
  <1> QED
    BY <1>20, <1>21, <1>22, <1>23, <1>24, <1>2, <1>3, <1>4, <1>5, <1>6, <1>7, <1>8, <1>9, <1>10, <1>11, <1>12, <1>13, <1>14, <1>15, <1>16, <1>17, <1>18, <1>19 DEF Acts, Seal, Create, Verify, Derive

LEMMA LocalOwn ==
    ASSUME TypeInv, NEW i \in Commands, Acts(i)
    PROVE  local' = [local EXCEPT ![i] = local'[i]]
  <1>1. local \in [Commands -> Locals]
    BY DEF TypeInv
  <1> USE <1>1 DEF Stay
  <1>2. CASE i \in Sealers /\ WriteSeal(i)
    BY <1>2, Called DEF WriteSeal
  <1>3. CASE i \in Sealers /\ SignSeal(i)
    BY <1>3 DEF SignSeal
  <1>4. CASE i \in Sealers /\ CheckSeal(i)
    BY <1>4, Called DEF CheckSeal, CallVerify
  <1>5. CASE i \in Creators /\ CheckOutput(i)
    BY <1>5, Called DEF CheckOutput, CallVerify
  <1>6. CASE i \in Creators /\ SignArtifact(i)
    BY <1>6 DEF SignArtifact
  <1>7. CASE i \in Creators /\ MoveArtifact(i)
    BY <1>7 DEF MoveArtifact
  <1>8. CASE i \in Creators /\ MoveSignature(i)
    BY <1>8 DEF MoveSignature
  <1>9. CASE i \in Verifiers /\ BeginVerify(i)
    BY <1>9, Called, VerificationBegun
  <1>10. CASE i \in Verifiers /\ ReadBindings(i)
    BY <1>10, Called DEF ReadBindings, CallVerify
  <1>11. CASE i \in Verifiers /\ Compare(i)
    BY <1>11 DEF Compare
  <1>12. CASE i \in Creators \cup Verifiers /\ OpenRaw(i)
    BY <1>12 DEF OpenRaw
  <1>13. CASE i \in Creators \cup Verifiers /\ LoadSeal(i)
    BY <1>13 DEF LoadSeal
  <1>14. CASE i \in Creators \cup Verifiers /\ FirstParse(i)
    BY <1>14 DEF FirstParse
  <1>15. CASE i \in Creators \cup Verifiers /\ SecondParse(i)
    BY <1>15 DEF SecondParse, Derived, Artifact
  <1>16. CASE FindKey(i)
    BY <1>16 DEF FindKey
  <1>17. CASE AddKey(i)
    BY <1>17 DEF AddKey
  <1>18. CASE CompareMac(i)
    BY <1>18 DEF CompareMac
  <1>19. CASE Kill(i)
    BY <1>19 DEF Kill
  <1>20. CASE i \in Sealers /\ ReadRelease(i)
    BY <1>20 DEF ReadRelease
  <1>21. CASE i \in Sealers /\ HashComponents(i)
    BY <1>21 DEF HashComponents
  <1>22. CASE i \in Sealers /\ EmptySeal(i)
    BY <1>22 DEF EmptySeal
  <1>23. CASE i \in Sealers /\ EmptySignature(i)
    BY <1>23 DEF EmptySignature
  <1>24. CASE i \in Sealers /\ WriteSignature(i)
    BY <1>24 DEF WriteSignature
  <1> QED
    BY <1>20, <1>21, <1>22, <1>23, <1>24, <1>2, <1>3, <1>4, <1>5, <1>6, <1>7, <1>8, <1>9, <1>10, <1>11, <1>12, <1>13, <1>14, <1>15, <1>16, <1>17, <1>18, <1>19 DEF Acts, Seal, Create, Verify, Derive

LEMMA MacTyped ==
    ASSUME TypeInv, NEW k \in 0 .. keys
    PROVE  /\ Mac(k, seal) \in SealMacs \cup {None}
           /\ \A a \in Artifacts \cup {None} : Mac(k, a) \in ArtifactMacs \cup {None}
  BY DEF Mac, SealMacs, ArtifactMacs, TypeInv

\* What a command's step writes outside of its variables.
LEMMA WorldTyped ==
    ASSUME TypeInv, NEW i \in Commands, Acts(i)
    PROVE  /\ key' \in 0 .. keys' \cup {None} /\ seal' \in Seals' \cup {Unfinished, None}
           /\ sealSig' \in SealMacs' \cup {None} /\ sig' \in ArtifactMacs' \cup {None}
           /\ file' \in Artifacts' \cup {None}
  <1>1. /\ raw' = raw /\ release' = release /\ keys' \in Nat /\ keys <= keys'
        /\ seals' \in Nat /\ seals <= seals'
    BY OthersWait
  <1>2. /\ Artifacts \subseteq Artifacts' /\ Seals \subseteq Seals'
        /\ SealMacs \subseteq SealMacs' /\ ArtifactMacs \subseteq ArtifactMacs'
    BY <1>1, Grows DEF TypeInv
  <1>3. /\ key \in 0 .. keys \cup {None} /\ seal \in Seals \cup {Unfinished, None}
        /\ sealSig \in SealMacs \cup {None} /\ sig \in ArtifactMacs \cup {None}
        /\ file \in Artifacts \cup {None} /\ release \in Nat /\ keys \in Nat
        /\ local[i] \in Locals /\ Ready(i) /\ Signs(i)
    BY DEF TypeInv
  <1>4. /\ local[i].key \in 0 .. keys \cup {None} /\ local[i].artifact \in Artifacts \cup {None}
    BY <1>3 DEF Locals
  <1> DEFINE Old ==
          /\ key' \in 0 .. keys \cup {None} /\ seal' \in Seals \cup {Unfinished, None}
          /\ sealSig' \in SealMacs \cup {None} /\ sig' \in ArtifactMacs \cup {None}
          /\ file' \in Artifacts \cup {None}
  <1>5. CASE i \in Sealers /\ WriteSeal(i)
    <2>1. /\ seals' = seals + 1 /\ seals \in Nat
          /\ seal' \in {Unfinished, [made |-> seals + 1, commit |-> local[i].version, hashed |-> local[i].hashed]}
          /\ pc[i] = "writeSeal"
      BY <1>5 DEF WriteSeal, TypeInv
    <2>2. local[i].version \in 0 .. release /\ local[i].hashed \in 0 .. release
      BY <1>3, <2>1 DEF Ready, Locals
    <2>3. seal' \in Seals' \cup {Unfinished}
      BY <1>1, <2>1, <2>2 DEF Seals
    <2>4. key' = key /\ sealSig' = sealSig /\ sig' = sig /\ file' = file
      BY <1>5 DEF WriteSeal, keychain, published
    <2> QED
      BY <1>1, <1>2, <1>3, <2>3, <2>4
  <1>6. ASSUME ~(i \in Sealers /\ WriteSeal(i))
        PROVE  Old \/ (AddKey(i) /\ key' = local[i].key /\ UNCHANGED <<keys, sealed, published>>)
    <2> USE <1>3, <1>4, <1>6 DEF Goto, Stay, GoesThrough, Fails, Private, world, keychain, sealed, published, counters
    <2>1. CASE i \in Sealers /\ (ReadRelease(i) \/ HashComponents(i) \/ SignSeal(i) \/ CheckSeal(i))
      BY <2>1 DEF ReadRelease, HashComponents, SignSeal, CheckSeal, CallVerify
    <2>2. CASE i \in Sealers /\ (EmptySeal(i) \/ EmptySignature(i))
      BY <2>2 DEF EmptySeal, EmptySignature
    <2>3. CASE i \in Sealers /\ WriteSignature(i)
      BY <2>3 DEF WriteSignature, Signs
    <2>4. CASE i \in Creators /\ (CheckOutput(i) \/ SignArtifact(i))
      BY <2>4 DEF CheckOutput, SignArtifact, CallVerify
    <2>5. CASE i \in Creators /\ (MoveArtifact(i) \/ MoveSignature(i))
      BY <2>5 DEF MoveArtifact, MoveSignature, Signs
    <2>6. CASE i \in Verifiers /\ Verify(i)
      BY <2>6 DEF Verify, BeginVerify, ReadBindings, Compare, CallVerify
    <2>7. CASE i \in Creators \cup Verifiers /\ (OpenRaw(i) \/ LoadSeal(i) \/ FirstParse(i))
      BY <2>7 DEF OpenRaw, LoadSeal, FirstParse
    <2>8. CASE i \in Creators \cup Verifiers /\ SecondParse(i)
      BY <2>8 DEF SecondParse, Derived
    <2>9. CASE FindKey(i)
      BY <2>9 DEF FindKey
    <2>10. CASE AddKey(i)
      BY <2>10 DEF AddKey
    <2>11. CASE CompareMac(i) \/ Kill(i)
      BY <2>11 DEF CompareMac, Kill
    <2> QED
      BY <2>1, <2>2, <2>3, <2>4, <2>5, <2>6, <2>7, <2>8, <2>9, <2>10, <2>11 DEF Acts, Seal, Create, Derive
  <1>7. CASE Old
    BY <1>1, <1>2, <1>3, <1>7
  <1>8. CASE AddKey(i) /\ key' = local[i].key /\ UNCHANGED <<keys, sealed, published>>
    <2>1. local[i].key \in 0 .. keys
      BY <1>3, <1>4, <1>8 DEF AddKey, Ready
    <2> QED
      BY <1>1, <1>2, <1>3, <1>8, <2>1 DEF sealed, published
  <1> QED
    BY <1>5, <1>6, <1>7, <1>8

\* The seal is of the release that is installed.
Sealed == seal # None /\ seal.commit = release /\ seal.hashed = release

\* What each action makes of the variables of its command.
LEMMA Shapes ==
    ASSUME local \in [Commands -> Locals], NEW i \in Commands
    PROVE  /\ WriteSeal(i) => local'[i] = AfterCall(local[i], "seal", "sign", None)
           /\ CheckSeal(i) => local'[i] = AfterCall(local[i], "seal", "verify", sealSig)
           /\ BeginVerify(i) => local'[i] = AfterCall(local[i], "artifact", "verify", sig)
           /\ CheckOutput(i) \/ ReadBindings(i) =>
                 \/ local'[i] = local[i] /\ pc' = [pc EXCEPT ![i] = "refused"]
                 \/ /\ local'[i] = AfterCall(local[i], "seal", "verify", sealSig)
                    /\ pc' = [pc EXCEPT ![i] = "find"]
           /\ FindKey(i) =>
                 \/ /\ key # None /\ local'[i] = WithKey(local[i], key)
                    /\ pc' = [pc EXCEPT ![i] = "mac"] /\ keys' = keys /\ failures' = failures
                 \/ /\ keys' = keys + 1 /\ local'[i] = WithKey(local[i], keys + 1)
                    /\ pc' = [pc EXCEPT ![i] = "add"]
           /\ SignArtifact(i) => \/ local'[i] = WithMac(local[i], Mac(local[i].key, local[i].artifact))
                                 \/ local'[i] = WithMac(local[i], None) /\ failures' = failures + 1
           /\ OpenRaw(i) => local'[i] = WithOpened(local[i], raw)
           /\ ReadRelease(i) => local'[i] = WithVersion(local[i], release)
           /\ HashComponents(i) => local'[i] = WithHashed(local[i], release)
           /\ SignSeal(i) => local'[i] \in {local[i], WithMac(local[i], Mac(local[i].key, seal))}
           /\ LoadSeal(i) => \/ local'[i] = local[i] /\ pc' = [pc EXCEPT ![i] = "refused"]
                             \/ /\ Sealed /\ local'[i] = WithSealed(local[i], seal)
                                /\ pc' = [pc EXCEPT ![i] = "first"]
           /\ FirstParse(i) => \/ local'[i] = local[i] /\ pc' = [pc EXCEPT ![i] = "refused"]
                               \/ /\ raw = local[i].opened /\ local'[i] = WithVersion(local[i], release)
                                  /\ pc' = [pc EXCEPT ![i] = "second"]
           /\ SecondParse(i) =>
                 \/ local'[i] = local[i] /\ pc' = [pc EXCEPT ![i] = "refused"]
                 \/ /\ raw = local[i].opened /\ i \in Creators
                    /\ local'[i] = WithNew(local[i], Artifact(i)) /\ pc' = [pc EXCEPT ![i] = "find"]
                 \/ /\ raw = local[i].opened /\ i \notin Creators
                    /\ local'[i] = WithArtifact(local[i], Artifact(i))
                    /\ pc' = [pc EXCEPT ![i] = "compare"]
           /\ EmptySeal(i) \/ EmptySignature(i) \/ WriteSignature(i) \/ MoveArtifact(i) \/ MoveSignature(i)
                 \/ Compare(i) \/ AddKey(i) \/ CompareMac(i) \/ Kill(i) => local'[i] = local[i]
  <1>1. WriteSeal(i) => local'[i] = AfterCall(local[i], "seal", "sign", None)
    <2>1. WriteSeal(i) => Call(i, "seal", "sign", None)
      BY DEF WriteSeal
    <2> QED
      BY <2>1, Called
  <1>2. CheckSeal(i) => local'[i] = AfterCall(local[i], "seal", "verify", sealSig)
    <2>1. CheckSeal(i) => Call(i, "seal", "verify", sealSig)
      BY DEF CheckSeal, CallVerify, Signature
    <2> QED
      BY <2>1, Called
  <1>3. BeginVerify(i) => local'[i] = AfterCall(local[i], "artifact", "verify", sig)
    BY VerificationBegun, Called
  <1>4. ASSUME CheckOutput(i) \/ ReadBindings(i)
        PROVE  \/ local'[i] = local[i] /\ pc' = [pc EXCEPT ![i] = "refused"]
               \/ /\ local'[i] = AfterCall(local[i], "seal", "verify", sealSig)
                  /\ pc' = [pc EXCEPT ![i] = "find"]
    <2>1. CASE local' = local /\ Goto(i, "refused")
      BY <2>1 DEF Goto
    <2>2. CASE Call(i, "seal", "verify", sealSig)
      BY <2>2, Called
    <2> QED
      BY <1>4, <2>1, <2>2 DEF CheckOutput, ReadBindings, CallVerify, Signature, Stay
  <1>5. ASSUME FindKey(i)
        PROVE  \/ /\ key # None /\ local'[i] = WithKey(local[i], key)
                  /\ pc' = [pc EXCEPT ![i] = "mac"] /\ keys' = keys /\ failures' = failures
               \/ /\ keys' = keys + 1 /\ local'[i] = WithKey(local[i], keys + 1)
                  /\ pc' = [pc EXCEPT ![i] = "add"]
    <2>1. CASE key # None /\ local' = [local EXCEPT ![i].key = key] /\ Goto(i, "mac") /\ GoesThrough /\ keys' = keys
      <3>1. local'[i] = WithKey(local[i], key)
        BY <2>1 DEF WithKey
      <3> QED
        BY <2>1, <3>1 DEF Goto, GoesThrough, counters
    <2>2. CASE keys' = keys + 1 /\ local' = [local EXCEPT ![i].key = keys + 1] /\ Goto(i, "add")
      <3>1. local'[i] = WithKey(local[i], keys + 1)
        BY <2>2 DEF WithKey
      <3> QED
        BY <2>2, <3>1 DEF Goto
    <2> QED
      BY <1>5, <2>1, <2>2 DEF FindKey
  <1>6. ASSUME SignArtifact(i)
        PROVE  \/ local'[i] = WithMac(local[i], Mac(local[i].key, local[i].artifact))
               \/ local'[i] = WithMac(local[i], None) /\ failures' = failures + 1
    <2>1. CASE local' = [local EXCEPT ![i].mac = Mac(local[i].key, local[i].artifact)]
      BY <2>1 DEF WithMac
    <2>2. CASE local' = [local EXCEPT ![i].mac = None] /\ failures' = failures + 1
      BY <2>2 DEF WithMac
    <2> QED
      BY <1>6, <2>1, <2>2 DEF SignArtifact, Fails
  <1>7. OpenRaw(i) => local'[i] = WithOpened(local[i], raw)
    BY DEF OpenRaw, WithOpened
  <1>8. ASSUME LoadSeal(i)
        PROVE  \/ local'[i] = local[i] /\ pc' = [pc EXCEPT ![i] = "refused"]
               \/ /\ Sealed /\ local'[i] = WithSealed(local[i], seal)
                  /\ pc' = [pc EXCEPT ![i] = "first"]
    <2>1. CASE Sealed
      BY <1>8, <2>1 DEF Sealed, LoadSeal, WithSealed, Goto
    <2>2. CASE ~Sealed
      BY <1>8, <2>2 DEF Sealed, LoadSeal, Stay, Goto
    <2> QED
      BY <2>1, <2>2
  <1>9. ASSUME FirstParse(i)
        PROVE  \/ local'[i] = local[i] /\ pc' = [pc EXCEPT ![i] = "refused"]
               \/ /\ raw = local[i].opened /\ local'[i] = WithVersion(local[i], release)
                  /\ pc' = [pc EXCEPT ![i] = "second"]
    <2>1. CASE raw = local[i].opened
      BY <1>9, <2>1 DEF FirstParse, WithVersion, Goto
    <2>2. CASE raw # local[i].opened
      BY <1>9, <2>2 DEF FirstParse, Stay, Goto
    <2> QED
      BY <2>1, <2>2
  <1>10. ASSUME SecondParse(i)
         PROVE  \/ local'[i] = local[i] /\ pc' = [pc EXCEPT ![i] = "refused"]
                \/ /\ raw = local[i].opened /\ i \in Creators
                   /\ local'[i] = WithNew(local[i], Artifact(i)) /\ pc' = [pc EXCEPT ![i] = "find"]
                \/ /\ raw = local[i].opened /\ i \notin Creators
                   /\ local'[i] = WithArtifact(local[i], Artifact(i))
                   /\ pc' = [pc EXCEPT ![i] = "compare"]
    <2>1. CASE raw = local[i].opened /\ i \in Creators
      <3>1. /\ local' = [local EXCEPT ![i].artifact = Artifact(i), ![i].task = "sign", ![i].doc = "new"]
            /\ pc' = [pc EXCEPT ![i] = "find"]
        BY <1>10, <2>1 DEF SecondParse, Derived, Goto
      <3> QED
        BY <2>1, <3>1, NewArtifact
    <2>2. CASE raw = local[i].opened /\ i \notin Creators
      <3>1. /\ local' = [local EXCEPT ![i].artifact = Artifact(i)]
            /\ pc' = [pc EXCEPT ![i] = "compare"]
        BY <1>10, <2>2 DEF SecondParse, Derived, Goto
      <3>2. local'[i] = WithArtifact(local[i], Artifact(i))
        BY <3>1 DEF WithArtifact
      <3> QED
        BY <2>2, <3>1, <3>2
    <2>3. CASE raw # local[i].opened
      BY <1>10, <2>3 DEF SecondParse, Stay, Goto
    <2> QED
      BY <2>1, <2>2, <2>3
  <1>12. ReadRelease(i) => local'[i] = WithVersion(local[i], release)
    BY DEF ReadRelease, WithVersion
  <1>13. HashComponents(i) => local'[i] = WithHashed(local[i], release)
    BY DEF HashComponents, WithHashed
  <1>14. ASSUME SignSeal(i)
         PROVE  local'[i] \in {local[i], WithMac(local[i], Mac(local[i].key, seal))}
    <2>1. CASE local' = [local EXCEPT ![i].mac = Mac(local[i].key, seal)]
      BY <2>1 DEF WithMac
    <2> QED
      BY <1>14, <2>1 DEF SignSeal, Stay
  <1>11. EmptySeal(i) \/ EmptySignature(i) \/ WriteSignature(i) \/ MoveArtifact(i) \/ MoveSignature(i)
           \/ Compare(i) \/ AddKey(i) \/ CompareMac(i) \/ Kill(i) => local'[i] = local[i]
    BY DEF EmptySeal, EmptySignature, WriteSignature, MoveArtifact, MoveSignature, Compare, AddKey, CompareMac, Kill, Stay
  <1> QED
    BY <1>1, <1>2, <1>3, <1>4, <1>5, <1>6, <1>7, <1>8, <1>9, <1>10, <1>11, <1>12, <1>13, <1>14

\* One lemma for each way a command writes its variables.
LEMMA CallTyped ==
    ASSUME NEW r \in Locals', NEW d \in {None, "seal", "artifact", "new"},
           NEW t \in {None, "sign", "verify"}, NEW e \in SealMacs' \cup ArtifactMacs' \cup {None}
    PROVE  AfterCall(r, d, t, e) \in Locals'
  <1> DEFINE L(E, K, O, S, V, A, M) ==
          [doc : {None, "seal", "artifact", "new"}, task : {None, "sign", "verify"}, expected : E, key : K,
           opened : O, sealed : S, version : V, hashed : V, artifact : A, mac : M]
  <1>1. ASSUME NEW E, NEW K, NEW O, NEW S, NEW V, NEW A, NEW M, NEW q \in L(E, K, O, S, V, A, M), NEW f \in E
        PROVE  AfterCall(q, d, t, f) \in L(E, K, O, S, V, A, M)
    BY DEF AfterCall
  <1>2. Locals' = L(SealMacs' \cup ArtifactMacs' \cup {None}, 0 .. keys' \cup {None}, 0 .. raw' \cup {None},
                    Seals' \cup {None}, 0 .. release' \cup {None}, Artifacts' \cup {None},
                    SealMacs' \cup ArtifactMacs' \cup {None})
    BY DEF Locals
  <1> HIDE DEF L
  <1> QED
    BY <1>1, <1>2

LEMMA KeyTyped ==
    ASSUME NEW r \in Locals', NEW k \in 0 .. keys' \cup {None}
    PROVE  WithKey(r, k) \in Locals'
  BY DEF Locals, WithKey

LEMMA OpenedTyped ==
    ASSUME NEW r \in Locals', NEW x \in 0 .. raw' \cup {None}
    PROVE  WithOpened(r, x) \in Locals'
  BY DEF Locals, WithOpened

LEMMA SealedTyped ==
    ASSUME NEW r \in Locals', NEW x \in Seals' \cup {None}
    PROVE  WithSealed(r, x) \in Locals'
  BY DEF Locals, WithSealed

LEMMA ReleaseTyped ==
    ASSUME NEW r \in Locals', NEW x \in 0 .. release' \cup {None}
    PROVE  WithVersion(r, x) \in Locals' /\ WithHashed(r, x) \in Locals'
  BY DEF Locals, WithVersion, WithHashed

LEMMA ArtifactTyped ==
    ASSUME NEW r \in Locals', NEW a \in Artifacts' \cup {None}
    PROVE  /\ WithArtifact(r, a) \in Locals'
           /\ WithNew(r, a) \in Locals'
  <1>1. WithArtifact(r, a) \in Locals'
    BY DEF Locals, WithArtifact
  <1>2. WithNew(r, a) \in Locals'
    BY DEF Locals, WithNew
  <1> QED
    BY <1>1, <1>2

LEMMA SignatureTyped ==
    ASSUME NEW r \in Locals', NEW m \in SealMacs' \cup ArtifactMacs' \cup {None}
    PROVE  WithMac(r, m) \in Locals'
  BY DEF Locals, WithMac

\* What it writes into its own variables.
LEMMA LocalTyped ==
    ASSUME TypeInv, NEW i \in Commands, Acts(i)
    PROVE  local'[i] \in Locals'
  <1>1. /\ raw' = raw /\ release' = release /\ keys' \in Nat /\ keys <= keys'
        /\ seals' \in Nat /\ seals <= seals'
    BY OthersWait
  <1>2. /\ local[i] \in Locals' /\ SealMacs \subseteq SealMacs' /\ ArtifactMacs \subseteq ArtifactMacs'
        /\ Artifacts \subseteq Artifacts' /\ Seals \subseteq Seals'
    BY <1>1, Grows DEF TypeInv
  <1>3. local \in [Commands -> Locals]
    BY DEF TypeInv
  <1>4. /\ sealSig \in SealMacs' \cup ArtifactMacs' \cup {None}
        /\ sig \in SealMacs' \cup ArtifactMacs' \cup {None}
    BY <1>2 DEF TypeInv
  <1>5. raw \in 0 .. raw' \cup {None} /\ release \in 0 .. release' \cup {None}
    BY <1>1 DEF TypeInv
  <1>6. /\ AfterCall(local[i], "seal", "sign", None) \in Locals'
        /\ AfterCall(local[i], "seal", "verify", sealSig) \in Locals'
        /\ AfterCall(local[i], "artifact", "verify", sig) \in Locals'
    BY <1>2, <1>4, CallTyped
  <1>7. /\ WithOpened(local[i], raw) \in Locals'
        /\ WithVersion(local[i], release) \in Locals' /\ WithHashed(local[i], release) \in Locals'
    BY <1>2, <1>5, OpenedTyped, ReleaseTyped
  <1>8. CASE i \in Sealers /\ WriteSeal(i)
    BY <1>8, <1>3, <1>6, Shapes
  <1>9. CASE i \in Sealers /\ SignSeal(i)
    <2>1. Mac(local[i].key, seal) \in SealMacs \cup {None}
      BY <1>3, <1>9, MacTyped DEF SignSeal, TypeInv, Ready, Locals
    <2> QED
      BY <1>9, <1>2, <1>3, <2>1, Shapes, SignatureTyped
  <1>10. CASE i \in Sealers /\ CheckSeal(i)
    BY <1>10, <1>3, <1>6, Shapes
  <1>11. CASE i \in Creators /\ CheckOutput(i)
    BY <1>11, <1>2, <1>3, <1>6, Shapes
  <1>12. CASE i \in Creators /\ SignArtifact(i)
    <2>1. local[i].key \in 0 .. keys /\ local[i].artifact \in Artifacts \cup {None}
      BY <1>12 DEF SignArtifact, TypeInv, Ready, Locals
    <2>2. Mac(local[i].key, local[i].artifact) \in ArtifactMacs \cup {None}
      BY <2>1, MacTyped
    <2> QED
      BY <1>12, <1>2, <1>3, <2>2, Shapes, SignatureTyped
  <1>13. CASE i \in Creators /\ MoveArtifact(i)
    BY <1>13, <1>2, <1>3, Shapes
  <1>14. CASE i \in Creators /\ MoveSignature(i)
    BY <1>14, <1>2, <1>3, Shapes
  <1>15. CASE i \in Verifiers /\ BeginVerify(i)
    BY <1>15, <1>3, <1>6, Shapes
  <1>16. CASE i \in Verifiers /\ ReadBindings(i)
    BY <1>16, <1>2, <1>3, <1>6, Shapes
  <1>17. CASE i \in Verifiers /\ Compare(i)
    BY <1>17, <1>2, <1>3, Shapes
  <1>18. CASE i \in Creators \cup Verifiers /\ OpenRaw(i)
    BY <1>18, <1>3, <1>7, Shapes
  <1>19. CASE i \in Creators \cup Verifiers /\ LoadSeal(i)
    <2>1. Sealed => seal \in Seals
      BY CommandAssumption DEF Sealed, Unfinished, TypeInv
    <2> QED
      BY <1>19, <1>2, <1>3, <2>1, Shapes, SealedTyped
  <1>20. CASE i \in Creators \cup Verifiers /\ FirstParse(i)
    BY <1>20, <1>2, <1>3, <1>7, Shapes
  <1>21. CASE i \in Creators \cup Verifiers /\ SecondParse(i)
    <2>1. pc[i] = "second" /\ local[i] \in Locals /\ Ready(i) /\ raw \in Nat /\ release \in Nat
      BY <1>21 DEF SecondParse, TypeInv
    <2>2. raw = local[i].opened => Artifact(i) \in Artifacts' \cup {None}
      BY <1>2, <2>1 DEF Ready, Locals, Artifact, Artifacts
    <2> QED
      BY <1>21, <1>2, <1>3, <2>2, Shapes, ArtifactTyped
  <1>22. CASE FindKey(i)
    <2>1. key \in 0 .. keys \cup {None} /\ keys \in Nat
      BY DEF TypeInv
    <2>2. CASE key # None /\ local'[i] = WithKey(local[i], key)
      <3>1. key \in 0 .. keys' \cup {None}
        BY <1>1, <2>1
      <3> QED
        BY <1>2, <2>2, <3>1, KeyTyped
    <2>3. CASE keys' = keys + 1 /\ local'[i] = WithKey(local[i], keys + 1)
      <3>1. keys + 1 \in 0 .. keys' \cup {None}
        BY <2>1, <2>3
      <3> QED
        BY <1>2, <2>3, <3>1, KeyTyped
    <2> QED
      BY <1>22, <1>3, <2>2, <2>3, Shapes
  <1>23. CASE AddKey(i)
    BY <1>23, <1>2, <1>3, Shapes
  <1>24. CASE CompareMac(i)
    BY <1>24, <1>2, <1>3, Shapes
  <1>25. CASE Kill(i)
    BY <1>25, <1>2, <1>3, Shapes
  <1>26. CASE i \in Sealers /\ (ReadRelease(i) \/ HashComponents(i))
    BY <1>26, <1>3, <1>7, Shapes
  <1>27. CASE i \in Sealers /\ (EmptySeal(i) \/ EmptySignature(i) \/ WriteSignature(i))
    BY <1>27, <1>2, <1>3, Shapes
  <1> QED
    BY <1>26, <1>27, <1>8, <1>9, <1>10, <1>11, <1>12, <1>13, <1>14, <1>15, <1>16, <1>17, <1>18, <1>19, <1>20, <1>21, <1>22, <1>23, <1>24, <1>25 DEF Acts, Seal, Create, Verify, Derive
-----------------------------------------------------------------------------
(* Who writes what, and what leads where.                                   *)

\* The records agree on the fields that say what the library is called for,
\* and on those of the derivation.
SameCall(r, s) == r.doc = s.doc /\ r.task = s.task /\ r.expected = s.expected
SameInput(r, s) == r.opened = s.opened /\ r.sealed = s.sealed /\ r.version = s.version /\ r.hashed = s.hashed
SameResult(r, s) == r.artifact = s.artifact /\ r.key = s.key /\ r.mac = s.mac

\* Every change leaves the other fields alone.
LEMMA Updates ==
    ASSUME NEW r \in Locals, NEW d, NEW t, NEW e, NEW x
    PROVE  /\ AfterCall(r, d, t, e).doc = d /\ AfterCall(r, d, t, e).task = t
           /\ AfterCall(r, d, t, e).expected = e /\ SameInput(AfterCall(r, d, t, e), r)
           /\ SameResult(AfterCall(r, d, t, e), r)
           /\ WithKey(r, x).key = x /\ SameCall(WithKey(r, x), r) /\ SameInput(WithKey(r, x), r)
           /\ WithKey(r, x).artifact = r.artifact /\ WithKey(r, x).mac = r.mac
           /\ WithOpened(r, x).opened = x /\ SameCall(WithOpened(r, x), r)
           /\ WithOpened(r, x).sealed = r.sealed /\ WithOpened(r, x).version = r.version
           /\ WithOpened(r, x).hashed = r.hashed
           /\ SameResult(WithOpened(r, x), r)
           /\ WithSealed(r, x).sealed = x /\ SameCall(WithSealed(r, x), r)
           /\ WithSealed(r, x).opened = r.opened /\ WithSealed(r, x).version = r.version
           /\ WithSealed(r, x).hashed = r.hashed
           /\ SameResult(WithSealed(r, x), r)
           /\ WithVersion(r, x).version = x /\ SameCall(WithVersion(r, x), r)
           /\ WithVersion(r, x).opened = r.opened /\ WithVersion(r, x).sealed = r.sealed
           /\ WithVersion(r, x).hashed = r.hashed
           /\ SameResult(WithVersion(r, x), r)
           /\ WithArtifact(r, x).artifact = x /\ SameCall(WithArtifact(r, x), r)
           /\ SameInput(WithArtifact(r, x), r) /\ WithArtifact(r, x).key = r.key
           /\ WithArtifact(r, x).mac = r.mac
           /\ WithHashed(r, x).hashed = x /\ SameCall(WithHashed(r, x), r)
           /\ WithHashed(r, x).opened = r.opened /\ WithHashed(r, x).sealed = r.sealed
           /\ WithHashed(r, x).version = r.version /\ SameResult(WithHashed(r, x), r)
           /\ WithMac(r, x).mac = x /\ SameCall(WithMac(r, x), r) /\ SameInput(WithMac(r, x), r)
           /\ WithMac(r, x).artifact = r.artifact /\ WithMac(r, x).key = r.key
           /\ WithNew(r, x).artifact = x /\ WithNew(r, x).task = "sign" /\ WithNew(r, x).doc = "new"
           /\ WithNew(r, x).expected = r.expected /\ SameInput(WithNew(r, x), r)
           /\ WithNew(r, x).key = r.key /\ WithNew(r, x).mac = r.mac
  <1>1. /\ AfterCall(r, d, t, e).doc = d /\ AfterCall(r, d, t, e).task = t
       /\ AfterCall(r, d, t, e).expected = e /\ SameInput(AfterCall(r, d, t, e), r)
       /\ SameResult(AfterCall(r, d, t, e), r)
    BY DEF Locals, AfterCall, SameCall, SameInput, SameResult
  <1>2. /\ WithKey(r, x).key = x /\ SameCall(WithKey(r, x), r) /\ SameInput(WithKey(r, x), r)
       /\ WithKey(r, x).artifact = r.artifact /\ WithKey(r, x).mac = r.mac
    BY DEF Locals, WithKey, SameCall, SameInput, SameResult
  <1>3. /\ WithOpened(r, x).opened = x /\ SameCall(WithOpened(r, x), r)
       /\ WithOpened(r, x).sealed = r.sealed /\ WithOpened(r, x).version = r.version
       /\ WithOpened(r, x).hashed = r.hashed
       /\ SameResult(WithOpened(r, x), r)
    BY DEF Locals, WithOpened, SameCall, SameInput, SameResult
  <1>4. /\ WithSealed(r, x).sealed = x /\ SameCall(WithSealed(r, x), r)
       /\ WithSealed(r, x).opened = r.opened /\ WithSealed(r, x).version = r.version
       /\ WithSealed(r, x).hashed = r.hashed
       /\ SameResult(WithSealed(r, x), r)
    BY DEF Locals, WithSealed, SameCall, SameInput, SameResult
  <1>5. /\ WithVersion(r, x).version = x /\ SameCall(WithVersion(r, x), r)
       /\ WithVersion(r, x).opened = r.opened /\ WithVersion(r, x).sealed = r.sealed
       /\ WithVersion(r, x).hashed = r.hashed
       /\ SameResult(WithVersion(r, x), r)
    BY DEF Locals, WithVersion, SameCall, SameInput, SameResult
  <1>6. /\ WithArtifact(r, x).artifact = x /\ SameCall(WithArtifact(r, x), r)
       /\ SameInput(WithArtifact(r, x), r) /\ WithArtifact(r, x).key = r.key
       /\ WithArtifact(r, x).mac = r.mac
    BY DEF Locals, WithArtifact, SameCall, SameInput, SameResult
  <1>7. /\ WithMac(r, x).mac = x /\ SameCall(WithMac(r, x), r) /\ SameInput(WithMac(r, x), r)
       /\ WithMac(r, x).artifact = r.artifact /\ WithMac(r, x).key = r.key
    BY DEF Locals, WithMac, SameCall, SameInput, SameResult
  <1>8. /\ WithNew(r, x).artifact = x /\ WithNew(r, x).task = "sign" /\ WithNew(r, x).doc = "new"
       /\ WithNew(r, x).expected = r.expected /\ SameInput(WithNew(r, x), r)
       /\ WithNew(r, x).key = r.key /\ WithNew(r, x).mac = r.mac
    BY DEF Locals, WithNew, SameCall, SameInput, SameResult
  <1>9. /\ WithHashed(r, x).hashed = x /\ SameCall(WithHashed(r, x), r)
       /\ WithHashed(r, x).opened = r.opened /\ WithHashed(r, x).sealed = r.sealed
       /\ WithHashed(r, x).version = r.version /\ SameResult(WithHashed(r, x), r)
    BY DEF Locals, WithHashed, SameCall, SameInput, SameResult
  <1> QED
    BY <1>1, <1>2, <1>3, <1>4, <1>5, <1>6, <1>7, <1>8, <1>9

\* Each of a command's variables is written at one place.
LEMMA Writers ==
    ASSUME TypeInv, NEW i \in Commands, Acts(i)
    PROVE  /\ \/ local'[i].artifact = local[i].artifact
              \/ SecondParse(i) /\ raw = local[i].opened /\ local'[i].artifact = Artifact(i)
           /\ local'[i].opened = local[i].opened \/ (OpenRaw(i) /\ local'[i].opened = raw)
           /\ \/ local'[i].sealed = local[i].sealed
              \/ LoadSeal(i) /\ Sealed /\ local'[i].sealed = seal
           /\ \/ local'[i].version = local[i].version
              \/ FirstParse(i) /\ raw = local[i].opened /\ local'[i].version = release
              \/ i \in Sealers /\ ReadRelease(i) /\ local'[i].version = release
           /\ \/ local'[i].hashed = local[i].hashed
              \/ i \in Sealers /\ HashComponents(i) /\ local'[i].hashed = release
           /\ \/ local'[i].key = local[i].key
              \/ FindKey(i) /\ (local'[i].key = key \/ (keys' = keys + 1 /\ local'[i].key = keys'))
           /\ \/ local'[i].mac = local[i].mac
              \/ /\ SignArtifact(i)
                 /\ \/ local'[i].mac = Mac(local[i].key, local[i].artifact)
                    \/ local'[i].mac = None /\ failures' = failures + 1
              \/ i \in Sealers /\ SignSeal(i) /\ local'[i].mac = Mac(local[i].key, seal)
           /\ \/ SameCall(local'[i], local[i])
              \/ i \in Sealers /\ WriteSeal(i) /\ local'[i].doc = "seal" /\ local'[i].task = "sign"
              \/ /\ (i \in Sealers /\ CheckSeal(i)) \/ (i \in Creators /\ CheckOutput(i)) \/ (i \in Verifiers /\ ReadBindings(i))
                 /\ local'[i].doc = "seal" /\ local'[i].task = "verify" /\ local'[i].expected = sealSig
              \/ /\ i \in Verifiers /\ BeginVerify(i)
                 /\ local'[i].doc = "artifact" /\ local'[i].task = "verify" /\ local'[i].expected = sig
              \/ /\ i \in Creators /\ SecondParse(i) /\ raw = local[i].opened /\ local'[i].artifact = Artifact(i)
                 /\ local'[i].doc = "new" /\ local'[i].task = "sign"
  <1>1. local \in [Commands -> Locals] /\ local[i] \in Locals
    BY DEF TypeInv
  <1>2. CASE i \in Sealers /\ WriteSeal(i)
    BY <1>2, <1>1, Shapes, Updates DEF SameCall, SameInput, SameResult
  <1>3. CASE i \in Sealers /\ SignSeal(i)
    <2>1. CASE local'[i] = local[i]
      BY <1>3, <1>1, <2>1, Updates DEF SameCall, SameInput, SameResult
    <2>2. CASE local'[i] = WithMac(local[i], Mac(local[i].key, seal))
      BY <1>3, <1>1, <2>2, Updates DEF SameCall, SameInput, SameResult
    <2> QED
      BY <1>3, <1>1, <2>1, <2>2, Shapes
  <1>4. CASE i \in Sealers /\ CheckSeal(i)
    BY <1>4, <1>1, Shapes, Updates DEF SameCall, SameInput, SameResult
  <1>5. CASE i \in Creators /\ CheckOutput(i)
    <2>1. CASE local'[i] = local[i]
      BY <1>5, <1>1, <2>1, Updates DEF SameCall, SameInput, SameResult
    <2>2. CASE local'[i] = AfterCall(local[i], "seal", "verify", sealSig)
      BY <1>5, <1>1, <2>2, Updates DEF SameCall, SameInput, SameResult
    <2> QED
      BY <1>5, <1>1, <2>1, <2>2, Shapes
  <1>6. CASE i \in Creators /\ SignArtifact(i)
    <2>1. CASE local'[i] = WithMac(local[i], Mac(local[i].key, local[i].artifact))
      BY <1>6, <1>1, <2>1, Updates DEF SameCall, SameInput, SameResult
    <2>2. CASE local'[i] = WithMac(local[i], None) /\ failures' = failures + 1
      BY <1>6, <1>1, <2>2, Updates DEF SameCall, SameInput, SameResult
    <2> QED
      BY <1>6, <1>1, <2>1, <2>2, Shapes
  <1>7. CASE i \in Creators /\ MoveArtifact(i)
    BY <1>7, <1>1, Shapes, Updates DEF SameCall, SameInput, SameResult
  <1>8. CASE i \in Creators /\ MoveSignature(i)
    BY <1>8, <1>1, Shapes, Updates DEF SameCall, SameInput, SameResult
  <1>9. CASE i \in Verifiers /\ BeginVerify(i)
    BY <1>9, <1>1, Shapes, Updates DEF SameCall, SameInput, SameResult
  <1>10. CASE i \in Verifiers /\ ReadBindings(i)
    <2>1. CASE local'[i] = local[i]
      BY <1>10, <1>1, <2>1, Updates DEF SameCall, SameInput, SameResult
    <2>2. CASE local'[i] = AfterCall(local[i], "seal", "verify", sealSig)
      BY <1>10, <1>1, <2>2, Updates DEF SameCall, SameInput, SameResult
    <2> QED
      BY <1>10, <1>1, <2>1, <2>2, Shapes
  <1>11. CASE i \in Verifiers /\ Compare(i)
    BY <1>11, <1>1, Shapes, Updates DEF SameCall, SameInput, SameResult
  <1>12. CASE i \in Creators \cup Verifiers /\ OpenRaw(i)
    <2>1. local'[i] = WithOpened(local[i], raw)
      BY <1>12, <1>1, Shapes
    <2> QED
      BY <1>12, <1>1, <2>1, Updates DEF SameCall, SameInput, SameResult
  <1>13. CASE i \in Creators \cup Verifiers /\ LoadSeal(i)
    <2>1. CASE local'[i] = local[i]
      BY <1>13, <1>1, <2>1, Updates DEF SameCall, SameInput, SameResult
    <2>2. CASE Sealed /\ local'[i] = WithSealed(local[i], seal)
      BY <1>13, <1>1, <2>2, Updates DEF SameCall, SameInput, SameResult
    <2> QED
      BY <1>13, <1>1, <2>1, <2>2, Shapes
  <1>14. CASE i \in Creators \cup Verifiers /\ FirstParse(i)
    <2>1. CASE local'[i] = local[i]
      BY <1>14, <1>1, <2>1, Updates DEF SameCall, SameInput, SameResult
    <2>2. CASE raw = local[i].opened /\ local'[i] = WithVersion(local[i], release)
      BY <1>14, <1>1, <2>2, Updates DEF SameCall, SameInput, SameResult
    <2> QED
      BY <1>14, <1>1, <2>1, <2>2, Shapes
  <1>15. CASE i \in Creators \cup Verifiers /\ SecondParse(i)
    <2>1. CASE local'[i] = local[i]
      BY <1>15, <1>1, <2>1, Updates DEF SameCall, SameInput, SameResult
    <2>2. CASE raw = local[i].opened /\ i \in Creators /\ local'[i] = WithNew(local[i], Artifact(i))
      BY <1>15, <1>1, <2>2, Updates DEF SameCall, SameInput, SameResult
    <2>3. CASE raw = local[i].opened /\ local'[i] = WithArtifact(local[i], Artifact(i))
      BY <1>15, <1>1, <2>3, Updates DEF SameCall, SameInput, SameResult
    <2> QED
      BY <1>15, <1>1, <2>1, <2>2, <2>3, Shapes
  <1>16. CASE FindKey(i)
    <2>1. CASE local'[i] = WithKey(local[i], key)
      BY <1>16, <1>1, <2>1, Updates DEF SameCall, SameInput, SameResult
    <2>2. CASE keys' = keys + 1 /\ local'[i] = WithKey(local[i], keys + 1)
      BY <1>16, <1>1, <2>2, Updates DEF SameCall, SameInput, SameResult
    <2> QED
      BY <1>16, <1>1, <2>1, <2>2, Shapes
  <1>17. CASE AddKey(i)
    BY <1>17, <1>1, Shapes, Updates DEF SameCall, SameInput, SameResult
  <1>18. CASE CompareMac(i)
    BY <1>18, <1>1, Shapes, Updates DEF SameCall, SameInput, SameResult
  <1>19. CASE Kill(i)
    BY <1>19, <1>1, Shapes, Updates DEF SameCall, SameInput, SameResult
  <1>20. CASE i \in Sealers /\ ReadRelease(i)
    BY <1>20, <1>1, Shapes, Updates DEF SameCall, SameInput, SameResult
  <1>21. CASE i \in Sealers /\ HashComponents(i)
    BY <1>21, <1>1, Shapes, Updates DEF SameCall, SameInput, SameResult
  <1>22. CASE i \in Sealers /\ (EmptySeal(i) \/ EmptySignature(i) \/ WriteSignature(i))
    BY <1>22, <1>1, Shapes, Updates DEF SameCall, SameInput, SameResult
  <1> QED
    BY <1>20, <1>21, <1>22, <1>2, <1>3, <1>4, <1>5, <1>6, <1>7, <1>8, <1>9, <1>10, <1>11, <1>12, <1>13, <1>14, <1>15, <1>16, <1>17, <1>18, <1>19 DEF Acts, Seal, Create, Verify, Derive

\* The step that leads to a place.
LEMMA Arrives ==
    ASSUME TypeInv, NEW i \in Commands, Acts(i)
    PROVE  /\ pc'[i] \in Labels \ {"start"}
           /\ pc'[i] = "add" => FindKey(i) /\ keys' = keys + 1 /\ local'[i].key = keys'
           /\ pc'[i] = "mac" =>
                 \/ /\ FindKey(i) /\ key # None /\ local'[i].key = key
                    /\ keys' = keys /\ failures' = failures
                 \/ AddKey(i)
           /\ pc'[i] = "open" => CompareMac(i) /\ local[i].doc = "seal" /\ i \in Creators \cup Verifiers
           /\ pc'[i] = "bindings" => CompareMac(i) /\ local[i].doc # "seal" /\ i \in Creators \cup Verifiers
           /\ pc'[i] = "load" => OpenRaw(i) /\ local'[i].opened = raw /\ i \in Creators \cup Verifiers
           /\ pc'[i] = "first" =>
                 LoadSeal(i) /\ Sealed /\ local'[i].sealed = seal /\ i \in Creators \cup Verifiers
           /\ pc'[i] = "second" =>
                 /\ FirstParse(i) /\ raw = local[i].opened /\ local'[i].version = release
                 /\ i \in Creators \cup Verifiers
           /\ pc'[i] = "compare" =>
                 /\ SecondParse(i) /\ raw = local[i].opened /\ local'[i].artifact = Artifact(i)
                 /\ i \in Verifiers
           /\ pc'[i] = "moveArtifact" => i \in Creators /\ SignArtifact(i)
           /\ pc'[i] = "moveSignature" => i \in Creators /\ MoveArtifact(i)
           /\ pc'[i] = "created" => i \in Creators /\ MoveSignature(i)
           /\ pc'[i] = "verified" => i \in Verifiers /\ Compare(i) /\ file = local[i].artifact
           /\ pc'[i] = "killed" => Kill(i)
           /\ pc'[i] = "hash" => i \in Sealers /\ ReadRelease(i) /\ local'[i].version = release
           /\ pc'[i] = "emptySeal" => i \in Sealers /\ HashComponents(i) /\ local'[i].hashed = release
           /\ pc'[i] = "writeSeal" => i \in Sealers /\ EmptySeal(i)
  <1>1. local \in [Commands -> Locals] /\ local[i] \in Locals /\ pc \in [Commands -> Labels]
    BY DEF TypeInv
  <1> USE DEF Labels, Ended, Goto
  <1>2. CASE i \in Sealers /\ WriteSeal(i)
    BY <1>2, <1>1 DEF WriteSeal, Call
  <1>3. CASE i \in Sealers /\ SignSeal(i)
    BY <1>3, <1>1 DEF SignSeal
  <1>4. CASE i \in Sealers /\ CheckSeal(i)
    BY <1>4, <1>1 DEF CheckSeal, CallVerify, Call
  <1>5. CASE i \in Creators /\ CheckOutput(i)
    BY <1>5, <1>1 DEF CheckOutput, CallVerify, Call
  <1>6. CASE i \in Creators /\ SignArtifact(i)
    BY <1>6, <1>1 DEF SignArtifact
  <1>7. CASE i \in Creators /\ MoveArtifact(i)
    BY <1>7, <1>1 DEF MoveArtifact
  <1>8. CASE i \in Creators /\ MoveSignature(i)
    BY <1>8, <1>1 DEF MoveSignature
  <1>9. CASE i \in Verifiers /\ BeginVerify(i)
    BY <1>9, <1>1 DEF BeginVerify, CallVerify, Call
  <1>10. CASE i \in Verifiers /\ ReadBindings(i)
    BY <1>10, <1>1 DEF ReadBindings, CallVerify, Call
  <1>11. CASE i \in Verifiers /\ Compare(i)
    BY <1>11, <1>1 DEF Compare
  <1>12. CASE i \in Creators \cup Verifiers /\ OpenRaw(i)
    <2>1. local'[i] = WithOpened(local[i], raw) /\ pc' = [pc EXCEPT ![i] = "load"]
      BY <1>12, <1>1, Shapes DEF OpenRaw
    <2>2. local'[i].opened = raw
      BY <1>1, <2>1, Updates
    <2> QED
      BY <1>12, <1>1, <2>1, <2>2
  <1>13. CASE i \in Creators \cup Verifiers /\ LoadSeal(i)
    <2>1. CASE pc' = [pc EXCEPT ![i] = "refused"]
      BY <1>1, <2>1
    <2>2. CASE Sealed /\ local'[i] = WithSealed(local[i], seal) /\ pc' = [pc EXCEPT ![i] = "first"]
      <3>1. local'[i].sealed = seal
        BY <1>1, <2>2, Updates
      <3> QED
        BY <1>13, <1>1, <2>2, <3>1
    <2> QED
      BY <1>13, <1>1, <2>1, <2>2, Shapes
  <1>14. CASE i \in Creators \cup Verifiers /\ FirstParse(i)
    <2>1. CASE pc' = [pc EXCEPT ![i] = "refused"]
      BY <1>1, <2>1
    <2>2. CASE raw = local[i].opened /\ local'[i] = WithVersion(local[i], release) /\ pc' = [pc EXCEPT ![i] = "second"]
      <3>1. local'[i].version = release
        BY <1>1, <2>2, Updates
      <3> QED
        BY <1>14, <1>1, <2>2, <3>1
    <2> QED
      BY <1>14, <1>1, <2>1, <2>2, Shapes
  <1>15. CASE i \in Creators \cup Verifiers /\ SecondParse(i)
    <2>1. CASE pc' = [pc EXCEPT ![i] = "refused"] \/ pc' = [pc EXCEPT ![i] = "find"]
      BY <1>1, <2>1
    <2>2. CASE /\ raw = local[i].opened /\ i \notin Creators
               /\ local'[i] = WithArtifact(local[i], Artifact(i)) /\ pc' = [pc EXCEPT ![i] = "compare"]
      <3>1. local'[i].artifact = Artifact(i)
        BY <1>1, <2>2, Updates
      <3> QED
        BY <1>15, <1>1, <2>2, <3>1
    <2> QED
      BY <1>15, <1>1, <2>1, <2>2, Shapes
  <1>16. CASE FindKey(i)
    <2>1. CASE /\ key # None /\ local'[i] = WithKey(local[i], key)
               /\ pc' = [pc EXCEPT ![i] = "mac"] /\ keys' = keys /\ failures' = failures
      <3>1. local'[i].key = key
        BY <1>1, <2>1, Updates
      <3> QED
        BY <1>16, <1>1, <2>1, <3>1
    <2>2. CASE /\ keys' = keys + 1 /\ local'[i] = WithKey(local[i], keys + 1)
               /\ pc' = [pc EXCEPT ![i] = "add"]
      <3>1. local'[i].key = keys + 1
        BY <1>1, <2>2, Updates
      <3> QED
        BY <1>16, <1>1, <2>2, <3>1
    <2> QED
      BY <1>16, <1>1, <2>1, <2>2, Shapes
  <1>17. CASE AddKey(i)
    BY <1>17, <1>1 DEF AddKey
  <1>18. CASE CompareMac(i)
    <2>1. i \in Sealers \/ i \in Creators \cup Verifiers
      BY DEF Commands
    <2>2. \E label \in {"refused", "sealed", "open", "bindings"} :
            /\ pc' = [pc EXCEPT ![i] = label]
            /\ label = "open" => local[i].doc = "seal" /\ i \notin Sealers
            /\ label = "bindings" => local[i].doc # "seal" /\ i \notin Sealers
      BY <1>18 DEF CompareMac, Accepted
    <2> QED
      BY <1>18, <1>1, <2>1, <2>2
  <1>19. CASE Kill(i)
    BY <1>19, <1>1 DEF Kill
  <1>20. CASE i \in Sealers /\ ReadRelease(i)
    <2>1. local'[i] = WithVersion(local[i], release) /\ pc' = [pc EXCEPT ![i] = "hash"]
      BY <1>20, <1>1, Shapes DEF ReadRelease
    <2>2. local'[i].version = release
      BY <1>1, <2>1, Updates
    <2> QED
      BY <1>20, <1>1, <2>1, <2>2
  <1>21. CASE i \in Sealers /\ HashComponents(i)
    <2>1. local'[i] = WithHashed(local[i], release) /\ pc' = [pc EXCEPT ![i] = "emptySeal"]
      BY <1>21, <1>1, Shapes DEF HashComponents
    <2>2. local'[i].hashed = release
      BY <1>1, <2>1, Updates
    <2> QED
      BY <1>21, <1>1, <2>1, <2>2
  <1>22. CASE i \in Sealers /\ EmptySeal(i)
    BY <1>22, <1>1 DEF EmptySeal
  <1>23. CASE i \in Sealers /\ EmptySignature(i)
    BY <1>23, <1>1 DEF EmptySignature
  <1>24. CASE i \in Sealers /\ WriteSignature(i)
    BY <1>24, <1>1 DEF WriteSignature
  <1> QED
    BY <1>20, <1>21, <1>22, <1>23, <1>24, <1>2, <1>3, <1>4, <1>5, <1>6, <1>7, <1>8, <1>9, <1>10, <1>11, <1>12, <1>13, <1>14, <1>15, <1>16, <1>17, <1>18, <1>19 DEF Acts, Seal, Create, Verify, Derive

\* A command has read what it needs, at every place.
LEMMA ReadyKept ==
    ASSUME TypeInv, NEW i \in Commands, Acts(i)
    PROVE  \A j \in Commands : Ready(j)' /\ Signs(j)'
  <1>1. \A j \in Commands : Ready(j)
    BY DEF TypeInv
  <1>2. pc' = [pc EXCEPT ![i] = pc'[i]] /\ local' = [local EXCEPT ![i] = local'[i]]
    BY OthersWait, LocalOwn
  <1>3. /\ local[i] \in Locals /\ local'[i] \in Locals' /\ keys \in Nat /\ raw \in Nat /\ release \in Nat
        /\ Signs(i)
        /\ local \in [Commands -> Locals] /\ pc \in [Commands -> Labels]
    BY LocalTyped DEF TypeInv
  <1>4. None \notin Nat /\ \A n \in Nat : n # None
    BY CommandAssumption
  <1>5. \A j \in Commands \ {i} : pc'[j] = pc[j] /\ local'[j] = local[j]
    BY <1>2, <1>3
  <1>6. ASSUME NEW j \in Commands, j # i
        PROVE  Ready(j)'
    BY <1>1, <1>5, <1>6 DEF Ready
  <1>7. pc'[i] \in {"add", "mac"} => local'[i].key # None
    <2>1. pc'[i] = "add" => local'[i].key # None
      BY <1>3, <1>4, Arrives
    <2>2. AddKey(i) => pc[i] = "add" /\ local'[i] = local[i]
      BY <1>3, Shapes DEF AddKey
    <2>3. pc'[i] = "mac" => local'[i].key # None
      BY <1>1, <2>2, Arrives DEF Ready
    <2> QED
      BY <2>1, <2>3
  <1>8. pc'[i] \in {"load", "first", "second"} => local'[i].opened # None
    <2>1. LoadSeal(i) => pc[i] = "load"
      BY DEF LoadSeal
    <2>2. FirstParse(i) => pc[i] = "first"
      BY DEF FirstParse
    <2> QED
      BY <1>1, <1>3, <1>4, <2>1, <2>2, Arrives, Writers DEF Ready
  <1>9. pc'[i] \in {"first", "second"} => local'[i].sealed # None
    <2>2. FirstParse(i) => pc[i] = "first"
      BY DEF FirstParse
    <2> QED
      BY <1>1, <1>3, <2>2, Arrives, Writers DEF Ready, Sealed
  <1>10. pc'[i] \in {"second", "hash", "emptySeal", "writeSeal"} => local'[i].version # None
    <2>1. HashComponents(i) => pc[i] = "hash"
      BY DEF HashComponents
    <2>2. EmptySeal(i) => pc[i] = "emptySeal"
      BY DEF EmptySeal
    <2> QED
      BY <1>1, <1>3, <1>4, <2>1, <2>2, Arrives, Writers DEF Ready
  <1>17. pc'[i] \in {"emptySeal", "writeSeal"} => local'[i].hashed # None
    <2>2. EmptySeal(i) => pc[i] = "emptySeal"
      BY DEF EmptySeal
    <2> QED
      BY <1>1, <1>3, <1>4, <2>2, Arrives, Writers DEF Ready
  <1>11. SecondParse(i) /\ raw = local[i].opened => Artifact(i) # None
    <2>1. SecondParse(i) => pc[i] = "second"
      BY DEF SecondParse
    <2>2. SecondParse(i) /\ raw = local[i].opened => Artifact(i) \in Artifacts
      BY <1>1, <1>3, <2>1 DEF Ready, Locals, Artifact, Artifacts
    <2> QED
      BY <2>2, NoneIsNothing
  <1>12. local[i].artifact # None => local'[i].artifact # None
    BY <1>11, Writers
  <1>13. i \in Creators /\ local'[i].task = "sign" => local'[i].artifact # None
    BY <1>1, <1>11, <1>12, Writers, CommandAssumption DEF Ready, SameCall
  <1>14. i \in Creators /\ pc'[i] \in {"moveArtifact", "moveSignature", "created"} => local'[i].artifact # None
    <2>1. SignArtifact(i) => i \in Creators /\ local[i].task = "sign"
      BY DEF SignArtifact
    <2>2. MoveArtifact(i) => pc[i] = "moveArtifact"
      BY DEF MoveArtifact
    <2>3. MoveSignature(i) => pc[i] = "moveSignature"
      BY DEF MoveSignature
    <2> QED
      BY <1>1, <1>12, <2>1, <2>2, <2>3, Arrives DEF Ready
  <1>15. i \in Verifiers /\ pc'[i] \in {"compare", "verified"} => local'[i].artifact # None
    <2>1. Compare(i) => pc[i] = "compare"
      BY DEF Compare
    <2> QED
      BY <1>1, <1>11, <1>12, <2>1, Arrives DEF Ready
  <1>16. Ready(i)'
    BY <1>7, <1>8, <1>9, <1>10, <1>13, <1>14, <1>15, <1>17 DEF Ready
  <1>18. /\ SealMacs \subseteq SealMacs' /\ ArtifactMacs \subseteq ArtifactMacs'
    BY OthersWait, Grows DEF TypeInv
  <1>19. Signs(i)'
    <2>1. i \in Creators => i \notin Sealers
      BY CommandAssumption
    <2>2. ASSUME SignArtifact(i)
          PROVE  Mac(local[i].key, local[i].artifact) \in ArtifactMacs \cup {None}
      <3>1. local[i].key \in 0 .. keys /\ local[i].artifact \in Artifacts \cup {None}
        BY <1>1, <1>3, <2>2 DEF SignArtifact, Ready, Locals
      <3> QED
        BY <3>1, MacTyped
    <2>3. ASSUME SignSeal(i)
          PROVE  Mac(local[i].key, seal) \in SealMacs \cup {None}
      <3>1. local[i].key \in 0 .. keys
        BY <1>1, <1>3, <2>3 DEF SignSeal, Ready, Locals
      <3> QED
        BY <3>1, MacTyped
    <2>4. SignArtifact(i) => i \in Creators
      BY DEF SignArtifact
    <2> QED
      BY <1>3, <1>18, <2>1, <2>2, <2>3, <2>4, Writers DEF Signs
  <1>20. ASSUME NEW j \in Commands, j # i
         PROVE  Signs(j)'
    <2>1. Signs(j)
      BY DEF TypeInv
    <2> QED
      BY <1>5, <1>18, <1>20, <2>1 DEF Signs
  <1> QED
    BY <1>6, <1>16, <1>19, <1>20

\* A creator begins with CheckOutput, and with nothing else.
LEMMA BegunCounted ==
    ASSUME TypeInv, NEW i \in Commands, Acts(i)
    PROVE  /\ Begun \in Nat
           /\ i \in Creators /\ pc[i] = "start" => CheckOutput(i) /\ Begun' = Begun + 1
           /\ ~(i \in Creators /\ pc[i] = "start") => Begun' = Begun
  <1> DEFINE B == {c \in Creators : pc[c] # "start"}
             C == {c \in Creators : pc'[c] # "start"}
  <1>1. IsFiniteSet(B) /\ Cardinality(B) \in Nat
    BY FS_Subset, FS_CardinalityType, CommandAssumption
  <1>2. pc' = [pc EXCEPT ![i] = pc'[i]] /\ pc'[i] # "start" /\ pc \in [Commands -> Labels] /\ Creators \subseteq Commands
    BY OthersWait DEF TypeInv, Commands
  <1>3. i \in Creators /\ pc[i] = "start" => CheckOutput(i)
    BY CommandAssumption DEF Acts, Seal, ReadRelease, HashComponents, EmptySeal, WriteSeal, SignSeal, EmptySignature,
       WriteSignature, CheckSeal, Create, SignArtifact, MoveArtifact, MoveSignature,
       Verify, Derive, OpenRaw, LoadSeal, FirstParse, SecondParse, FindKey, AddKey, CompareMac, Kill
  <1>4. ASSUME i \in Creators, pc[i] = "start"
        PROVE  Cardinality(C) = Cardinality(B) + 1
    <2>1. i \notin B /\ C = B \cup {i}
      BY <1>2, <1>4
    <2> QED
      BY <1>1, <2>1, FS_AddElement
  <1>5. ASSUME ~(i \in Creators /\ pc[i] = "start")
        PROVE  C = B
    BY <1>2, <1>5
  <1> QED
    BY <1>1, <1>3, <1>4, <1>5 DEF Begun

\* Nothing happens beyond the budgets.
LEMMA AffordableKept ==
    ASSUME TypeInv, NEW i \in Commands, Acts(i)
    PROVE  Affordable(Begun, failures, kills, raw + release)'
  <1>1. /\ Affordable(Begun, failures, kills, raw + release)
        /\ raw' = raw /\ release' = release
    BY OthersWait DEF TypeInv
  <1>2. CASE i \in Creators /\ pc[i] = "start"
    <2>1. CheckOutput(i) /\ Begun' = Begun + 1
      BY <1>2, BegunCounted
    <2>2. Affordable(Begun + 1, failures, kills, raw + release) /\ failures' = failures /\ kills' = kills
      BY <2>1 DEF CheckOutput, GoesThrough, counters
    <2> QED
      BY <1>1, <2>1, <2>2 DEF Affordable
  <1>3. CASE ~(i \in Creators /\ pc[i] = "start")
    <2>1. Begun' = Begun
      BY <1>3, BegunCounted
    <2>2. CASE failures' = failures /\ kills' = kills
      BY <1>1, <2>1, <2>2 DEF Affordable
    <2>3. CASE Fails
      BY <1>1, <2>1, <2>3 DEF Affordable, Fails
    <2>4. CASE Kill(i)
      BY <1>1, <2>1, <2>4 DEF Affordable, Kill
    <2>5. GoesThrough => failures' = failures /\ kills' = kills
      BY DEF GoesThrough, counters
    <2>6. GoesThrough \/ Fails \/ Kill(i)
      BY DEF Acts, Seal, Create, Verify, Derive, ReadRelease, HashComponents, EmptySeal, WriteSeal, SignSeal,
         EmptySignature, WriteSignature, CheckSeal, CheckOutput, SignArtifact,
         MoveArtifact, MoveSignature, BeginVerify, ReadBindings, Compare, OpenRaw, LoadSeal, FirstParse,
         SecondParse, FindKey, AddKey, CompareMac
    <2> QED
      BY <2>2, <2>3, <2>4, <2>5, <2>6
  <1> QED
    BY <1>2, <1>3

\* The step of nobody in particular: a capture, a release, or a file taken away.
LEMMA SurroundingsStep ==
    ASSUME TypeInv, Surroundings
    PROVE  /\ key' = key /\ keys' = keys /\ seal' = seal /\ sealSig' = sealSig /\ seals' = seals /\ sig' = sig
           /\ pc' = pc /\ local' = local /\ failures' = failures /\ kills' = kills
           /\ raw' \in Nat /\ release' \in Nat /\ raw <= raw' /\ release <= release'
           /\ \/ file' = file
              \/ file' = None /\ sig = None /\ \E c \in Creators : pc[c] = "killed"
           /\ Affordable(Begun, failures, kills, raw' + release')
  <1>1. /\ raw \in Nat /\ release \in Nat /\ Affordable(Begun, failures, kills, raw + release)
    BY DEF TypeInv
  <1> QED
    BY <1>1 DEF Surroundings, keychain, sealed, published, counters, Affordable

LEMMA Initially ==
    ASSUME Init
    PROVE  TypeInv
  <1>1. /\ keys = 0 /\ raw = 0 /\ release = 0 /\ failures = 0 /\ kills = 0 /\ key \in {0, None} /\ seals = 0
        /\ seal = IF key = None THEN None ELSE [made |-> 0, commit |-> 0, hashed |-> 0]
        /\ file = None /\ sig = None /\ sealSig = Mac(key, seal)
        /\ pc = [i \in Commands |-> "start"] /\ local = [i \in Commands |-> Blank]
    BY DEF Init
  <1>2. Begun = 0
    <2>1. {c \in Creators : pc[c] # "start"} = {}
      BY <1>1 DEF Commands
    <2> QED
      BY <2>1, FS_EmptySet DEF Begun
  <1>3. Affordable(Begun, failures, kills, raw + release)
    <2>1. PICK b \in Budgets : TRUE
      BY CommandAssumption
    <2>2. b[1] \in Nat /\ b[2] \in Nat /\ b[3] \in Nat /\ b[4] \in Nat
      BY <2>1, CommandAssumption
    <2>3. 0 <= b[1] /\ 0 <= b[2] /\ 0 <= b[3] /\ 0 + 0 <= b[4]
      BY <2>2
    <2> QED
      BY <1>1, <1>2, <2>1, <2>3 DEF Affordable
  <1>4. Blank \in Locals
    BY DEF Blank, Locals
  <1>8. seal \in Seals \cup {None}
    BY <1>1 DEF Seals
  <1>5. sealSig \in SealMacs \cup {None}
    <2>1. CASE key = None
      BY <1>1, <2>1 DEF Mac
    <2>2. CASE key = 0
      BY <1>1, <1>8, <2>2 DEF Mac, SealMacs
    <2> QED
      BY <1>1, <2>1, <2>2
  <1>6. \A i \in Commands : pc[i] = "start" /\ local[i] = Blank /\ local[i].task = None /\ local[i].mac = None
    BY <1>1 DEF Blank
  <1>7. \A i \in Commands : Ready(i) /\ Signs(i)
    BY <1>6, CommandAssumption DEF Ready, Signs
  <1> QED
    BY <1>1, <1>3, <1>4, <1>5, <1>7, <1>8 DEF TypeInv, Labels

LEMMA TypeKept ==
    ASSUME TypeInv, [Next]_vars
    PROVE  TypeInv'
  <1>1. CASE UNCHANGED vars
    BY <1>1 DEF TypeInv, vars, world, keychain, sealed, published, counters, SealMacs, ArtifactMacs, Seals,
       Artifacts, Locals, Ready, Signs, Affordable, Begun
  <1>2. CASE Surroundings
    <2>1. /\ Artifacts \subseteq Artifacts' /\ Locals \subseteq Locals' /\ Seals \subseteq Seals'
          /\ SealMacs \subseteq SealMacs' /\ ArtifactMacs \subseteq ArtifactMacs'
      BY <1>2, SurroundingsStep, Grows DEF TypeInv
    <2>2. \A i \in Commands : Ready(i)' /\ Signs(i)'
      BY <1>2, <2>1, SurroundingsStep DEF TypeInv, Ready, Signs
    <2>3. Affordable(Begun, failures, kills, raw + release)'
      BY <1>2, SurroundingsStep DEF Affordable, Begun
    <2> QED
      BY <1>2, <2>1, <2>2, <2>3, SurroundingsStep DEF TypeInv
  <1>3. ASSUME NEW i \in Commands, Acts(i)
        PROVE  TypeInv'
    <2>1. /\ pc' = [pc EXCEPT ![i] = pc'[i]] /\ pc'[i] \in Labels /\ pc \in [Commands -> Labels]
      BY <1>3, OthersWait, Arrives DEF TypeInv
    <2>2. pc' \in [Commands -> Labels]
      BY <2>1
    <2>3. /\ raw' = raw /\ release' = release /\ keys' \in Nat /\ keys <= keys'
          /\ failures' \in Nat /\ kills' \in Nat /\ seals' \in Nat /\ seals <= seals'
      BY <1>3, OthersWait
    <2>4. Locals \subseteq Locals'
      BY <2>3, Grows DEF TypeInv
    <2>5. local' \in [Commands -> Locals']
      <3>1. local' = [local EXCEPT ![i] = local'[i]] /\ local'[i] \in Locals' /\ local \in [Commands -> Locals']
        BY <1>3, <2>4, LocalOwn, LocalTyped DEF TypeInv
      <3> QED
        BY <3>1
    <2>6. /\ Affordable(Begun, failures, kills, raw + release)' /\ \A j \in Commands : Ready(j)' /\ Signs(j)'
      BY <1>3, AffordableKept, ReadyKept
    <2>7. raw' \in Nat /\ release' \in Nat
      BY <2>3 DEF TypeInv
    <2> QED
      BY <1>3, <2>2, <2>3, <2>5, <2>6, <2>7, WorldTyped DEF TypeInv
  <1> QED
    BY <1>1, <1>2, <1>3, NextActs

LEMMA AlwaysTyped == Spec => []TypeInv
  <1>1. Init => TypeInv
    BY Initially
  <1>2. TypeInv /\ [Next]_vars => TypeInv'
    BY TypeKept
  <1> QED
    BY <1>1, <1>2, PTL DEF Spec

\* What everybody sees is written at one place, too.
LEMMA WorldWriters ==
    ASSUME NEW i \in Commands, Acts(i)
    PROVE  /\ file' = file \/ (i \in Creators /\ MoveArtifact(i) /\ file' = local[i].artifact)
           /\ sig' = sig \/ (i \in Creators /\ MoveSignature(i) /\ sig' = local[i].mac)
           /\ \/ seal' = seal
              \/ i \in Sealers /\ seal' = Unfinished
              \/ i \in Sealers /\ \E x, y : seal' = [made |-> seals + 1, commit |-> x, hashed |-> y]
           /\ key' = key \/ (AddKey(i) /\ key' = local[i].key)
           /\ keys' = keys \/ (FindKey(i) /\ keys' = keys + 1 /\ pc' = [pc EXCEPT ![i] = "add"])
  <1> USE DEF Private, world, keychain, sealed, published, Goto
  <1>1. CASE i \in Sealers /\ WriteSeal(i)
    <2>1. seal' \in {Unfinished, [made |-> seals + 1, commit |-> local[i].version, hashed |-> local[i].hashed]}
      BY <1>1 DEF WriteSeal
    <2> QED
      BY <1>1, <2>1 DEF WriteSeal
  <1>2. CASE i \in Sealers /\ (ReadRelease(i) \/ HashComponents(i) \/ SignSeal(i) \/ CheckSeal(i))
    BY <1>2 DEF ReadRelease, HashComponents, SignSeal, CheckSeal, CallVerify
  <1>3. CASE i \in Sealers /\ (EmptySeal(i) \/ EmptySignature(i) \/ WriteSignature(i))
    BY <1>3 DEF EmptySeal, EmptySignature, WriteSignature
  <1>4. CASE i \in Creators /\ CheckOutput(i)
    BY <1>4 DEF CheckOutput, CallVerify
  <1>5. CASE i \in Creators /\ SignArtifact(i)
    BY <1>5 DEF SignArtifact
  <1>6. CASE i \in Creators /\ MoveArtifact(i)
    BY <1>6 DEF MoveArtifact
  <1>7. CASE i \in Creators /\ MoveSignature(i)
    BY <1>7 DEF MoveSignature
  <1>8. CASE i \in Verifiers /\ BeginVerify(i)
    BY <1>8 DEF BeginVerify, CallVerify
  <1>9. CASE i \in Verifiers /\ ReadBindings(i)
    BY <1>9 DEF ReadBindings, CallVerify
  <1>10. CASE i \in Verifiers /\ Compare(i)
    BY <1>10 DEF Compare
  <1>11. CASE i \in Creators \cup Verifiers /\ OpenRaw(i)
    BY <1>11 DEF OpenRaw
  <1>12. CASE i \in Creators \cup Verifiers /\ LoadSeal(i)
    BY <1>12 DEF LoadSeal
  <1>13. CASE i \in Creators \cup Verifiers /\ FirstParse(i)
    BY <1>13 DEF FirstParse
  <1>14. CASE i \in Creators \cup Verifiers /\ SecondParse(i)
    BY <1>14 DEF SecondParse, Derived, Artifact
  <1>15. CASE FindKey(i)
    BY <1>15 DEF FindKey
  <1>16. CASE AddKey(i)
    BY <1>16 DEF AddKey
  <1>17. CASE CompareMac(i)
    BY <1>17 DEF CompareMac
  <1>18. CASE Kill(i)
    BY <1>18 DEF Kill
  <1> QED
    BY <1>1, <1>2, <1>3, <1>4, <1>5, <1>6, <1>7, <1>8, <1>9, <1>10, <1>11, <1>12, <1>13, <1>14, <1>15, <1>16, <1>17, <1>18 DEF Acts, Seal, Create, Verify, Derive

-----------------------------------------------------------------------------
(* PublishedIsOfOneCapture.                                                 *)

\* Nobody derives an artifact of two captures.
OneCapture ==
    /\ PublishedIsOfOneCapture
    /\ \A i \in Commands : local[i].artifact # None => local[i].artifact.header = local[i].artifact.deltas

LEMMA OneCaptureKept ==
    ASSUME TypeInv, OneCapture, [Next]_vars
    PROVE  OneCapture'
  <1>1. CASE UNCHANGED vars
    BY <1>1 DEF OneCapture, PublishedIsOfOneCapture, vars, world, published
  <1>2. CASE Surroundings
    BY <1>2, SurroundingsStep DEF OneCapture, PublishedIsOfOneCapture
  <1>3. ASSUME NEW i \in Commands, Acts(i)
        PROVE  OneCapture'
    <2>1. PublishedIsOfOneCapture'
      BY <1>3, WorldWriters DEF OneCapture, PublishedIsOfOneCapture
    <2>2. local' = [local EXCEPT ![i] = local'[i]] /\ local \in [Commands -> Locals]
      BY <1>3, LocalOwn DEF TypeInv
    <2>3. local'[i].artifact = local[i].artifact
            \/ (local'[i].artifact = Artifact(i) /\ Artifact(i).header = Artifact(i).deltas)
      BY <1>3, Writers DEF Artifact
    <2>4. ASSUME NEW j \in Commands, local'[j].artifact # None
          PROVE  local'[j].artifact.header = local'[j].artifact.deltas
      <3>1. CASE j = i
        BY <2>3, <2>4, <3>1 DEF OneCapture
      <3>2. CASE j # i
        BY <2>2, <2>4, <3>2 DEF OneCapture
      <3> QED
        BY <3>1, <3>2
    <2> QED
      BY <2>1, <2>4 DEF OneCapture
  <1> QED
    BY <1>1, <1>2, <1>3, NextActs

\* The header and the deltas of a published artifact are of one capture, whatever
\* else goes on and goes wrong: the second parse is of a file that has been the
\* same since it was opened, and nothing but an artifact of it is put in place.
THEOREM ArtifactIsOfOneCapture == Spec => []PublishedIsOfOneCapture
  <1>1. Init => OneCapture
    BY DEF Init, OneCapture, PublishedIsOfOneCapture, Blank
  <1>2. TypeInv /\ OneCapture /\ [Next]_vars => OneCapture'
    BY OneCaptureKept
  <1>3. OneCapture => PublishedIsOfOneCapture
    BY DEF OneCapture
  <1> QED
    BY <1>1, <1>2, <1>3, AlwaysTyped, PTL DEF Spec

-----------------------------------------------------------------------------
(* CreatedStands.                                                           *)

\* No step counts more than one failing call.
LEMMA FailuresCount ==
    ASSUME TypeInv, NEW i \in Commands, Acts(i)
    PROVE  failures' = failures \/ failures' = failures + 1
  <1> USE DEF GoesThrough, Fails, counters
  <1>1. CASE i \in Sealers /\ WriteSeal(i)
    BY <1>1 DEF WriteSeal
  <1>2. CASE i \in Sealers /\ SignSeal(i)
    BY <1>2 DEF SignSeal
  <1>3. CASE i \in Sealers /\ CheckSeal(i)
    BY <1>3 DEF CheckSeal, CallVerify
  <1>4. CASE i \in Creators /\ CheckOutput(i)
    BY <1>4 DEF CheckOutput, CallVerify
  <1>5. CASE i \in Creators /\ SignArtifact(i)
    BY <1>5 DEF SignArtifact
  <1>6. CASE i \in Creators /\ MoveArtifact(i)
    BY <1>6 DEF MoveArtifact
  <1>7. CASE i \in Creators /\ MoveSignature(i)
    BY <1>7 DEF MoveSignature
  <1>8. CASE i \in Verifiers /\ BeginVerify(i)
    BY <1>8 DEF BeginVerify, CallVerify
  <1>9. CASE i \in Verifiers /\ ReadBindings(i)
    BY <1>9 DEF ReadBindings, CallVerify
  <1>10. CASE i \in Verifiers /\ Compare(i)
    BY <1>10 DEF Compare
  <1>11. CASE i \in Creators \cup Verifiers /\ OpenRaw(i)
    BY <1>11 DEF OpenRaw
  <1>12. CASE i \in Creators \cup Verifiers /\ LoadSeal(i)
    BY <1>12 DEF LoadSeal
  <1>13. CASE i \in Creators \cup Verifiers /\ FirstParse(i)
    BY <1>13 DEF FirstParse
  <1>14. CASE i \in Creators \cup Verifiers /\ SecondParse(i)
    BY <1>14 DEF SecondParse, Derived, Artifact
  <1>15. CASE FindKey(i)
    BY <1>15 DEF FindKey
  <1>16. CASE AddKey(i)
    BY <1>16 DEF AddKey
  <1>17. CASE CompareMac(i)
    BY <1>17 DEF CompareMac
  <1>18. CASE Kill(i)
    BY <1>18 DEF Kill
  <1>19. CASE i \in Sealers /\ (ReadRelease(i) \/ HashComponents(i) \/ EmptySeal(i))
    BY <1>19 DEF ReadRelease, HashComponents, EmptySeal
  <1>20. CASE i \in Sealers /\ (EmptySignature(i) \/ WriteSignature(i))
    BY <1>20 DEF EmptySignature, WriteSignature
  <1> QED
    BY <1>19, <1>20, <1>1, <1>2, <1>3, <1>4, <1>5, <1>6, <1>7, <1>8, <1>9, <1>10, <1>11, <1>12, <1>13, <1>14, <1>15, <1>16, <1>17, <1>18 DEF Acts, Seal, Create, Verify, Derive

Moved == {"moveSignature", "created", "killed"}

Standing ==
    /\ keys = 0 => \A i \in Commands : pc[i] # "add"
    /\ keys = 0 => \A i \in Commands : pc[i] = "mac" => local[i].key = 0 /\ key = 0
    /\ failures = 0 /\ keys = 0 =>
        \A c \in Creators :
            /\ pc[c] \in {"moveArtifact", "moveSignature", "created"} => key = 0 /\ local[c].mac = Mac(0, local[c].artifact)
            /\ (\A d \in Creators \ {c} : pc[d] \notin Moved) =>
                /\ pc[c] \in {"moveSignature", "created"} => file = local[c].artifact
                /\ pc[c] = "created" => sig = local[c].mac

\* What signing and moving do to the creator that does it.
LEMMA CreatorMoves ==
    ASSUME TypeInv, NEW c \in Creators, Acts(c)
    PROVE  /\ SignArtifact(c) =>
                /\ pc[c] = "mac" /\ SameInput(local'[c], local[c]) /\ local'[c].artifact = local[c].artifact
                /\ local'[c].mac = Mac(local[c].key, local[c].artifact) \/ failures' = failures + 1
           /\ MoveArtifact(c) =>
                /\ pc[c] = "moveArtifact" /\ local'[c] = local[c] /\ pc'[c] = "moveSignature"
                /\ file' = local[c].artifact
           /\ MoveSignature(c) =>
                /\ pc[c] = "moveSignature" /\ local'[c] = local[c] /\ pc'[c] = "created"
                /\ sig' = local[c].mac /\ file' = file
  <1>1. /\ local[c] \in Locals /\ local \in [Commands -> Locals] /\ pc \in [Commands -> Labels] /\ c \in Commands
    BY DEF TypeInv, Commands
  <1>2. ASSUME SignArtifact(c)
        PROVE  /\ pc[c] = "mac" /\ SameInput(local'[c], local[c]) /\ local'[c].artifact = local[c].artifact
               /\ local'[c].mac = Mac(local[c].key, local[c].artifact) \/ failures' = failures + 1
    <2>1. CASE local'[c] = WithMac(local[c], Mac(local[c].key, local[c].artifact))
      BY <1>1, <1>2, <2>1, Updates DEF SignArtifact
    <2>2. CASE local'[c] = WithMac(local[c], None) /\ failures' = failures + 1
      BY <1>1, <1>2, <2>2, Updates DEF SignArtifact
    <2> QED
      BY <1>1, <1>2, <2>1, <2>2, Shapes
  <1>3. MoveArtifact(c) =>
          /\ pc[c] = "moveArtifact" /\ local'[c] = local[c] /\ pc'[c] = "moveSignature"
          /\ file' = local[c].artifact
    BY <1>1 DEF MoveArtifact, Goto, Stay
  <1>4. MoveSignature(c) =>
          /\ pc[c] = "moveSignature" /\ local'[c] = local[c] /\ pc'[c] = "created"
          /\ sig' = local[c].mac /\ file' = file
    BY <1>1 DEF MoveSignature, Goto, Stay
  <1> QED
    BY <1>2, <1>3, <1>4

LEMMA StandingKept ==
    ASSUME TypeInv, Standing, [Next]_vars
    PROVE  Standing'
  <1>1. CASE UNCHANGED vars
    BY <1>1 DEF Standing, Moved, Mac, vars, world, keychain, published, counters
  <1>2. CASE Surroundings
    <2>1. file' = file \/ \E d \in Creators : pc[d] = "killed"
      BY <1>2, SurroundingsStep
    <2> QED
      BY <1>2, <2>1, SurroundingsStep DEF Standing, Moved, Mac
  <1>3. ASSUME NEW i \in Commands, Acts(i), keys' = 0
        PROVE  /\ \A j \in Commands : pc'[j] # "add"
               /\ \A j \in Commands : pc'[j] = "mac" => local'[j].key = 0 /\ key' = 0
               /\ key' = key /\ keys = 0
    <2>1. keys = 0 /\ keys \in Nat /\ key \in 0 .. keys \cup {None}
      BY <1>3, OthersWait DEF TypeInv
    <2>2. pc' = [pc EXCEPT ![i] = pc'[i]] /\ local' = [local EXCEPT ![i] = local'[i]]
      BY <1>3, OthersWait, LocalOwn
    <2>3. local \in [Commands -> Locals] /\ pc \in [Commands -> Labels]
      BY DEF TypeInv
    <2>4. ~AddKey(i)
      BY <2>1 DEF AddKey, Standing
    <2>5. key' = key
      BY <1>3, <2>4, WorldWriters
    <2>6. pc'[i] # "add"
      BY <1>3, <2>1, Arrives
    <2>7. pc'[i] = "mac" => local'[i].key = 0 /\ key = 0
      BY <1>3, <2>1, <2>4, Arrives
    <2> QED
      BY <2>1, <2>2, <2>3, <2>5, <2>6, <2>7 DEF Standing
  <1>4. ASSUME NEW i \in Commands, Acts(i), failures' = 0, keys' = 0, NEW c \in Creators
        PROVE  /\ pc'[c] \in {"moveArtifact", "moveSignature", "created"} =>
                     key' = 0 /\ local'[c].mac = Mac(0, local'[c].artifact)
               /\ (\A d \in Creators \ {c} : pc'[d] \notin Moved) =>
                    /\ pc'[c] \in {"moveSignature", "created"} => file' = local'[c].artifact
                    /\ pc'[c] = "created" => sig' = local'[c].mac
    <2>1. failures = 0 /\ failures' = failures /\ keys = 0 /\ key' = key
      BY <1>3, <1>4, FailuresCount DEF TypeInv
    <2>2. pc' = [pc EXCEPT ![i] = pc'[i]] /\ local' = [local EXCEPT ![i] = local'[i]]
      BY <1>4, OthersWait, LocalOwn
    <2>3. local \in [Commands -> Locals] /\ pc \in [Commands -> Labels] /\ Creators \subseteq Commands
      BY DEF TypeInv, Commands
    <2>4. /\ pc[c] \in {"moveArtifact", "moveSignature", "created"} =>
               key = 0 /\ local[c].mac = Mac(0, local[c].artifact)
          /\ (\A d \in Creators \ {c} : pc[d] \notin Moved) =>
               /\ pc[c] \in {"moveSignature", "created"} => file = local[c].artifact
               /\ pc[c] = "created" => sig = local[c].mac
      BY <2>1 DEF Standing
    <2>5. ASSUME \A d \in Creators \ {c} : pc'[d] \notin Moved
          PROVE  \A d \in Creators \ {c} : pc[d] \notin Moved
      <3>1. pc[i] = "moveSignature" /\ i \in Creators => pc'[i] \in {"created", "killed"}
        <4>1. pc[i] = "moveSignature" => \/ MoveSignature(i) \/ Kill(i)
          BY <1>4 DEF Acts, Seal, Create, Verify, Derive, ReadRelease, HashComponents, EmptySeal, WriteSeal,
             SignSeal, EmptySignature, WriteSignature, CheckSeal, CheckOutput, SignArtifact, MoveArtifact, BeginVerify, ReadBindings, Compare, OpenRaw, LoadSeal, FirstParse, SecondParse,
             FindKey, AddKey, CompareMac
        <4> QED
          BY <2>3, <4>1 DEF MoveSignature, Kill, Goto
      <3>2. pc[i] \notin {"created", "killed"}
        BY <1>4, OthersWait
      <3> QED
        BY <2>2, <2>3, <2>5, <3>1, <3>2 DEF Moved
    <2>6. CASE c = i
      <3>1. pc'[c] \in {"moveArtifact", "moveSignature", "created"} =>
              key = 0 /\ local'[c].mac = Mac(0, local'[c].artifact)
        <4>1. pc'[c] = "moveArtifact" => local'[c].mac = Mac(0, local'[c].artifact) /\ key = 0
          BY <1>4, <2>1, <2>3, <2>6, Arrives, CreatorMoves DEF Standing
        <4>2. pc'[c] \in {"moveSignature", "created"} => local'[c].mac = Mac(0, local'[c].artifact) /\ key = 0
          BY <1>4, <2>4, <2>6, Arrives, CreatorMoves
        <4> QED
          BY <4>1, <4>2
      <3>2. pc'[c] = "moveSignature" => file' = local'[c].artifact
        BY <1>4, <2>6, Arrives, CreatorMoves
      <3>3. pc'[c] = "created" =>
              /\ pc[c] = "moveSignature" /\ file' = file /\ local'[c] = local[c] /\ sig' = local'[c].mac
        BY <1>4, <2>6, Arrives, CreatorMoves
      <3> QED
        BY <2>1, <2>4, <2>5, <3>1, <3>2, <3>3
    <2>7. CASE c # i
      <3>1. pc'[c] = pc[c] /\ local'[c] = local[c]
        BY <2>2, <2>3, <2>7
      <3>2. (\A d \in Creators \ {c} : pc'[d] \notin Moved) => file' = file /\ sig' = sig
        BY <1>4, <2>7, WorldWriters, CreatorMoves DEF Moved
      <3> QED
        BY <2>1, <2>4, <2>5, <3>1, <3>2
    <2> QED
      BY <2>6, <2>7
  <1>5. ASSUME NEW i \in Commands, Acts(i)
        PROVE  Standing'
    <2>1. keys' = 0 => /\ \A j \in Commands : pc'[j] # "add"
                       /\ \A j \in Commands : pc'[j] = "mac" => local'[j].key = 0 /\ key' = 0
      BY <1>3, <1>5
    <2>2. Moved' = Moved /\ \A x : Mac(0, x)' = Mac(0, x)
      BY DEF Moved, Mac
    <2> QED
      BY <1>4, <1>5, <2>1, <2>2 DEF Standing, Mac
  <1> QED
    BY <1>1, <1>2, <1>5, NextActs

\* What a creation has reported stands, with the signature that is over it, while
\* no call fails, there was a key all along, and no other creator has come as far
\* as moving something into its place.
THEOREM CreationStands == Spec => []CreatedStands
  <1>1. Init => Standing
    BY DEF Init, Standing, Moved, Commands
  <1>2. TypeInv /\ Standing /\ [Next]_vars => Standing'
    BY StandingKept
  <1>3. Standing => CreatedStands
    BY DEF Standing, CreatedStands, Moved, Mac
  <1> QED
    BY <1>1, <1>2, <1>3, AlwaysTyped, PTL DEF Spec

-----------------------------------------------------------------------------
(* VerifiedIsWhole.                                                         *)

\* No two creators have begun.
Alone == \A c, d \in Creators : pc[c] # "start" /\ pc[d] # "start" => c = d

\* v verifies what the creator c made: it reads the seal once the artifact is
\* there, and the version after the seal.
Follows(v, c) ==
    /\ pc[c] # "start" /\ local[c].artifact # None
    /\ pc[v] \in {"first", "second"} => local[c].artifact.version <= local[v].sealed.commit
    /\ local[v].artifact # None => local[c].artifact.version <= local[v].artifact.sealed.commit
    /\ pc[v] = "verified" => local[v].artifact = local[c].artifact

SealFirst ==
    /\ \A i \in Commands :
        /\ pc[i] \in {"first", "second"} => local[i].sealed.hashed = local[i].sealed.commit
        /\ pc[i] = "second" => local[i].sealed.commit <= local[i].version
    /\ \A v \in Verifiers :
        /\ local[v].artifact # None =>
            /\ local[v].artifact.sealed.hashed = local[v].artifact.sealed.commit
            /\ local[v].artifact.sealed.commit <= local[v].artifact.version
        /\ pc[v] = "start" => local[v].artifact = None
        /\ pc[v] \in {"open", "load", "first", "second", "compare", "verified"} \/ local[v].artifact # None
              => local[v].doc = "seal"
    /\ \A c \in Creators :
        /\ pc[c] \in {"start", "open", "load", "first", "second"} => local[c].artifact = None
        /\ local[c].artifact # None => local[c].task = "sign"
    /\ Alone =>
        /\ file # None => \E c \in Creators : pc[c] # "start" /\ file = local[c].artifact
        /\ \A v \in Verifiers : local[v].doc = "seal" => \E c \in Creators : Follows(v, c)

\* Among fewer than two, no two are different.
LEMMA AloneWhenFew ==
    ASSUME Begun <= 1
    PROVE  Alone
  <1> SUFFICES ASSUME NEW c \in Creators, NEW d \in Creators, pc[c] # "start", pc[d] # "start", c # d
               PROVE  FALSE
    BY DEF Alone
  <1> DEFINE B == {e \in Creators : pc[e] # "start"}
  <1>1. IsFiniteSet(B) /\ Cardinality(B) \in Nat
    BY FS_Subset, FS_CardinalityType, CommandAssumption
  <1>2. IsFiniteSet({c}) /\ Cardinality({c}) = 1
    BY FS_Singleton
  <1>3. Cardinality({c} \cup {d}) = 2
    <2>1. d \notin {c}
      OBVIOUS
    <2>2. Cardinality({c} \cup {d}) = Cardinality({c}) + 1
      BY <1>2, <2>1, FS_AddElement
    <2> QED
      BY <1>2, <2>2
  <1>4. Cardinality({c} \cup {d}) <= Cardinality(B)
    <2>1. {c} \cup {d} \subseteq B
      OBVIOUS
    <2> QED
      BY <1>1, <2>1, FS_Subset
  <1> QED
    BY <1>1, <1>3, <1>4 DEF Begun

\* Where the steps are taken that matter here.
LEMMA Places ==
    ASSUME NEW i
    PROVE  /\ OpenRaw(i) => pc[i] = "open"
           /\ LoadSeal(i) => pc[i] = "load"
           /\ FirstParse(i) => pc[i] = "first"
           /\ SecondParse(i) => pc[i] = "second"
           /\ Compare(i) => pc[i] = "compare"
           /\ BeginVerify(i) => pc[i] = "start"
           /\ CheckOutput(i) => pc[i] = "start"
           /\ ReadBindings(i) => pc[i] = "bindings"
           /\ CompareMac(i) => pc[i] = "mac" /\ local[i].task = "verify"
           /\ MoveArtifact(i) => pc[i] = "moveArtifact"
  BY DEF OpenRaw, LoadSeal, FirstParse, SecondParse, Compare, BeginVerify, CheckOutput, ReadBindings, CompareMac,
     MoveArtifact

\* A creator that has its artifact does not replace it, and a verification that
\* is to read the seal goes on to do that.
LEMMA OwnSealFirst ==
    ASSUME TypeInv, SealFirst, NEW i \in Commands, Acts(i)
    PROVE  /\ pc'[i] \in {"first", "second"} => local'[i].sealed.hashed = local'[i].sealed.commit
           /\ pc'[i] = "second" => local'[i].sealed.commit <= local'[i].version
           /\ i \in Verifiers =>
                /\ local'[i].artifact # None =>
                    /\ local'[i].artifact.sealed.hashed = local'[i].artifact.sealed.commit
                    /\ local'[i].artifact.sealed.commit <= local'[i].artifact.version
                /\ pc'[i] \in {"open", "load", "first", "second", "compare", "verified"} \/ local'[i].artifact # None
                      => local'[i].doc = "seal"
           /\ i \in Creators =>
                /\ pc'[i] \in {"open", "load", "first", "second"} => local'[i].artifact = None
                /\ local'[i].artifact # None => local'[i].task = "sign"
                /\ local[i].artifact # None => local'[i].artifact = local[i].artifact
  <1>1. /\ local[i] \in Locals /\ Ready(i) /\ release \in Nat
        /\ local \in [Commands -> Locals] /\ (i \in Creators => i \notin Verifiers /\ i \notin Sealers)
        /\ (i \in Verifiers => i \notin Sealers)
    BY CommandAssumption DEF TypeInv
  <1>6. pc'[i] \in {"first", "second"} => local'[i].sealed.hashed = local'[i].sealed.commit
    <2>1. pc'[i] = "second" => pc[i] = "first" /\ local'[i].sealed = local[i].sealed
      BY Arrives, Writers, Places
    <2>2. pc'[i] = "first" => local'[i].sealed = seal /\ seal.hashed = seal.commit
      BY Arrives DEF Sealed
    <2> QED
      BY <2>1, <2>2 DEF SealFirst
  <1>2. pc'[i] = "second" => local'[i].sealed.commit <= local'[i].version
    <2>1. pc'[i] = "second" => /\ pc[i] = "first" /\ local'[i].version = release
                               /\ local'[i].sealed = local[i].sealed
      BY Arrives, Writers, Places
    <2>2. pc[i] = "first" => local[i].sealed \in Seals
      BY <1>1 DEF Ready, Locals
    <2>3. pc[i] = "first" => local[i].sealed.commit \in 0 .. release
      BY <2>2 DEF Seals
    <2> QED
      BY <1>1, <2>1, <2>3
  <1>3. /\ pc[i] = "second" => /\ local[i].sealed.hashed = local[i].sealed.commit
                              /\ local[i].sealed.commit <= local[i].version
        /\ SecondParse(i) => Artifact(i).sealed = local[i].sealed /\ Artifact(i).version = local[i].version
    BY DEF SealFirst, Artifact
  <1>4. ASSUME i \in Verifiers
        PROVE  /\ local'[i].artifact # None =>
                    /\ local'[i].artifact.sealed.hashed = local'[i].artifact.sealed.commit
                    /\ local'[i].artifact.sealed.commit <= local'[i].artifact.version
               /\ pc'[i] \in {"open", "load", "first", "second", "compare", "verified"} \/ local'[i].artifact # None
                     => local'[i].doc = "seal"
    <2>1. /\ local[i].artifact # None =>
                /\ local[i].artifact.sealed.hashed = local[i].artifact.sealed.commit
                /\ local[i].artifact.sealed.commit <= local[i].artifact.version
          /\ pc[i] = "start" => local[i].artifact = None
          /\ pc[i] \in {"open", "load", "first", "second", "compare", "verified"} \/ local[i].artifact # None
                => local[i].doc = "seal"
      BY <1>4 DEF SealFirst
    <2>2. local'[i].artifact # None =>
            /\ local'[i].artifact.sealed.hashed = local'[i].artifact.sealed.commit
            /\ local'[i].artifact.sealed.commit <= local'[i].artifact.version
      BY <1>3, <2>1, Writers, Places
    <2>3. local'[i].doc = local[i].doc \/ local'[i].doc = "seal" \/ pc[i] = "start"
      BY <1>1, <1>4, Writers, Places DEF SameCall
    <2>4. pc'[i] = "open" => pc[i] = "mac" /\ local[i].doc = "seal"
      BY Arrives, Places
    <2>5. pc'[i] \in {"load", "first", "second", "compare", "verified"} =>
            pc[i] \in {"open", "load", "first", "second", "compare"}
      BY Arrives, Places
    <2>6. local'[i].artifact # None => local[i].artifact # None \/ pc[i] = "second"
      BY Writers, Places
    <2> QED
      BY <2>1, <2>2, <2>3, <2>4, <2>5, <2>6
  <1>5. ASSUME i \in Creators
        PROVE  /\ pc'[i] \in {"open", "load", "first", "second"} => local'[i].artifact = None
               /\ local'[i].artifact # None => local'[i].task = "sign"
               /\ local[i].artifact # None => local'[i].artifact = local[i].artifact
    <2>1. /\ pc[i] \in {"start", "open", "load", "first", "second"} => local[i].artifact = None
          /\ local[i].artifact # None => local[i].task = "sign"
      BY <1>5 DEF SealFirst
    <2>2. pc'[i] \in {"open", "load", "first", "second"} => local[i].artifact = None /\ pc[i] # "second"
      BY <2>1, Arrives, Places
    <2>3. pc[i] # "second" => local'[i].artifact = local[i].artifact
      BY Writers, Places
    <2>4. SecondParse(i) => local'[i] = local[i] \/ local'[i].task = "sign"
      <3>1. WithNew(local[i], Artifact(i)).task = "sign"
        BY <1>1, Updates
      <3> QED
        BY <1>1, <1>5, <3>1, Shapes
    <2>5. SameCall(local'[i], local[i]) \/ pc[i] = "start" \/ SecondParse(i)
      BY <1>1, <1>5, Writers, Places
    <2>6. local'[i].artifact # None => local'[i].task = "sign"
      <3>1. CASE SecondParse(i)
        BY <2>1, <2>4, <3>1
      <3>2. CASE ~SecondParse(i)
        BY <2>1, <2>5, <3>2, Writers DEF SameCall
      <3> QED
        BY <3>1, <3>2
    <2> QED
      BY <2>1, <2>2, <2>3, <2>6
  <1> QED
    BY <1>2, <1>4, <1>5, <1>6

\* The artifact in place is a creator's, and stays that creator's.
LEMMA FileIsMade ==
    ASSUME TypeInv, SealFirst, Alone, NEW i \in Commands, Acts(i), file' # None
    PROVE  \E c \in Creators : pc'[c] # "start" /\ file' = local'[c].artifact
  <1>1. /\ pc' = [pc EXCEPT ![i] = pc'[i]] /\ pc'[i] # "start" /\ local' = [local EXCEPT ![i] = local'[i]]
        /\ local \in [Commands -> Locals] /\ pc \in [Commands -> Labels] /\ Creators \subseteq Commands
    BY OthersWait, LocalOwn DEF TypeInv, Commands
  <1>2. CASE i \in Creators /\ MoveArtifact(i)
    BY <1>1, <1>2, CreatorMoves
  <1>3. CASE file' = file
    <2>1. PICK c \in Creators : pc[c] # "start" /\ file = local[c].artifact
      BY <1>3 DEF SealFirst
    <2>2. c = i => local'[c].artifact = local[c].artifact
      BY <1>3, <2>1, OwnSealFirst
    <2> QED
      BY <1>1, <1>3, <2>1, <2>2
  <1> QED
    BY <1>2, <1>3, WorldWriters

\* A step of a verification: the creator it follows, before and after.
LEMMA FollowsOn ==
    ASSUME TypeInv, SealFirst, Alone, NEW v \in Verifiers, Acts(v), NEW c \in Creators,
           Follows(v, c) \/ (local[v].artifact = None /\ pc[v] = "bindings" /\ pc[c] # "start"
                               /\ local[c].artifact # None)
    PROVE  Follows(v, c)'
  <1>1. /\ pc' = [pc EXCEPT ![v] = pc'[v]] /\ local' = [local EXCEPT ![v] = local'[v]] /\ c # v
        /\ local \in [Commands -> Locals] /\ pc \in [Commands -> Labels] /\ v \in Commands /\ c \in Commands
        /\ release \in Nat
    BY OthersWait, LocalOwn, CommandAssumption DEF TypeInv, Commands
  <1>2. pc'[c] = pc[c] /\ local'[c] = local[c]
    BY <1>1
  <1>3. pc[c] # "start" /\ local[c].artifact # None
    BY DEF Follows
  <1>4. local[c].artifact.version \in 0 .. release
    <2>1. local[c] \in Locals
      BY <1>1
    <2>2. local[c].artifact \in Artifacts
      BY <1>3, <2>1 DEF Locals
    <2> QED
      BY <2>2 DEF Artifacts
  <1>5. pc'[v] = "first" => local[c].artifact.version <= local'[v].sealed.commit
    BY <1>1, <1>4, Arrives DEF Sealed
  <1>6. pc'[v] = "second" => local[c].artifact.version <= local'[v].sealed.commit
    <2>1. pc'[v] = "second" => pc[v] = "first" /\ local'[v].sealed = local[v].sealed
      BY <1>1, Arrives, Writers, Places
    <2> QED
      BY <2>1 DEF Follows
  <1>7. local'[v].artifact # None => local[c].artifact.version <= local'[v].artifact.sealed.commit
    <2>1. \/ local'[v].artifact = local[v].artifact
          \/ pc[v] = "second" /\ local'[v].artifact.sealed = local[v].sealed
      <3>1. local'[v].artifact = local[v].artifact \/ (SecondParse(v) /\ local'[v].artifact = Artifact(v))
        BY <1>1, Writers
      <3>2. Artifact(v).sealed = local[v].sealed
        BY DEF Artifact
      <3> QED
        BY <3>1, <3>2, Places
    <2> QED
      BY <2>1 DEF Follows
  <1>8. pc'[v] = "verified" => local'[v].artifact = local[c].artifact
    <2>1. ASSUME pc'[v] = "verified"
          PROVE  local'[v].artifact = local[v].artifact /\ file = local[v].artifact /\ file # None
      <3>1. pc[v] = "compare" /\ file = local[v].artifact
        BY <1>1, <2>1, Arrives, Places
      <3>2. local'[v].artifact = local[v].artifact
        BY <1>1, <3>1, Writers, Places
      <3>3. local[v].artifact # None
        BY <1>1, <3>1 DEF TypeInv, Ready
      <3> QED
        BY <3>1, <3>2, <3>3
    <2>2. file # None => file = local[c].artifact
      <3>1. file # None => \E d \in Creators : pc[d] # "start" /\ file = local[d].artifact
        BY DEF SealFirst
      <3> QED
        BY <1>3, <3>1 DEF Alone
    <2> QED
      BY <2>1, <2>2
  <1> QED
    BY <1>2, <1>3, <1>5, <1>6, <1>7, <1>8 DEF Follows

LEMMA SealFirstKept ==
    ASSUME TypeInv, SealFirst, [Next]_vars
    PROVE  SealFirst'
  <1>1. CASE UNCHANGED vars
    BY <1>1 DEF SealFirst, Alone, Follows, vars, world, published
  <1>2. CASE Surroundings
    <2>1. file' = file \/ file' = None
      BY <1>2, SurroundingsStep
    <2> QED
      BY <1>2, <2>1, SurroundingsStep DEF SealFirst, Alone, Follows
  <1>3. ASSUME NEW i \in Commands, Acts(i)
        PROVE  SealFirst'
    <2>1. /\ pc' = [pc EXCEPT ![i] = pc'[i]] /\ pc'[i] # "start" /\ local' = [local EXCEPT ![i] = local'[i]]
          /\ local \in [Commands -> Locals] /\ pc \in [Commands -> Labels]
          /\ Creators \subseteq Commands /\ Verifiers \subseteq Commands
      BY <1>3, OthersWait, LocalOwn DEF TypeInv, Commands
    <2>2. \A j \in Commands : j # i => pc'[j] = pc[j] /\ local'[j] = local[j]
      BY <2>1
    <2>3. \A j \in Commands :
            /\ pc'[j] \in {"first", "second"} => local'[j].sealed.hashed = local'[j].sealed.commit
            /\ pc'[j] = "second" => local'[j].sealed.commit <= local'[j].version
      BY <1>3, <2>2, OwnSealFirst DEF SealFirst
    <2>4. ASSUME NEW v \in Verifiers
          PROVE  /\ local'[v].artifact # None =>
                    /\ local'[v].artifact.sealed.hashed = local'[v].artifact.sealed.commit
                    /\ local'[v].artifact.sealed.commit <= local'[v].artifact.version
                 /\ pc'[v] = "start" => local'[v].artifact = None
                 /\ pc'[v] \in {"open", "load", "first", "second", "compare", "verified"} \/ local'[v].artifact # None
                       => local'[v].doc = "seal"
      <3>1. CASE v = i
        BY <1>3, <2>1, <2>4, <3>1, OwnSealFirst
      <3>2. CASE v # i
        BY <2>1, <2>2, <2>4, <3>2 DEF SealFirst
      <3> QED
        BY <3>1, <3>2
    <2>5. ASSUME NEW c \in Creators
          PROVE  /\ pc'[c] \in {"start", "open", "load", "first", "second"} => local'[c].artifact = None
                 /\ local'[c].artifact # None => local'[c].task = "sign"
      <3>1. CASE c = i
        BY <1>3, <2>1, <2>5, <3>1, OwnSealFirst
      <3>2. CASE c # i
        BY <2>1, <2>2, <2>5, <3>2 DEF SealFirst
      <3> QED
        BY <3>1, <3>2
    <2>6. Alone' => Alone
      BY <1>3, <2>1, <2>2, OthersWait DEF Alone
    <2>7. Alone' => (file' # None => \E c \in Creators : pc'[c] # "start" /\ file' = local'[c].artifact)
      BY <1>3, <2>6, FileIsMade
    <2>8. ASSUME Alone, NEW v \in Verifiers, local'[v].doc = "seal"
          PROVE  \E c \in Creators : Follows(v, c)'
      <3>1. CASE v = i /\ local[v].doc = "seal"
        <4>1. PICK c \in Creators : Follows(v, c)
          BY <2>8, <3>1 DEF SealFirst
        <4> QED
          BY <1>3, <2>8, <3>1, <4>1, FollowsOn
      <3>2. CASE v = i /\ local[v].doc # "seal"
        <4>1. local[v].artifact = None
          BY <2>8, <3>2 DEF SealFirst
        <4>2. ReadBindings(v) /\ pc[v] = "bindings" /\ local'[v] # local[v]
          BY <1>3, <2>1, <2>8, <3>2, Writers, Places, CommandAssumption DEF SameCall
        <4>3. file # None
          BY <4>2 DEF ReadBindings, Stay
        <4>4. PICK c \in Creators : pc[c] # "start" /\ file = local[c].artifact
          BY <2>8, <4>3 DEF SealFirst
        <4> QED
          BY <1>3, <2>8, <3>2, <4>1, <4>2, <4>3, <4>4, FollowsOn
      <3>3. CASE v # i
        <4>1. pc'[v] = pc[v] /\ local'[v] = local[v]
          BY <2>1, <2>2, <2>8, <3>3
        <4>2. PICK c \in Creators : Follows(v, c)
          BY <2>8, <4>1 DEF SealFirst
        <4>3. pc'[c] # "start" /\ local'[c].artifact = local[c].artifact
          <5>1. CASE c = i
            BY <1>3, <2>1, <4>2, <5>1, OwnSealFirst DEF Follows
          <5>2. CASE c # i
            BY <2>1, <2>2, <4>2, <5>2 DEF Follows
          <5> QED
            BY <5>1, <5>2
        <4> QED
          BY <4>1, <4>2, <4>3 DEF Follows
      <3> QED
        BY <3>1, <3>2, <3>3
    <2> QED
      BY <2>3, <2>4, <2>5, <2>6, <2>7, <2>8 DEF SealFirst
  <1> QED
    BY <1>1, <1>2, <1>3, NextActs

\* What a verification vouches for names one release, in the commit and in the
\* files of its seal and in its version, with one creator: a seal is only loaded
\* where both are of the release that is installed, either derivation reads it
\* before the version, and the verification reads it after the creation has read
\* its version, so that an artifact which comes out equal leaves no room for an
\* upgrade in between.
THEOREM VouchedForIsWhole == Spec => []VerifiedIsWhole
  <1>1. Init => SealFirst
    BY CommandAssumption DEF Init, SealFirst, Blank, Commands
  <1>2. TypeInv /\ SealFirst /\ [Next]_vars => SealFirst'
    BY SealFirstKept
  <1>3. ASSUME TypeInv, SealFirst
        PROVE  VerifiedIsWhole
    <2> SUFFICES ASSUME Begun <= 1, NEW v \in Verifiers, pc[v] = "verified"
                 PROVE  /\ local[v].artifact.sealed.commit = local[v].artifact.version
                        /\ local[v].artifact.sealed.hashed = local[v].artifact.version
      BY DEF VerifiedIsWhole
    <2>1. Alone
      BY AloneWhenFew
    <2>2. v \in Commands /\ local[v].artifact # None
      BY <1>3 DEF TypeInv, Ready, Commands
    <2>3. PICK c \in Creators : Follows(v, c)
      BY <1>3, <2>1 DEF SealFirst
    <2>4. /\ local[v].artifact.version <= local[v].artifact.sealed.commit
          /\ local[v].artifact.sealed.commit <= local[v].artifact.version
          /\ local[v].artifact.sealed.hashed = local[v].artifact.sealed.commit
      BY <1>3, <2>2, <2>3 DEF Follows, SealFirst
    <2>5. local[v].artifact \in Artifacts
      <3>1. local[v] \in Locals
        BY <1>3, <2>2 DEF TypeInv
      <3> QED
        BY <2>2, <3>1 DEF Locals
    <2>6. local[v].artifact.version \in Nat /\ local[v].artifact.sealed.commit \in Nat
      BY <1>3, <2>5 DEF Artifacts, Seals, TypeInv
    <2> QED
      BY <2>4, <2>6
  <1> QED
    BY <1>1, <1>2, <1>3, AlwaysTyped, PTL DEF Spec

-----------------------------------------------------------------------------
(* VouchedForSealIsSigned.                                                  *)

\* The seal x is the one whose signature v has checked; or it is none at all, or one
\* that was made after the seal in the artifact of c.
Checked(v, c, x) ==
    \/ local[v].expected # None /\ local[v].expected.of = x
    \/ x \in {None, Unfinished}
    \/ x.made > local[c].artifact.sealed.made

\* So it is with what v finds, has loaded, and has derived, all along.
SealChecked ==
    /\ \A v \in Verifiers : pc[v] = "bindings" => local[v].doc # "seal"
    /\ failures = 0 /\ Alone =>
        \A v \in Verifiers, c \in Creators : pc[c] # "start" =>
            /\ pc[v] \in {"open", "load"} => Checked(v, c, seal)
            /\ pc[v] \in {"first", "second"} => Checked(v, c, local[v].sealed)
            /\ local[v].artifact # None => Checked(v, c, local[v].artifact.sealed)

\* What the creator has derived, v does not find changed.
LEMMA CreatorIsDone ==
    ASSUME TypeInv, SealFirst, Alone, NEW v \in Verifiers, local[v].doc = "seal",
           NEW c \in Creators, pc[c] # "start"
    PROVE  local[c].artifact # None /\ local[c].artifact.sealed.made \in 0 .. seals
  <1>1. PICK d \in Creators : Follows(v, d)
    BY DEF SealFirst
  <1>2. d = c
    BY <1>1 DEF Alone, Follows
  <1>3. local[c].artifact # None /\ local[c] \in Locals
    BY <1>1, <1>2 DEF Follows, TypeInv, Commands
  <1>4. local[c].artifact \in Artifacts
    BY <1>3 DEF Locals
  <1>5. local[c].artifact.sealed \in Seals
    BY <1>4 DEF Artifacts
  <1> QED
    BY <1>3, <1>5 DEF Seals

\* While others act, the seal may become one that is still being written, or a newer one.
LEMMA CheckedAmidOthers ==
    ASSUME TypeInv, SealFirst, SealChecked, failures = 0, Alone, NEW i \in Commands, Acts(i),
           NEW v \in Verifiers, v # i, NEW c \in Creators, pc[c] # "start", local[v].doc = "seal"
    PROVE  /\ pc[v] \in {"open", "load"} => Checked(v, c, seal)'
           /\ pc[v] \in {"first", "second"} => Checked(v, c, local[v].sealed)'
           /\ local[v].artifact # None => Checked(v, c, local[v].artifact.sealed)'
  <1>1. /\ local' = [local EXCEPT ![i] = local'[i]] /\ local \in [Commands -> Locals]
        /\ v \in Commands /\ c \in Commands /\ seals \in Nat
    BY LocalOwn DEF TypeInv, Commands
  <1>2. local'[v] = local[v]
    BY <1>1
  <1>3. local[c].artifact # None /\ local[c].artifact.sealed.made \in 0 .. seals
    BY CreatorIsDone
  <1>4. local'[c].artifact = local[c].artifact
    <2>1. CASE c = i
      BY <1>3, <2>1, OwnSealFirst
    <2>2. CASE c # i
      BY <1>1, <2>2
    <2> QED
      BY <2>1, <2>2
  <1>5. seal' = seal \/ seal' = Unfinished \/ seal'.made = seals + 1
    BY WorldWriters
  <1>6. seals + 1 > local[c].artifact.sealed.made
    BY <1>1, <1>3
  <1>7. ASSUME pc[v] \in {"open", "load"}
        PROVE  Checked(v, c, seal)'
    <2>1. CASE seal' = seal
      BY <1>2, <1>4, <1>7, <2>1 DEF SealChecked, Checked
    <2>2. CASE seal' = Unfinished
      BY <2>2 DEF Checked, Unfinished
    <2>3. CASE seal'.made = seals + 1
      BY <1>4, <1>6, <2>3 DEF Checked
    <2> QED
      BY <1>5, <2>1, <2>2, <2>3
  <1>8. pc[v] \in {"first", "second"} => Checked(v, c, local[v].sealed)'
    BY <1>2, <1>4 DEF SealChecked, Checked, Unfinished
  <1>9. local[v].artifact # None => Checked(v, c, local[v].artifact.sealed)'
    BY <1>2, <1>4 DEF SealChecked, Checked, Unfinished
  <1> QED
    BY <1>7, <1>8, <1>9

\* A signature that was found right is over the seal that is there.
LEMMA SignatureFound ==
    ASSUME TypeInv, NEW v \in Verifiers, v \in Commands, CompareMac(v), failures' = failures, pc'[v] = "open",
           local[v].doc = "seal"
    PROVE  seal = None \/ (local[v].expected # None /\ local[v].expected.of = seal)
  <1>1. /\ pc[v] = "mac" /\ local[v] \in Locals /\ Ready(v) /\ failures \in Nat /\ pc \in [Commands -> Labels]
    BY DEF CompareMac, TypeInv
  <1>2. ~Fails
    BY <1>1 DEF Fails
  <1>3. Goto(v, IF Mac(local[v].key, seal) = local[v].expected THEN Accepted(v) ELSE "refused")
    BY <1>2 DEF CompareMac, Content
  <1>4. Mac(local[v].key, seal) = local[v].expected
    BY <1>1, <1>3 DEF Goto
  <1>5. local[v].key \in 0 .. keys
    BY <1>1 DEF Ready, Locals
  <1>6. ASSUME seal # None
        PROVE  local[v].expected # None /\ local[v].expected.of = seal
    <2>1. seal \in Seals \cup {Unfinished}
      BY <1>6 DEF TypeInv
    <2>2. local[v].expected = [key |-> local[v].key, of |-> seal]
      BY <1>4, <1>6 DEF Mac
    <2>3. local[v].expected \in SealMacs
      BY <1>5, <2>1, <2>2 DEF SealMacs
    <2> QED
      BY <2>2, <2>3, NoneIsNothing
  <1> QED
    BY <1>6

\* What a verification finds out by its own steps.
LEMMA CheckedOnItsWay ==
    ASSUME TypeInv, SealFirst, SealChecked, failures = 0, failures' = 0, Alone, NEW v \in Verifiers, v \in Commands,
           Acts(v), NEW c \in Creators, pc[c] # "start"
    PROVE  /\ pc'[v] \in {"open", "load"} => Checked(v, c, seal)'
           /\ pc'[v] \in {"first", "second"} => Checked(v, c, local[v].sealed)'
           /\ local'[v].artifact # None => Checked(v, c, local[v].artifact.sealed)'
  <1>1. /\ local' = [local EXCEPT ![v] = local'[v]] /\ local \in [Commands -> Locals] /\ c \in Commands /\ c # v
        /\ v \notin Sealers /\ v \notin Creators /\ pc \in [Commands -> Labels]
    BY LocalOwn, CommandAssumption DEF TypeInv, Commands
  <1>2. local'[c] = local[c] /\ seal' = seal /\ Unfinished' = Unfinished
    BY <1>1, WorldWriters DEF Unfinished
  <1>3. /\ pc[v] \in {"open", "load"} => Checked(v, c, seal)
        /\ pc[v] \in {"first", "second"} => Checked(v, c, local[v].sealed)
        /\ local[v].artifact # None => Checked(v, c, local[v].artifact.sealed)
    BY DEF SealChecked
  <1>4. \/ local'[v].expected = local[v].expected
        \/ local[v].artifact = None /\ pc[v] \in {"start", "bindings"}
    <2>1. pc[v] \in {"start", "bindings"} => local[v].artifact = None
      BY DEF SealFirst, SealChecked
    <2>2. SameCall(local'[v], local[v]) \/ pc[v] \in {"start", "bindings"}
      BY <1>1, Writers, Places
    <2> QED
      BY <2>1, <2>2 DEF SameCall
  <1>5. CASE pc'[v] = "open"
    <2>1. CompareMac(v) /\ local[v].doc = "seal" /\ pc[v] = "mac"
      BY <1>5, Arrives, Places
    <2>2. seal = None \/ (local[v].expected # None /\ local[v].expected.of = seal)
      BY <1>5, <2>1, SignatureFound
    <2>3. local'[v].expected = local[v].expected
      BY <1>4, <2>1
    <2>4. local'[v].artifact = local[v].artifact
      BY <2>1, Writers, Places
    <2> QED
      BY <1>2, <1>3, <1>5, <2>2, <2>3, <2>4 DEF Checked
  <1>6. CASE pc'[v] = "load"
    <2>1. pc[v] = "open"
      BY <1>6, Arrives, Places
    <2>2. local'[v].expected = local[v].expected /\ local'[v].artifact = local[v].artifact
      BY <1>4, <2>1, Writers, Places
    <2> QED
      BY <1>2, <1>3, <1>6, <2>1, <2>2 DEF Checked
  <1>7. CASE pc'[v] = "first"
    <2>1. pc[v] = "load" /\ local'[v].sealed = seal
      BY <1>7, Arrives, Places
    <2>2. local'[v].expected = local[v].expected /\ local'[v].artifact = local[v].artifact
      BY <1>4, <2>1, Writers, Places
    <2> QED
      BY <1>2, <1>3, <1>7, <2>1, <2>2 DEF Checked
  <1>8. CASE pc'[v] = "second"
    <2>1. pc[v] = "first"
      BY <1>8, Arrives, Places
    <2>2. /\ local'[v].expected = local[v].expected /\ local'[v].artifact = local[v].artifact
          /\ local'[v].sealed = local[v].sealed
      BY <1>4, <2>1, Writers, Places
    <2> QED
      BY <1>2, <1>3, <1>8, <2>1, <2>2 DEF Checked
  <1>9. CASE pc'[v] \notin {"open", "load", "first", "second"} /\ local'[v].artifact # None
    <2>1. CASE local'[v].artifact = local[v].artifact
      BY <1>2, <1>3, <1>4, <1>9, <2>1 DEF Checked
    <2>2. CASE SecondParse(v) /\ local'[v].artifact = Artifact(v)
      <3>1. pc[v] = "second" /\ Artifact(v).sealed = local[v].sealed
        BY <2>2, Places DEF Artifact
      <3>2. local'[v].expected = local[v].expected
        BY <1>4, <3>1
      <3> QED
        BY <1>2, <1>3, <1>9, <2>2, <3>1, <3>2 DEF Checked
    <2> QED
      BY <2>1, <2>2, Writers
  <1> QED
    BY <1>5, <1>6, <1>7, <1>8, <1>9

LEMMA SealCheckedKept ==
    ASSUME TypeInv, SealFirst, SealFirst', SealChecked, [Next]_vars
    PROVE  SealChecked'
  <1>1. CASE UNCHANGED vars
    BY <1>1 DEF SealChecked, Alone, Checked, Unfinished, vars, world, sealed, counters
  <1>2. CASE Surroundings
    BY <1>2, SurroundingsStep DEF SealChecked, Alone, Checked, Unfinished
  <1>3. ASSUME NEW i \in Commands, Acts(i)
        PROVE  SealChecked'
    <2>1. /\ pc' = [pc EXCEPT ![i] = pc'[i]] /\ pc'[i] # "start" /\ local' = [local EXCEPT ![i] = local'[i]]
          /\ local \in [Commands -> Locals] /\ pc \in [Commands -> Labels]
          /\ Creators \subseteq Commands /\ Verifiers \subseteq Commands
      BY <1>3, OthersWait, LocalOwn DEF TypeInv, Commands
    <2>2. ASSUME NEW v \in Verifiers, pc'[v] = "bindings"
          PROVE  local'[v].doc # "seal"
      <3>1. CASE v = i
        <4>1. CompareMac(v) /\ local[v].doc # "seal" /\ pc[v] = "mac"
          BY <1>3, <2>2, <3>1, Arrives, Places
        <4>2. SameCall(local'[v], local[v])
          BY <1>3, <3>1, <4>1, Writers, Places, CommandAssumption
        <4> QED
          BY <4>1, <4>2 DEF SameCall
      <3>2. CASE v # i
        BY <2>1, <2>2, <3>2 DEF SealChecked
      <3> QED
        BY <3>1, <3>2
    <2>3. ASSUME failures' = 0, Alone', NEW v \in Verifiers, NEW c \in Creators, pc'[c] # "start",
                 pc'[v] \in {"open", "load", "first", "second"} \/ local'[v].artifact # None
          PROVE  /\ pc'[v] \in {"open", "load"} => Checked(v, c, seal)'
                 /\ pc'[v] \in {"first", "second"} => Checked(v, c, local[v].sealed)'
                 /\ local'[v].artifact # None => Checked(v, c, local[v].artifact.sealed)'
      <3>1. failures = 0 /\ Alone
        <4>1. failures = 0
          BY <1>3, <2>3, FailuresCount DEF TypeInv
        <4>2. \A d \in Creators : pc[d] # "start" => pc'[d] # "start"
          BY <2>1
        <4> QED
          BY <2>3, <4>1, <4>2 DEF Alone
      <3>2. local'[v].doc = "seal"
        BY <2>3 DEF SealFirst
      <3>3. CASE v = i
        <4>1. c # i
          BY <3>3, CommandAssumption
        <4>2. pc[c] # "start"
          BY <2>1, <2>3, <4>1
        <4> QED
          BY <1>3, <2>1, <2>3, <3>1, <3>3, <4>2, CheckedOnItsWay
      <3>4. CASE v # i
        <4>1. pc'[v] = pc[v] /\ local'[v] = local[v]
          BY <2>1, <3>4
        <4>2. PICK d \in Creators : Follows(v, d)
          BY <3>1, <3>2, <4>1 DEF SealFirst
        <4>3. pc[d] # "start" /\ pc'[d] # "start"
          BY <2>1, <4>2 DEF Follows
        <4>4. d = c
          BY <2>3, <4>3 DEF Alone
        <4> QED
          BY <1>3, <3>1, <3>2, <3>4, <4>1, <4>3, <4>4, CheckedAmidOthers
      <3> QED
        BY <3>3, <3>4
    <2> QED
      BY <2>2, <2>3 DEF SealChecked
  <1> QED
    BY <1>1, <1>2, <1>3, NextActs

\* The seal that a verification vouches for is the one whose signature it checked,
\* with one creator and no failing call: by then the creation has loaded its seal,
\* and a seal that takes the place of the checked one is newer than that, so that
\* an artifact derived from it does not come out equal.
THEOREM SealOfVouchedForIsSigned == Spec => []VouchedForSealIsSigned
  <1>1. Init => SealFirst /\ SealChecked
    BY CommandAssumption DEF Init, SealFirst, SealChecked, Blank, Commands
  <1>2. TypeInv /\ SealFirst /\ SealChecked /\ [Next]_vars => SealFirst' /\ SealChecked'
    BY SealFirstKept, SealCheckedKept
  <1>3. ASSUME TypeInv, SealFirst, SealChecked
        PROVE  VouchedForSealIsSigned
    <2> SUFFICES ASSUME Begun <= 1, failures = 0, NEW v \in Verifiers, pc[v] = "verified"
                 PROVE  local[v].expected # None /\ local[v].expected.of = local[v].artifact.sealed
      BY DEF VouchedForSealIsSigned
    <2>1. Alone
      BY AloneWhenFew
    <2>2. v \in Commands /\ local[v].artifact # None /\ local[v].doc = "seal"
      BY <1>3 DEF TypeInv, Ready, Commands, SealFirst
    <2>3. PICK c \in Creators : Follows(v, c)
      BY <1>3, <2>1, <2>2 DEF SealFirst
    <2>4. pc[c] # "start" /\ local[v].artifact = local[c].artifact
      BY <2>3 DEF Follows
    <2>5. Checked(v, c, local[v].artifact.sealed)
      BY <1>3, <2>1, <2>2, <2>4 DEF SealChecked
    <2>6. local[v].artifact \in Artifacts
      <3>1. local[v] \in Locals
        BY <1>3, <2>2 DEF TypeInv
      <3> QED
        BY <2>2, <3>1 DEF Locals
    <2>7. local[v].artifact.sealed \in Seals
      BY <2>6 DEF Artifacts
    <2>8. local[v].artifact.sealed \notin {None, Unfinished}
      BY <1>3, <2>7, NoneIsNothing
    <2>9. ~(local[v].artifact.sealed.made > local[c].artifact.sealed.made)
      BY <1>3, <2>4, <2>7 DEF Seals, TypeInv
    <2> QED
      BY <2>5, <2>8, <2>9 DEF Checked
  <1> QED
    BY <1>1, <1>2, <1>3, AlwaysTyped, PTL DEF Spec
=============================================================================
