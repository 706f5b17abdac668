------------------------------ MODULE SignedDrift ------------------------------
(***************************************************************************)
(* A signed drift diagnostic from its creation to its verification:        *)
(* bin/wapp-signed-drift-diagnostic has lib/native-drift-diagnostic.py     *)
(* derive the artifact from a raw capture and the Product Seal, signs it   *)
(* and puts it in place; a verification derives it once more.  Signatures  *)
(* and their key are those of lib/recovery-integrity.sh, which             *)
(* bin/wapp-product-seal uses as well.  Commands run side by side and may  *)
(* be killed, and their calls of the Keychain and of openssl may fail.     *)
(*                                                                         *)
(* A command that appends "|| fail" to a function runs it without errexit: *)
(* an error inside is printed, and the function goes on.                   *)
(***************************************************************************)
EXTENDS Naturals, FiniteSets

CONSTANTS
    Creators, Verifiers,  \* commands that create one output, and that verify it
    Sealers,              \* commands that seal the product, into one file
    Budgets,              \* bounds: creators that begin, calls that fail, commands killed,
                          \* raw captures and releases that replace what there is
    None

Commands == Creators \cup Verifiers \cup Sealers

\* A Product Seal: when it was made, the commit it names, and the one whose files it
\* has hashed.  A file that is not all written is no JSON.
Unfinished == [made |-> None, commit |-> None, hashed |-> None]
SealText == [made : Nat, commit : Nat, hashed : Nat] \cup {Unfinished}

\* An artifact has the hash of the seal's bytes.
ArtifactText == [header : Nat, deltas : Nat, sealed : SealText, version : Nat]

ASSUME CommandAssumption ==
    /\ Creators \cap Verifiers = {} /\ Sealers \cap (Creators \cup Verifiers) = {}
    /\ IsFiniteSet(Creators)
    /\ Budgets \subseteq Nat \X Nat \X Nat \X Nat /\ Budgets # {}
    /\ None \notin Nat /\ None \notin {"seal", "artifact", "new", "sign", "verify"}
    /\ None \notin SealText /\ None \notin ArtifactText
    /\ None \notin [key : Nat, of : SealText \cup ArtifactText]

VARIABLES
    key, keys,       \* the key in the Keychain, and how many were generated; 0 was there before
    raw,             \* which capture the raw file holds
    release,         \* which Public Core is installed
    seal, sealSig,   \* the Product Seal and its signature
    seals,           \* how many seals were written; 0 was there before
    file, sig,       \* the artifact and its signature
    pc, local,       \* of each command; mac is the signature made
    failures, kills

keychain == <<key, keys>>
sealed == <<seal, sealSig, seals>>
published == <<file, sig>>
world == <<keychain, raw, release, sealed, published>>
counters == <<failures, kills>>
vars == <<world, pc, local, counters>>

Mac(k, content) == IF content = None THEN None ELSE [key |-> k, of |-> content]

Blank ==
    [doc |-> None, task |-> None, expected |-> None, key |-> None, opened |-> None,
     sealed |-> None, version |-> None, hashed |-> None, artifact |-> None, mac |-> None]

\* Neither key nor seal, or both.
Init ==
    /\ key \in {0, None} /\ keys = 0 /\ seals = 0
    /\ raw = 0 /\ release = 0
    /\ seal = IF key = None THEN None ELSE [made |-> 0, commit |-> 0, hashed |-> 0]
    /\ sealSig = Mac(key, seal)
    /\ file = None /\ sig = None
    /\ pc = [i \in Commands |-> "start"] /\ local = [i \in Commands |-> Blank]
    /\ failures = 0 /\ kills = 0

Goto(i, label) == pc' = [pc EXCEPT ![i] = label]
Stay == UNCHANGED local

Affordable(begun, failed, killed, replaced) ==
    \E b \in Budgets : begun <= b[1] /\ failed <= b[2] /\ killed <= b[3] /\ replaced <= b[4]
Begun == Cardinality({c \in Creators : pc[c] # "start"})

Fails == Affordable(Begun, failures + 1, kills, raw + release) /\ failures' = failures + 1 /\ UNCHANGED kills
GoesThrough == UNCHANGED counters

\* The command changes nothing but its own variables.
Private == UNCHANGED world

-----------------------------------------------------------------------------
(* lib/recovery-integrity.sh.                                              *)

Content(doc) == IF doc = "seal" THEN seal ELSE file
Signature(doc) == IF doc = "seal" THEN sealSig ELSE sig

\* A function of the library is called: its document, its task.
Call(i, doc, task, expected) ==
    /\ local' = [local EXCEPT ![i].doc = doc, ![i].task = task, ![i].expected = expected]
    /\ Goto(i, "find")

\* recovery_verify_file reads the signature first.  Without one it goes on with
\* an empty text.
CallVerify(i, doc) == Call(i, doc, "verify", Signature(doc))

\* recovery_integrity_key: whatever cannot be read is taken for missing.
FindKey(i) ==
    /\ pc[i] = "find"
    /\ \/ /\ GoesThrough /\ key # None
          /\ local' = [local EXCEPT ![i].key = key] /\ Goto(i, "mac") /\ UNCHANGED keys
       \/ /\ Fails \/ (GoesThrough /\ key = None)
          /\ keys' = keys + 1
          /\ local' = [local EXCEPT ![i].key = keys + 1] /\ Goto(i, "add")
    /\ UNCHANGED <<key, raw, release, sealed, published>>

\* A new key takes the place of the one there is.  It is used whether or not it
\* could be saved.
AddKey(i) ==
    /\ pc[i] = "add" /\ Goto(i, "mac") /\ Stay
    /\ (GoesThrough /\ key' = local[i].key) \/ (Fails /\ UNCHANGED key)
    /\ UNCHANGED <<keys, raw, release, sealed, published>>

Accepted(i) ==
    CASE i \in Sealers -> "sealed"
      [] i \notin Sealers /\ local[i].doc = "seal" -> "open"
      [] OTHER -> "bindings"

\* The two texts are compared; whether there are any is not asked.
CompareMac(i) ==
    LET Ends(actual) == Goto(i, IF actual = local[i].expected THEN Accepted(i) ELSE "refused") IN
    /\ pc[i] = "mac" /\ local[i].task = "verify"
    /\ \/ GoesThrough /\ Ends(Mac(local[i].key, Content(local[i].doc)))
       \/ Fails /\ Ends(None)
    /\ Stay /\ Private

\* Wrong on purpose, to test CreatedStands: what is signed is the output's path.
SignOutput(c) ==
    LET Signs(mac) == local' = [local EXCEPT ![c].mac = mac] IN
    /\ c \in Creators /\ pc[c] = "mac" /\ local[c].task = "sign" /\ Goto(c, "moveArtifact")
    /\ \/ GoesThrough /\ Signs(Mac(local[c].key, file))
       \/ Fails /\ Signs(None)
    /\ Private

\* recovery_sign_file writes the signature it has, be it empty.
SignArtifact(c) ==
    LET Signs(mac) == local' = [local EXCEPT ![c].mac = mac] IN
    /\ c \in Creators /\ pc[c] = "mac" /\ local[c].task = "sign" /\ Goto(c, "moveArtifact")
    /\ \/ GoesThrough /\ Signs(Mac(local[c].key, local[c].artifact))
       \/ Fails /\ Signs(None)
    /\ Private

-----------------------------------------------------------------------------
(* bin/wapp-product-seal.  It runs its functions with errexit, and verifies *)
(* what it has signed.                                                      *)

\* The commit and the version.
ReadRelease(s) ==
    /\ pc[s] = "start" /\ Goto(s, "hash") /\ GoesThrough /\ Private
    /\ local' = [local EXCEPT ![s].version = release]

HashComponents(s) ==
    /\ pc[s] = "hash" /\ Goto(s, "emptySeal") /\ GoesThrough /\ Private
    /\ local' = [local EXCEPT ![s].hashed = release]

\* The redirection empties the file; the time is of when the text is written.
EmptySeal(s) ==
    /\ pc[s] = "emptySeal" /\ Goto(s, "writeSeal") /\ Stay /\ GoesThrough
    /\ seal' = Unfinished
    /\ UNCHANGED <<keychain, raw, release, sealSig, seals, published>>

\* What two write at the same time may come out as neither's.
WriteSeal(s) ==
    LET text == [made |-> seals + 1, commit |-> local[s].version, hashed |-> local[s].hashed]
        Others == {t \in Sealers \ {s} : pc[t] = "writeSeal"}
    IN
    /\ pc[s] = "writeSeal" /\ Call(s, "seal", "sign", None) /\ GoesThrough
    /\ seals' = seals + 1
    /\ seal' \in IF seal = Unfinished /\ Others = {} THEN {text} ELSE {text, Unfinished}
    /\ UNCHANGED <<keychain, raw, release, sealSig, published>>

SignSeal(s) ==
    /\ pc[s] = "mac" /\ local[s].task = "sign" /\ Private
    /\ \/ /\ GoesThrough /\ Goto(s, "emptySignature")
          /\ local' = [local EXCEPT ![s].mac = Mac(local[s].key, seal)]
       \/ Fails /\ Goto(s, "refused") /\ Stay

\* Its signature is written in place as well: until it is, it is an empty text.
EmptySignature(s) ==
    /\ pc[s] = "emptySignature" /\ Goto(s, "writeSignature") /\ Stay /\ GoesThrough
    /\ sealSig' = None
    /\ UNCHANGED <<keychain, raw, release, seal, seals, published>>

WriteSignature(s) ==
    /\ pc[s] = "writeSignature" /\ Goto(s, "check") /\ Stay /\ GoesThrough
    /\ sealSig' = local[s].mac
    /\ UNCHANGED <<keychain, raw, release, seal, seals, published>>

CheckSeal(s) == pc[s] = "check" /\ CallVerify(s, "seal") /\ GoesThrough /\ Private

Seal(s) ==
    \/ ReadRelease(s) \/ HashComponents(s) \/ EmptySeal(s) \/ WriteSeal(s)
    \/ SignSeal(s) \/ EmptySignature(s) \/ WriteSignature(s) \/ CheckSeal(s)

-----------------------------------------------------------------------------
(* create_artifact, of both create and verify.                             *)

\* BoundInput.
OpenRaw(i) ==
    /\ pc[i] = "open" /\ Goto(i, "load")
    /\ local' = [local EXCEPT ![i].opened = raw]
    /\ GoesThrough /\ Private

\* Wrong on purpose, to test VerifiedIsWhole: the seal is taken at its word.
LoadSealAsSigned(i) ==
    /\ pc[i] = "load" /\ seal \notin {None, Unfinished} /\ Goto(i, "first")
    /\ local' = [local EXCEPT ![i].sealed = seal]
    /\ GoesThrough /\ Private

\* load_product_seal: the release that is installed must be the one that is sealed,
\* in its commit and in its files.
LoadSeal(i) ==
    /\ pc[i] = "load"
    /\ IF seal # None /\ seal.commit = release /\ seal.hashed = release
       THEN Goto(i, "first") /\ local' = [local EXCEPT ![i].sealed = seal]
       ELSE Goto(i, "refused") /\ Stay
    /\ GoesThrough /\ Private

\* build_metadata: the raw file must be what was opened; then the version is read.
FirstParse(i) ==
    /\ pc[i] = "first"
    /\ IF raw = local[i].opened
       THEN Goto(i, "second") /\ local' = [local EXCEPT ![i].version = release]
       ELSE Goto(i, "refused") /\ Stay
    /\ GoesThrough /\ Private

\* The header's fields are of the first parse, the deltas of the second.
Artifact(i) ==
    [header |-> local[i].opened, deltas |-> raw,
     sealed |-> local[i].sealed, version |-> local[i].version]

Derived(i) ==
    IF i \in Creators
    THEN /\ local' = [local EXCEPT ![i].artifact = Artifact(i), ![i].task = "sign", ![i].doc = "new"]
         /\ Goto(i, "find")
    ELSE local' = [local EXCEPT ![i].artifact = Artifact(i)] /\ Goto(i, "compare")

\* Wrong on purpose, to test PublishedIsOfOneCapture: the raw file may have changed.
SecondParseOfAny(i) == pc[i] = "second" /\ Derived(i) /\ GoesThrough /\ Private

\* write_artifact: the raw file is parsed once more, and must still be the same.
SecondParse(i) ==
    /\ pc[i] = "second"
    /\ IF raw = local[i].opened THEN Derived(i) ELSE Goto(i, "refused") /\ Stay
    /\ GoesThrough /\ Private

Derive(i) == OpenRaw(i) \/ LoadSeal(i) \/ FirstParse(i) \/ SecondParse(i)

-----------------------------------------------------------------------------
(* bin/wapp-signed-drift-diagnostic create.                                *)

\* There must be nothing in the places of the artifact and its signature.
CheckOutput(c) ==
    /\ pc[c] = "start" /\ Affordable(Begun + 1, failures, kills, raw + release) /\ GoesThrough /\ Private
    /\ IF file = None /\ sig = None THEN CallVerify(c, "seal") ELSE Goto(c, "refused") /\ Stay

MoveArtifact(c) ==
    /\ pc[c] = "moveArtifact" /\ Goto(c, "moveSignature") /\ Stay /\ GoesThrough
    /\ file' = local[c].artifact
    /\ UNCHANGED <<keychain, raw, release, sealed, sig>>

MoveSignature(c) ==
    /\ pc[c] = "moveSignature" /\ Goto(c, "created") /\ Stay /\ GoesThrough
    /\ sig' = local[c].mac
    /\ UNCHANGED <<keychain, raw, release, sealed, file>>

Create(c) == CheckOutput(c) \/ SignArtifact(c) \/ MoveArtifact(c) \/ MoveSignature(c)

-----------------------------------------------------------------------------
(* bin/wapp-signed-drift-diagnostic verify.                                *)

BeginVerify(v) == pc[v] = "start" /\ CallVerify(v, "artifact") /\ GoesThrough /\ Private

\* Wrong on purpose, to test VouchedForSealIsSigned: the artifact is signed, so its
\* seal is not asked for a signature.
ReadBindingsOnly(v) ==
    /\ pc[v] = "bindings" /\ Stay /\ GoesThrough /\ Private
    /\ Goto(v, IF file = None THEN "refused" ELSE "open")

\* product-seal-path reads the artifact for the path of its seal.
ReadBindings(v) ==
    /\ pc[v] = "bindings" /\ GoesThrough /\ Private
    /\ IF file = None THEN Goto(v, "refused") /\ Stay ELSE CallVerify(v, "seal")

\* compare_bound_files.
Compare(v) ==
    /\ pc[v] = "compare" /\ Stay /\ GoesThrough /\ Private
    /\ Goto(v, IF file = local[v].artifact THEN "verified" ELSE "refused")

Verify(v) == BeginVerify(v) \/ ReadBindings(v) \/ Compare(v)

-----------------------------------------------------------------------------
(* What happens meanwhile.                                                 *)

Ended == {"created", "verified", "sealed", "refused", "killed"}

\* What a command has written stays.
Kill(i) ==
    /\ Affordable(Begun, failures, kills + 1, raw + release) /\ kills' = kills + 1
    /\ pc[i] \notin Ended \cup {"start"} /\ Goto(i, "killed") /\ Stay
    /\ UNCHANGED <<world, failures>>

Surroundings ==
    /\ \/ /\ Affordable(Begun, failures, kills, raw + release + 1)
          /\ \/ raw' = raw + 1 /\ UNCHANGED <<release, published>>
             \/ release' = release + 1 /\ UNCHANGED <<raw, published>>
       \* The operator takes away what a killed command has left.
       \/ /\ file # None /\ sig = None /\ \E c \in Creators : pc[c] = "killed"
          /\ file' = None /\ UNCHANGED <<raw, release, sig>>
    /\ UNCHANGED <<keychain, sealed, pc, local, counters>>

Next ==
    \/ \E s \in Sealers : Seal(s)
    \/ \E c \in Creators : Create(c)
    \/ \E v \in Verifiers : Verify(v)
    \/ \E i \in Creators \cup Verifiers : Derive(i)
    \/ \E i \in Commands : FindKey(i) \/ AddKey(i) \/ CompareMac(i) \/ Kill(i)
    \/ Surroundings

\* A command may stop at any point, and nobody has to start one.
Spec == Init /\ [][Next]_vars

-----------------------------------------------------------------------------
(* Properties.                                                             *)

Seals == [made : 0 .. seals, commit : 0 .. release, hashed : 0 .. release]

Artifacts == [header : 0 .. raw, deltas : 0 .. raw, sealed : Seals, version : 0 .. release]

TypeOK ==
    /\ key \in 0 .. keys \cup {None} /\ Affordable(Begun, failures, kills, raw + release)
    /\ seal \in Seals \cup {Unfinished, None} /\ file \in Artifacts \cup {None}
    /\ sealSig = None \/ (sealSig.key \in 0 .. keys /\ sealSig.of \in Seals \cup {Unfinished})
    /\ sig = None \/ (sig.key \in 0 .. keys /\ sig.of \in Artifacts)
    /\ \A i \in Commands : local[i].artifact \in Artifacts \cup {None}

\* Whatever fails, is killed or is written meanwhile, the artifact's header and
\* its deltas are of one capture.
PublishedIsOfOneCapture == file # None => file.header = file.deltas

\* What a verification vouches for names one release, in its seal's commit and
\* files and in its version, although an upgrade may come between any two reads of
\* sealers and of either command, and whatever fails or is killed; with one creator.
VerifiedIsWhole ==
    Begun <= 1 =>
        \A v \in Verifiers : pc[v] = "verified" =>
            LET a == local[v].artifact IN a.sealed.commit = a.version /\ a.sealed.hashed = a.version

\* The seal that a verification vouches for is the one whose signature it has
\* checked, although it reads the seal again after that, its creation did so too,
\* and sealers empty and write seal and signature in place meanwhile; with one
\* creator, and unless a call failed.
VouchedForSealIsSigned ==
    Begun <= 1 /\ failures = 0 =>
        \A v \in Verifiers : pc[v] = "verified" =>
            local[v].expected # None /\ local[v].expected.of = local[v].artifact.sealed

\* The output of a creation that was reported can be verified, as long as no call
\* fails, a key was there from the beginning and nobody else creates it.
CreatedStands ==
    failures = 0 /\ keys = 0 =>
        \A c \in Creators :
            pc[c] = "created" /\ (\A d \in Creators \ {c} : pc[d] \in {"start", "refused"}) =>
                file = local[c].artifact /\ sig = Mac(key, file)

=============================================================================
