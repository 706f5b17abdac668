------------------------- MODULE LoaderAndRuntimeProofs -------------------------
(***************************************************************************)
(* Proofs about the volatile runtime disposition, for every set of places, *)
(* every clock, every length of a capture's file and any number of changes *)
(* and captures; and about the staging of the ephemeral loader that runs   *)
(* the helpers, for every number of loaders of one operation.              *)
(***************************************************************************)
EXTENDS VolatileRuntime, EphemeralLoader, FiniteSetTheorems, TLAPS

-----------------------------------------------------------------------------
(* Types.                                                                  *)

Letters == {"A", "C", "L"}

Runnings ==
    [mode : {"diagnostic", "volatile-inventory"}, letter : Letters \cup {"none"},
     operation : Operations \cup {0}, stage : Nat, pass1 : Passes, pass2 : Passes]

Diagnostics == [pass1 : Passes, pass2 : Passes, operation : Operations \cup {0}, stage : Nat]

Dispositions ==
    [first : Nat, second : Nat, observed : Times \X Times, issued : Times, high : BOOLEAN, letter : Letters]

Candidates ==
    [pass1 : Passes, pass2 : Passes, letter : Letters \cup {"none"}, operation : Operations \cup {0},
     stage : Nat]

Inventories == [disposition : Dispositions, candidate : Candidates, at : Times]

TypeInv ==
    /\ now \in Times /\ place \in Places /\ file \in Passes
    /\ edits \in 0 .. MaxEdits /\ captures \in Nat
    /\ running \in Runnings \cup {NoFile} /\ raws \in Seq(Diagnostics)
    /\ disposition \in Dispositions \cup {NoFile} /\ tokens \subseteq Letters
    /\ candidate \in Candidates \cup {NoFile} /\ bound \in Inventories \cup {NoFile}

\* The states of the file that are changes of it.
Edits ==
    \/ AppendLine \/ Touch \/ Chmod \/ Delete
    \/ \E size \in 0 .. MaxSize, restored \in BOOLEAN : Rewrite(size, restored)
    \/ \E size \in 0 .. MaxSize : Replace(size)

\* What the helper admits, its proof of a log's earlier bytes included.
Admitted(c) ==
    /\ HelperAdmits(c.letter, c.pass1, c.pass2)
    /\ c.letter # "C" /\ c.pass1 # c.pass2 => c.pass1.size = 0 \/ c.pass1.base = c.pass2.base

\* The steps of a capture, and those of the commands.
Captures ==
    \/ \E operation \in Operations : StartDiagnostic(operation)
    \/ \E letter \in Letters, operation \in Operations : StartVolatile(letter, operation)
    \/ EndDiagnostic \/ SecondPass \/ EndVolatile \/ FailCapture

Creates ==
    \E i, j \in DOMAIN raws, high \in BOOLEAN, a, b, t \in Times : Create(i, j, a, b, t, high)

LEMMA NextKinds == Next => Edits \/ Captures \/ Creates \/ PolicyToken \/ InventoryCreate \/ Tick
  <1>1. ASSUME NEW i \in DOMAIN raws, NEW j \in DOMAIN raws, NEW high \in BOOLEAN,
               \E a, b, t \in Times : Create(i, j, a, b, t, high)
        PROVE  Creates
    BY <1>1 DEF Creates
  <1> QED
    BY <1>1 DEF Next, Edits, Captures, Letters

\* What a change makes of the file.
LEMMA EditTyped ==
    ASSUME TypeInv, Edits
    PROVE  /\ file' \in Passes /\ edits' = edits + 1 /\ edits' \in 0 .. MaxEdits
           /\ file' # NoFile => file'.ctime = now
           /\ file' # NoFile =>
                \/ file # NoFile /\ file'.base = file.base /\ file'.size = file.size
                \/ /\ file # NoFile /\ AppendLine /\ file.size # 0
                   /\ file'.base = file.base /\ file'.size = file.size + 1
                \/ file'.base = edits + 1 /\ file'.size # 0
                \/ file'.base = 0 /\ file'.size = 0
           /\ UNCHANGED <<now, place, captures, running, raws, disposition, tokens, candidate, bound>>
  <1>1. /\ file \in Passes /\ now \in Times /\ edits \in Nat /\ MaxEdits \in Nat /\ MaxSize \in Nat
        /\ edits \in 0 .. MaxEdits
    BY VolatileBoundsAssumption DEF TypeInv
  <1>2. file # NoFile => /\ file.ino \in 0 .. MaxEdits /\ file.exec \in BOOLEAN /\ file.base \in 0 .. MaxEdits
                         /\ file.size \in 0 .. MaxSize /\ file.mtime \in Times /\ file.ctime \in Times
    BY <1>1 DEF Passes, Files
  <1>3. CASE AppendLine
    <2>1. /\ file # NoFile /\ edits < MaxEdits /\ edits' = edits + 1 /\ file.size < MaxSize
          /\ UNCHANGED <<now, place, captures, running, raws, disposition, tokens, candidate, bound>>
      BY <1>3 DEF AppendLine, Change
    <2>2. file' = [ino |-> file.ino, exec |-> file.exec, base |-> IF file.size = 0 THEN edits + 1 ELSE file.base,
                   size |-> file.size + 1, mtime |-> now, ctime |-> now]
      BY <1>1, <1>3, <2>1 DEF AppendLine, Change, Passes, Files
    <2> QED
      BY <1>1, <1>2, <1>3, <2>1, <2>2 DEF Passes, Files
  <1>4. CASE Touch
    <2>1. /\ file # NoFile /\ edits < MaxEdits /\ edits' = edits + 1
          /\ UNCHANGED <<now, place, captures, running, raws, disposition, tokens, candidate, bound>>
      BY <1>4 DEF Touch, Change
    <2>2. file' = [ino |-> file.ino, exec |-> file.exec, base |-> file.base,
                   size |-> file.size, mtime |-> file.mtime, ctime |-> now]
      BY <1>1, <1>4, <2>1 DEF Touch, Change, Passes, Files
    <2> QED
      BY <1>1, <1>2, <2>1, <2>2 DEF Passes, Files
  <1>5. CASE Chmod
    <2>1. /\ file # NoFile /\ edits < MaxEdits /\ edits' = edits + 1
          /\ UNCHANGED <<now, place, captures, running, raws, disposition, tokens, candidate, bound>>
      BY <1>5 DEF Chmod, Change
    <2>2. file' = [ino |-> file.ino, exec |-> ~file.exec, base |-> file.base,
                   size |-> file.size, mtime |-> file.mtime, ctime |-> now]
      BY <1>1, <1>5, <2>1 DEF Chmod, Change, Passes, Files
    <2> QED
      BY <1>1, <1>2, <2>1, <2>2 DEF Passes, Files
  <1>6. CASE Delete
    BY <1>1, <1>6 DEF Delete, Change, Passes
  <1>7. ASSUME NEW size \in 0 .. MaxSize, NEW restored \in BOOLEAN, Rewrite(size, restored)
        PROVE  /\ edits < MaxEdits /\ edits' = edits + 1 /\ file' \in Passes /\ file'.ctime = now
               /\ (file'.base = edits + 1 /\ file'.size # 0) \/ (file'.base = 0 /\ file'.size = 0)
               /\ UNCHANGED <<now, place, captures, running, raws, disposition, tokens, candidate, bound>>
    <2>1. /\ file # NoFile /\ edits < MaxEdits /\ edits' = edits + 1
          /\ UNCHANGED <<now, place, captures, running, raws, disposition, tokens, candidate, bound>>
      BY <1>7 DEF Rewrite, Change
    <2>2. file' = [ino |-> file.ino, exec |-> file.exec, base |-> NewBase(size),
                   size |-> size, mtime |-> IF restored THEN file.mtime ELSE now, ctime |-> now]
      BY <1>1, <1>7, <2>1 DEF Rewrite, Change, Passes, Files
    <2> QED
      BY <1>1, <1>2, <2>1, <2>2 DEF Passes, Files, NewBase
  <1>8. ASSUME NEW size \in 0 .. MaxSize, Replace(size)
        PROVE  /\ edits < MaxEdits /\ edits' = edits + 1 /\ file' \in Passes /\ file'.ctime = now
               /\ (file'.base = edits + 1 /\ file'.size # 0) \/ (file'.base = 0 /\ file'.size = 0)
               /\ UNCHANGED <<now, place, captures, running, raws, disposition, tokens, candidate, bound>>
    BY <1>1, <1>8 DEF Replace, Change, NewBase, Passes, Files
  <1>9. edits < MaxEdits => edits + 1 \in 0 .. MaxEdits
    BY <1>1
  <1> QED
    BY <1>3, <1>4, <1>5, <1>6, <1>7, <1>8, <1>9 DEF Edits

\* What a capture's steps do to the capture, the diagnostics and the candidate.
LEMMA CaptureSteps ==
    ASSUME TypeInv, Captures
    PROVE  /\ UNCHANGED <<now, site, disposition, tokens, bound>>
           /\ captures' \in Nat
           /\ \/ /\ running' \in Runnings /\ running'.pass1 = file /\ UNCHANGED <<raws, candidate>>
                 /\ running'.pass2 = NoFile
                 /\ running'.mode = "volatile-inventory" => running'.letter \in tokens
              \/ /\ running # NoFile /\ running' \in Runnings /\ UNCHANGED <<raws, candidate>>
                 /\ running'.pass1 = running.pass1 /\ running'.pass2 = file
                 /\ running'.mode = running.mode /\ running'.letter = running.letter
                 /\ HelperAdmits(running.letter, running.pass1, file)
              \/ /\ running # NoFile /\ running' = NoFile /\ candidate' = candidate
                 /\ \E e \in Diagnostics : /\ raws' = Append(raws, e)
                                           /\ e.pass1 = running.pass1 /\ e.pass2 = file
              \/ /\ running # NoFile /\ running' = NoFile /\ raws' = raws
                 /\ running.pass2 # NoFile /\ Proved(running.letter, running.pass1, running.pass2)
                 /\ candidate' \in Candidates /\ candidate'.letter = running.letter
                 /\ candidate'.pass1 = running.pass1 /\ candidate'.pass2 = running.pass2
              \/ running' = NoFile /\ UNCHANGED <<raws, candidate>>
  <1>1. /\ file \in Passes /\ captures \in Nat /\ running \in Runnings \cup {NoFile} /\ tokens \subseteq Letters
        /\ captures + 1 \in Nat /\ NoFile \in Passes
    BY DEF TypeInv, Passes
  <1>2. ASSUME NEW operation \in Operations, StartDiagnostic(operation)
        PROVE  /\ UNCHANGED <<now, site, disposition, tokens, bound>> /\ captures' \in Nat
               /\ running' \in Runnings /\ running'.pass1 = file /\ UNCHANGED <<raws, candidate>>
               /\ running'.pass2 = NoFile /\ running'.mode = "diagnostic"
    BY <1>1, <1>2 DEF StartDiagnostic, Capture, Runnings
  <1>3. ASSUME NEW letter \in Letters, NEW operation \in Operations, StartVolatile(letter, operation)
        PROVE  /\ UNCHANGED <<now, site, disposition, tokens, bound>> /\ captures' \in Nat
               /\ running' \in Runnings /\ running'.pass1 = file /\ UNCHANGED <<raws, candidate>>
               /\ running'.pass2 = NoFile /\ running'.letter \in tokens
    BY <1>1, <1>3 DEF StartVolatile, Capture, Runnings
  <1>4. ASSUME EndDiagnostic
        PROVE  /\ UNCHANGED <<now, site, captures, disposition, tokens, bound>>
               /\ running # NoFile /\ running' = NoFile /\ candidate' = candidate
               /\ \E e \in Diagnostics : /\ raws' = Append(raws, e)
                                         /\ e.pass1 = running.pass1 /\ e.pass2 = file
    <2> DEFINE e == [pass1 |-> running.pass1, pass2 |-> file,
                     operation |-> running.operation, stage |-> running.stage]
    <2>1. running # NoFile /\ running \in Runnings
      BY <1>1, <1>4 DEF EndDiagnostic
    <2>2. e \in Diagnostics
      BY <1>1, <2>1 DEF Runnings, Diagnostics
    <2>3. raws' = Append(raws, e) /\ e.pass1 = running.pass1 /\ e.pass2 = file
      BY <1>4 DEF EndDiagnostic
    <2> HIDE DEF e
    <2> QED
      BY <1>4, <2>1, <2>2, <2>3 DEF EndDiagnostic
  <1>5. ASSUME EndVolatile
        PROVE  /\ UNCHANGED <<now, site, captures, disposition, tokens, bound>>
               /\ running # NoFile /\ running' = NoFile /\ raws' = raws
               /\ running.pass2 # NoFile /\ Proved(running.letter, running.pass1, running.pass2)
               /\ candidate' \in Candidates /\ candidate'.letter = running.letter
               /\ candidate'.pass1 = running.pass1 /\ candidate'.pass2 = running.pass2
    <2>1. running # NoFile /\ running \in Runnings
      BY <1>1, <1>5 DEF EndVolatile
    <2>2. candidate' = [pass1 |-> running.pass1, pass2 |-> running.pass2, letter |-> running.letter,
                        operation |-> running.operation, stage |-> running.stage]
      BY <1>5 DEF EndVolatile
    <2>3. candidate' \in Candidates
      BY <1>1, <2>1, <2>2 DEF Runnings, Candidates
    <2> QED
      BY <1>5, <2>1, <2>2, <2>3 DEF EndVolatile
  <1>7. ASSUME SecondPass
        PROVE  /\ UNCHANGED <<now, site, captures, disposition, tokens, bound>>
               /\ running # NoFile /\ running' \in Runnings /\ UNCHANGED <<raws, candidate>>
               /\ running'.pass1 = running.pass1 /\ running'.pass2 = file
               /\ running'.mode = running.mode /\ running'.letter = running.letter
               /\ HelperAdmits(running.letter, running.pass1, file)
    BY <1>1, <1>7 DEF SecondPass, Runnings
  <1>6. CASE FailCapture
    BY <1>1, <1>6 DEF FailCapture
  <1> QED
    BY <1>1, <1>2, <1>3, <1>4, <1>5, <1>6, <1>7 DEF Captures

\* d is what the raw diagnostics it names give.
Derived(d) ==
    /\ d.first \in DOMAIN raws /\ d.second \in DOMAIN raws
    /\ Disposable(d.first, d.second, d.high)
    /\ d.letter = Letter(Behavior(raws[d.first].pass1, raws[d.first].pass2))
    /\ Issuable(d.observed[1], d.observed[2], d.issued)

\* What the commands do.
LEMMA CommandSteps ==
    ASSUME TypeInv, Creates \/ PolicyToken \/ InventoryCreate
    PROVE  /\ UNCHANGED <<now, site, captures, running, raws, candidate>>
           /\ \/ /\ disposition' \in Dispositions /\ Derived(disposition)' /\ UNCHANGED <<tokens, bound>>
                 /\ \E i, j \in DOMAIN raws, high \in BOOLEAN :
                       Disposable(i, j, high) /\ disposition'.first = i /\ disposition'.second = j
              \/ /\ disposition # NoFile /\ tokens' = tokens \cup {disposition.letter}
                 /\ UNCHANGED <<disposition, bound>>
              \/ /\ NoFile \notin {disposition, candidate}
                 /\ bound' = [disposition |-> disposition, candidate |-> candidate, at |-> now]
                 /\ InventoryDerive(disposition, candidate) /\ UNCHANGED <<disposition, tokens>>
  <1>1. ASSUME NEW i \in DOMAIN raws, NEW j \in DOMAIN raws, NEW high \in BOOLEAN,
               NEW a \in Times, NEW b \in Times, NEW t \in Times, Create(i, j, a, b, t, high)
        PROVE  /\ UNCHANGED <<now, site, captures, running, raws, candidate, tokens, bound>>
               /\ disposition' \in Dispositions /\ Derived(disposition)'
               /\ Disposable(i, j, high) /\ disposition'.first = i /\ disposition'.second = j
    <2>1. /\ Disposable(i, j, high) /\ Issuable(a, b, t)
          /\ disposition' = [first |-> i, second |-> j, observed |-> <<a, b>>, issued |-> t, high |-> high,
                             letter |-> Letter(Behavior(raws[i].pass1, raws[i].pass2))]
          /\ UNCHANGED <<now, site, captures, running, raws, tokens, candidate, bound>>
      BY <1>1 DEF Create
    <2>2. i \in Nat /\ j \in Nat
      BY DEF TypeInv
    <2>3. Letter(Behavior(raws[i].pass1, raws[i].pass2)) \in Letters
      BY DEF Letter, Letters
    <2>4. disposition' \in Dispositions
      BY <2>1, <2>2, <2>3 DEF Dispositions
    <2>5. place' = place /\ raws' = raws
      BY <2>1 DEF site
    <2>6. /\ disposition'.first = i /\ disposition'.second = j /\ disposition'.high = high
          /\ disposition'.observed[1] = a /\ disposition'.observed[2] = b /\ disposition'.issued = t
          /\ disposition'.letter = Letter(Behavior(raws[i].pass1, raws[i].pass2))
      BY <2>1
    <2>7. Disposable(i, j, high)'
      BY <2>1, <2>5 DEF Disposable, RuntimeContinuity, Continuous, HighSensitivityState, ProvenanceScope,
         RoleAdmits, Behavior, CtimeOnly, Grows, Rest
    <2>8. Letter(Behavior(raws[i].pass1, raws[i].pass2))' = Letter(Behavior(raws[i].pass1, raws[i].pass2))
      BY <2>5 DEF Letter
    <2> QED
      BY <2>1, <2>4, <2>5, <2>6, <2>7, <2>8 DEF Derived, Issuable
  <1>2. CASE Creates
    BY <1>1, <1>2 DEF Creates
  <1>3. CASE PolicyToken
    BY <1>3 DEF PolicyToken
  <1>4. CASE InventoryCreate
    BY <1>4 DEF InventoryCreate
  <1> QED
    BY <1>2, <1>3, <1>4

LEMMA TypesInitially ==
    ASSUME Init
    PROVE  TypeInv
  <1>1. 0 \in Times /\ 0 \in 0 .. MaxEdits /\ 0 \in 0 .. MaxSize
    BY VolatileBoundsAssumption DEF Times
  <1>2. file \in Files
    BY <1>1 DEF Init, Files
  <1> QED
    BY <1>1, <1>2 DEF Init, TypeInv, Passes

LEMMA TypesKept ==
    ASSUME TypeInv, [Next]_vars
    PROVE  TypeInv'
  <1> USE DEF site
  <1>1. CASE UNCHANGED vars
    BY <1>1 DEF TypeInv, vars
  <1>2. CASE Edits
    BY <1>2, EditTyped DEF TypeInv
  <1>3. CASE Captures
    <2>1. \A e \in Diagnostics : Append(raws, e) \in Seq(Diagnostics)
      BY DEF TypeInv
    <2> QED
      BY <1>3, <2>1, CaptureSteps DEF TypeInv
  <1>4. CASE Creates \/ PolicyToken \/ InventoryCreate
    <2>1. disposition # NoFile => disposition.letter \in Letters
      BY DEF TypeInv, Dispositions
    <2>2. NoFile \notin {disposition, candidate} =>
            [disposition |-> disposition, candidate |-> candidate, at |-> now] \in Inventories
      BY DEF TypeInv, Inventories
    <2> QED
      BY <1>4, <2>1, <2>2, CommandSteps DEF TypeInv
  <1>5. CASE Tick
    BY <1>5, VolatileBoundsAssumption DEF Tick, TypeInv, Times
  <1> QED
    BY <1>1, <1>2, <1>3, <1>4, <1>5, NextKinds

-----------------------------------------------------------------------------
(* The order of what was seen.                                             *)

\* What a file can be by a time and a number of changes: only an empty one begins
\* with no bytes.
Sound(p, time, count) ==
    p # NoFile => p.ctime <= time /\ p.base <= count /\ (p.base = 0 <=> p.size = 0)

\* q may come after p: a change time does not go back, what a file begins with does
\* not return, and as long as it stays the file only grows.
Before(p, q) ==
    NoFile \notin {p, q} =>
        /\ p.ctime <= q.ctime
        /\ q.base # 0 => p.base <= q.base
        /\ q.base # 0 /\ p.base = q.base => p.size <= q.size

Seen(k) == {raws[k].pass1, raws[k].pass2}

\* The passes come one after the other, and before what is there now.
History ==
    /\ Sound(file, now, edits)
    /\ running # NoFile =>
        /\ Sound(running.pass1, now, edits) /\ Before(running.pass1, file)
        /\ running.pass2 # NoFile => /\ Sound(running.pass2, now, edits)
                                    /\ Before(running.pass1, running.pass2) /\ Before(running.pass2, file)
    /\ \A k \in DOMAIN raws :
        /\ \A p \in Seen(k) :
            /\ Sound(p, now, edits) /\ Before(p, file)
            /\ running # NoFile => Before(p, running.pass1)
        /\ Before(raws[k].pass1, raws[k].pass2)
    /\ \A j, k \in DOMAIN raws : j < k => \A p \in Seen(j), q \in Seen(k) : Before(p, q)

\* Every pass that was seen is a state a file can be in.
LEMMA SeenTyped ==
    ASSUME TypeInv
    PROVE  /\ \A k \in DOMAIN raws : raws[k] \in Diagnostics /\ Seen(k) \subseteq Passes
           /\ running # NoFile => running.pass1 \in Passes /\ running.pass2 \in Passes
           /\ \A p \in Passes : p # NoFile => /\ p.ctime \in Nat /\ p.base \in Nat /\ p.size \in Nat
  <1>1. \A k \in DOMAIN raws : raws[k] \in Diagnostics
    BY DEF TypeInv
  <1>2. \A d \in Diagnostics : d.pass1 \in Passes /\ d.pass2 \in Passes
    BY DEF Diagnostics
  <1>3. running # NoFile => running.pass1 \in Passes /\ running.pass2 \in Passes
    BY DEF TypeInv, Runnings
  <1>4. \A p \in Passes : p # NoFile => /\ p.ctime \in Nat /\ p.base \in Nat /\ p.size \in Nat
    BY DEF Passes, Files, Times
  <1> QED
    BY <1>1, <1>2, <1>3, <1>4 DEF Seen

LEMMA BeforeItself ==
    ASSUME NEW p \in Passes
    PROVE  Before(p, p)
  BY DEF Before, Passes, Files, Times

\* The file as it is comes after all that it has been.
LEMMA EditsGoOn ==
    ASSUME TypeInv, Sound(file, now, edits), Edits
    PROVE  /\ Sound(file', now, edits')
           /\ \A p \in Passes : Sound(p, now, edits) => Sound(p, now, edits')
           /\ \A p \in Passes : Sound(p, now, edits) /\ Before(p, file) => Before(p, file')
  <1>1. /\ now \in Nat /\ edits \in Nat /\ file \in Passes /\ file' \in Passes /\ edits' = edits + 1
        /\ file' # NoFile => file'.ctime = now
        /\ file' # NoFile =>
             \/ file # NoFile /\ file'.base = file.base /\ file'.size = file.size
             \/ file # NoFile /\ file.size # 0 /\ file'.base = file.base /\ file'.size = file.size + 1
             \/ file'.base = edits + 1 /\ file'.size # 0
             \/ file'.base = 0 /\ file'.size = 0
    BY EditTyped DEF TypeInv, Times
  <1>2. \A p \in Passes : p # NoFile => /\ p.ctime \in Nat /\ p.base \in Nat /\ p.size \in Nat
    BY SeenTyped
  <1>3. Sound(file', now, edits')
    BY <1>1, <1>2 DEF Sound
  <1>4. \A p \in Passes : Sound(p, now, edits) => Sound(p, now, edits')
    BY <1>1, <1>2 DEF Sound
  <1>5. ASSUME NEW p \in Passes, Sound(p, now, edits), Before(p, file)
        PROVE  Before(p, file')
    BY <1>1, <1>2, <1>5 DEF Sound, Before
  <1> QED
    BY <1>3, <1>4, <1>5

LEMMA HistoryKept ==
    ASSUME TypeInv, History, [Next]_vars
    PROVE  History'
  <1>1. /\ \A k \in DOMAIN raws : Seen(k) \subseteq Passes /\ raws[k].pass1 \in Seen(k) /\ raws[k].pass2 \in Seen(k)
        /\ running # NoFile => running.pass1 \in Passes /\ running.pass2 \in Passes
        /\ file \in Passes /\ now \in Nat /\ edits \in Nat /\ raws \in Seq(Diagnostics)
    BY SeenTyped DEF TypeInv, Times, Seen
  <1>2. \A p \in Passes : p # NoFile => /\ p.ctime \in Nat /\ p.base \in Nat /\ p.size \in Nat
    BY SeenTyped
  <1>3. CASE UNCHANGED <<now, edits, file, running, raws>>
    BY <1>3 DEF History, Seen
  <1>4. CASE Edits
    <2>1. UNCHANGED <<now, running, raws>>
      BY <1>4, EditTyped
    <2>2. /\ Sound(file', now, edits')
          /\ \A p \in Passes : Sound(p, now, edits) => Sound(p, now, edits')
          /\ \A p \in Passes : Sound(p, now, edits) /\ Before(p, file) => Before(p, file')
      BY <1>4, EditsGoOn DEF History
    <2> QED
      BY <1>1, <2>1, <2>2 DEF History, Seen
  <1>5. CASE Tick
    <2>1. now' = now + 1 /\ UNCHANGED <<edits, file, running, raws>>
      BY <1>5 DEF Tick, site
    <2>2. \A p \in Passes : Sound(p, now, edits) => Sound(p, now + 1, edits)
      BY <1>1, <1>2 DEF Sound
    <2> QED
      BY <1>1, <2>1, <2>2 DEF History, Seen
  <1>6. ASSUME UNCHANGED <<now, edits, file, raws>>,
               running' # NoFile => running'.pass1 = file /\ running'.pass2 = NoFile
        PROVE  History'
    <2>1. Before(file, file)
      BY <1>1, BeforeItself
    <2> QED
      BY <1>6, <2>1 DEF History, Seen
  <1>7. ASSUME UNCHANGED <<now, edits, file>>, running # NoFile, running' = NoFile,
               NEW e \in Diagnostics, raws' = Append(raws, e), e.pass1 = running.pass1, e.pass2 = file
        PROVE  History'
    <2>1. /\ DOMAIN raws' = DOMAIN raws \cup {Len(raws) + 1} /\ Len(raws) + 1 \notin DOMAIN raws
          /\ \A k \in DOMAIN raws : raws'[k] = raws[k] /\ k < Len(raws) + 1
          /\ raws'[Len(raws) + 1] = e /\ DOMAIN raws \subseteq Nat /\ Len(raws) \in Nat
      BY <1>1, <1>7
    <2> DEFINE last == Len(raws) + 1
               SeenNow(k) == {raws'[k].pass1, raws'[k].pass2}
    <2>2. \A k \in DOMAIN raws : SeenNow(k) = Seen(k)
      BY <2>1 DEF Seen
    <2>3. SeenNow(last) = {running.pass1, file}
      BY <1>7, <2>1
    <2>4. /\ Before(file, file) /\ Before(running.pass1, file)
          /\ Sound(file, now, edits) /\ Sound(running.pass1, now, edits)
      BY <1>1, <1>7, BeforeItself DEF History
    <2>5. \A k \in DOMAIN raws : \A p \in Seen(k) :
            Sound(p, now, edits) /\ Before(p, file) /\ Before(p, running.pass1)
      BY <1>7 DEF History
    <2>6. \A k \in DOMAIN raws' : \A p \in SeenNow(k) : Sound(p, now, edits) /\ Before(p, file)
      BY <2>1, <2>2, <2>3, <2>4, <2>5
    <2>7. \A k \in DOMAIN raws' : Before(raws'[k].pass1, raws'[k].pass2)
      BY <1>7, <2>1, <2>4 DEF History
    <2>8. ASSUME NEW j \in DOMAIN raws', NEW k \in DOMAIN raws', j < k,
                 NEW p \in SeenNow(j), NEW q \in SeenNow(k)
          PROVE  Before(p, q)
      <3>1. j \in DOMAIN raws
        BY <2>1, <2>8
      <3>2. CASE k \in DOMAIN raws
        BY <2>2, <2>8, <3>1, <3>2 DEF History
      <3>3. CASE k = last
        BY <2>2, <2>3, <2>5, <2>8, <3>1, <3>3
      <3> QED
        BY <2>1, <3>2, <3>3
    <2> QED
      BY <1>7, <2>4, <2>6, <2>7, <2>8 DEF History, Seen
  <1>8. CASE Captures
    <2>1. CASE running' \in Runnings /\ running'.pass1 = file /\ running'.pass2 = NoFile /\ raws' = raws
      BY <1>6, <1>8, <2>1, CaptureSteps DEF site
    <2>2. CASE running' = NoFile /\ raws' = raws
      BY <1>6, <1>8, <2>2, CaptureSteps DEF site
    <2>3. CASE /\ running # NoFile /\ running' = NoFile
               /\ \E e \in Diagnostics : /\ raws' = Append(raws, e)
                                         /\ e.pass1 = running.pass1 /\ e.pass2 = file
      BY <1>7, <1>8, <2>3, CaptureSteps DEF site
    <2>4. CASE /\ running # NoFile /\ running' \in Runnings /\ raws' = raws
               /\ running'.pass1 = running.pass1 /\ running'.pass2 = file
      <3>1. UNCHANGED <<now, edits, file, raws>>
        BY <1>8, <2>4, CaptureSteps DEF site
      <3>2. Before(file, file)
        BY <1>1, BeforeItself
      <3> QED
        BY <2>4, <3>1, <3>2 DEF History, Seen
    <2> QED
      BY <1>8, <2>1, <2>2, <2>3, <2>4, CaptureSteps
  <1>9. CASE Creates \/ PolicyToken \/ InventoryCreate
    BY <1>3, <1>9, CommandSteps DEF site
  <1>10. CASE UNCHANGED vars
    BY <1>3, <1>10 DEF vars, site
  <1> QED
    BY <1>4, <1>5, <1>8, <1>9, <1>10, NextKinds

\* Whatever two observations are disposed of, the second was taken after the first.
LEMMA Ordered ==
    ASSUME TypeInv, History, NEW i \in DOMAIN raws, NEW j \in DOMAIN raws, NEW high \in BOOLEAN,
           Disposable(i, j, high)
    PROVE  i < j
  <1> DEFINE s == raws[i].pass1
             t == raws[i].pass2
             u == raws[j].pass1
             w == raws[j].pass2
             behavior == Behavior(s, t)
  <1>1. /\ behavior \in Behaviors /\ Behavior(u, w) = behavior
        /\ IF behavior = "CTIME_ONLY" THEN Rest(t) = Rest(u) /\ t.ctime <= u.ctime ELSE t = u
    BY DEF Disposable, Continuous
  <1>2. /\ NoFile \notin {s, t, u, w} /\ s \in Passes /\ t \in Passes /\ u \in Passes /\ w \in Passes
    <2>1. \A p, q : NoFile \in {p, q} => Behavior(p, q) \notin Behaviors
      BY DEF Behavior, Behaviors
    <2>2. s \in Seen(i) /\ t \in Seen(i) /\ u \in Seen(j) /\ w \in Seen(j)
      BY DEF Seen
    <2> QED
      BY <1>1, <2>1, <2>2, SeenTyped
  <1>3. /\ s.ctime \in Nat /\ s.base \in Nat /\ s.size \in Nat /\ t.ctime \in Nat /\ t.base \in Nat /\ t.size \in Nat
        /\ u.ctime \in Nat /\ u.base \in Nat /\ u.size \in Nat /\ w.ctime \in Nat /\ w.base \in Nat /\ w.size \in Nat
    BY <1>2, SeenTyped
  <1>4. /\ Before(s, t) /\ Before(u, w)
        /\ Sound(s, now, edits) /\ Sound(t, now, edits) /\ Sound(u, now, edits) /\ Sound(w, now, edits)
    BY DEF History, Seen
  <1>5. ASSUME j < i
        PROVE  Before(u, s) /\ Before(u, t) /\ Before(w, s) /\ Before(w, t)
    BY <1>5 DEF History, Seen
  <1>6. CASE behavior = "CTIME_ONLY"
    <2>1. \A p, q : Behavior(p, q) = "CTIME_ONLY" => p.ctime # q.ctime
      BY DEF Behavior, CtimeOnly
    <2>2. s.ctime < t.ctime /\ u.ctime < w.ctime /\ t.ctime <= u.ctime
      BY <1>1, <1>2, <1>3, <1>4, <1>6, <2>1 DEF Before
    <2>3. i # j
      BY <1>3, <2>2
    <2>4. ~(j < i)
      BY <1>2, <1>3, <1>5, <2>2 DEF Before
    <2> QED
      BY <2>3, <2>4 DEF TypeInv
  <1>7. CASE behavior = "LOG_GROWTH"
    <2>1. \A p, q : Behavior(p, q) = "LOG_GROWTH" => p.size < q.size
      BY DEF Behavior, Grows
    <2>2. s.size < t.size /\ u.size < w.size /\ t = u
      BY <1>1, <1>7, <2>1
    <2>3. i # j
      BY <1>3, <2>2
    <2>4. t.base # 0 /\ w.base # 0
      BY <1>2, <1>3, <1>4, <2>2 DEF Sound
    <2>5. ~(j < i)
      BY <1>2, <1>3, <1>4, <1>5, <2>2, <2>4 DEF Before
    <2> QED
      BY <2>3, <2>5 DEF TypeInv
  <1> QED
    BY <1>1, <1>6, <1>7 DEF Behaviors

InOrder == History /\ ObservationsInOrder

LEMMA InOrderKept ==
    ASSUME TypeInv, InOrder, [Next]_vars
    PROVE  InOrder'
  <1>1. History'
    BY HistoryKept DEF InOrder
  <1>2. CASE UNCHANGED disposition
    BY <1>1, <1>2 DEF InOrder, ObservationsInOrder
  <1>3. CASE Creates \/ PolicyToken \/ InventoryCreate
    <2>1. \/ UNCHANGED disposition
          \/ \E i, j \in DOMAIN raws, high \in BOOLEAN :
                Disposable(i, j, high) /\ disposition'.first = i /\ disposition'.second = j
      BY <1>3, CommandSteps
    <2>2. ASSUME NEW i \in DOMAIN raws, NEW j \in DOMAIN raws, NEW high \in BOOLEAN, Disposable(i, j, high)
          PROVE  i < j
      BY <2>2, Ordered DEF InOrder
    <2> QED
      BY <1>1, <1>2, <2>1, <2>2 DEF InOrder, ObservationsInOrder
  <1> QED
    BY <1>2, <1>3, NextKinds, EditTyped, CaptureSteps DEF Tick, vars

LEMMA AlwaysTyped == Spec => []TypeInv
  BY TypesInitially, TypesKept, PTL DEF Spec

LEMMA AlwaysHistory == Spec => []History
  <1>1. Init => History
    <2>1. Init => Sound(file, now, edits)
      BY DEF Init, Sound
    <2> QED
      BY <2>1 DEF Init, History
  <1> QED
    BY <1>1, HistoryKept, AlwaysTyped, PTL DEF Spec

\* The first observation of a disposition was taken before the second, although
\* their caller names both the operations and the times: a change time never goes
\* back, what a file begins with never returns once it was written anew, and so no
\* later observation can end where an earlier one starts.
THEOREM ObservationsOrdered == Spec => []ObservationsInOrder
  <1>1. Init => InOrder
    <2>1. Init => Sound(file, now, edits)
      BY DEF Init, Sound
    <2> QED
      BY <2>1 DEF Init, InOrder, History, ObservationsInOrder
  <1>2. TypeInv /\ InOrder /\ [Next]_vars => InOrder'
    BY InOrderKept
  <1>3. InOrder => ObservationsInOrder
    BY DEF InOrder
  <1> QED
    BY <1>1, <1>2, <1>3, AlwaysTyped, PTL DEF Spec

-----------------------------------------------------------------------------
(* What is handed on: the disposition, its token, the candidate, what is   *)
(* bound.                                                                   *)

\* A letter says where its file lies.
Placed(letter) == (letter = "A" => place.upload) /\ (letter = "L" => ~place.upload)

Handed ==
    /\ disposition # NoFile => Derived(disposition)
    /\ \A letter \in tokens : Placed(letter)
    /\ running # NoFile /\ running.mode = "volatile-inventory" =>
           running.letter \in Letters /\ Placed(running.letter)
    /\ running # NoFile /\ running.pass2 # NoFile =>
           HelperAdmits(running.letter, running.pass1, running.pass2)
    /\ candidate # NoFile => Admitted(candidate)
    /\ bound # NoFile =>
        /\ Derived(bound.disposition) /\ Admitted(bound.candidate)
        /\ ParseCandidate(bound.disposition, bound.candidate)
        /\ bound.disposition.issued <= bound.at /\ bound.at <= now
        /\ bound.at <= bound.disposition.issued + Lifetime

\* The token of a disposition.
LEMMA TokenIsPlaced ==
    ASSUME NEW d, Derived(d)
    PROVE  Placed(d.letter)
  BY DEF Derived, Letter, Placed

\* What was derived is derived again from more diagnostics.
LEMMA DerivedStays ==
    ASSUME TypeInv, NEW d, NEW c, place' = place,
           \A k \in DOMAIN raws : k \in DOMAIN raws' /\ raws'[k] = raws[k]
    PROVE  /\ Derived(d) => Derived(d)'
           /\ Derived(d) /\ ParseCandidate(d, c) => ParseCandidate(d, c)'
           /\ Admitted(c) => Admitted(c)'
  <1>1. ASSUME Derived(d)
        PROVE  Derived(d)'
    <2>1. /\ raws'[d.first] = raws[d.first] /\ raws'[d.second] = raws[d.second]
          /\ d.first \in DOMAIN raws' /\ d.second \in DOMAIN raws'
      BY <1>1 DEF Derived
    <2>2. Disposable(d.first, d.second, d.high)'
      <3>1. Disposable(d.first, d.second, d.high)
        BY <1>1 DEF Derived
      <3>2. /\ RuntimeContinuity(d.first, d.second) => RuntimeContinuity(d.first, d.second)'
            /\ ProvenanceScope(d.high) => ProvenanceScope(d.high)'
        BY <2>1 DEF RuntimeContinuity, ProvenanceScope
      <3>3. /\ Behavior(raws[d.first].pass1, raws[d.first].pass2)'
                = Behavior(raws[d.first].pass1, raws[d.first].pass2)
            /\ Behavior(raws[d.second].pass1, raws[d.second].pass2)'
                = Behavior(raws[d.second].pass1, raws[d.second].pass2)
        BY <2>1 DEF Behavior, CtimeOnly, Grows, Rest
      <3>4. Continuous(d.first, d.second) => Continuous(d.first, d.second)'
        BY <2>1, <3>3 DEF Continuous, Rest
      <3>5. HighSensitivityState(d.first, d.second) => HighSensitivityState(d.first, d.second)'
        BY <2>1 DEF HighSensitivityState, Rest
      <3>6. \A behavior : RoleAdmits(behavior) => RoleAdmits(behavior)'
        BY DEF RoleAdmits
      <3> QED
        BY <3>1, <3>2, <3>3, <3>4, <3>5, <3>6 DEF Disposable
    <2>3. Letter(Behavior(raws[d.first].pass1, raws[d.first].pass2))'
            = Letter(Behavior(raws[d.first].pass1, raws[d.first].pass2))
      BY <2>1 DEF Letter
    <2> QED
      BY <1>1, <2>1, <2>2, <2>3 DEF Derived, Issuable
  <1>2. ASSUME Derived(d), ParseCandidate(d, c)
        PROVE  ParseCandidate(d, c)'
    <2>1. raws'[d.first] = raws[d.first] /\ raws'[d.second] = raws[d.second]
      BY <1>2 DEF Derived
    <2> QED
      BY <1>2, <2>1 DEF ParseCandidate, NotReplayed, StateUnchanged, Rest
  <1>3. ASSUME Admitted(c)
        PROVE  Admitted(c)'
    BY <1>3 DEF Admitted, HelperAdmits, CtimeOnly, Rest, MonotonicLogGrowth, Grows
  <1> QED
    BY <1>1, <1>2, <1>3

\* So what is not replaced stays what it was.
LEMMA HandedStays ==
    ASSUME TypeInv, Handed, place' = place,
           \A k \in DOMAIN raws : k \in DOMAIN raws' /\ raws'[k] = raws[k]
    PROVE  /\ disposition' = disposition /\ disposition # NoFile => Derived(disposition)'
           /\ candidate' = candidate /\ candidate # NoFile => Admitted(candidate)'
           /\ bound' = bound /\ bound # NoFile =>
                /\ Derived(bound.disposition)' /\ Admitted(bound.candidate)'
                /\ ParseCandidate(bound.disposition, bound.candidate)'
  <1>1. \A d : Derived(d) => Derived(d)'
    BY DerivedStays
  <1>2. \A c : Admitted(c) => Admitted(c)'
    BY DerivedStays
  <1>3. \A d, c : Derived(d) /\ ParseCandidate(d, c) => ParseCandidate(d, c)'
    BY DerivedStays
  <1> QED
    BY <1>1, <1>2, <1>3 DEF Handed

\* A log that is proved to begin as the first pass saw it began so in the second.
LEMMA ProofCoversSecondPass ==
    ASSUME TypeInv, History, running # NoFile, running.pass2 # NoFile,
           HelperAdmits(running.letter, running.pass1, running.pass2),
           Proved(running.letter, running.pass1, running.pass2),
           running.letter # "C", running.pass1 # running.pass2
    PROVE  running.pass1.size = 0 \/ running.pass1.base = running.pass2.base
  <1> DEFINE s == running.pass1
             t == running.pass2
  <1> SUFFICES ASSUME s.size # 0
               PROVE  s.base = t.base
    OBVIOUS
  <1>1. /\ s \in Passes /\ t \in Passes /\ file \in Passes /\ NoFile \notin {s, t}
        /\ \A p \in Passes : p # NoFile => p.base \in Nat /\ p.size \in Nat
    BY SeenTyped DEF TypeInv, HelperAdmits
  <1>2. file # NoFile /\ s.base = file.base
    BY DEF Proved, LogPrefix
  <1>3. s.size < t.size
    BY DEF HelperAdmits, MonotonicLogGrowth, Grows
  <1>4. /\ Sound(s, now, edits) /\ Sound(t, now, edits) /\ Before(s, t) /\ Before(t, file)
    BY DEF History
  <1>5. s.base # 0 /\ t.base # 0
    BY <1>1, <1>3, <1>4 DEF Sound
  <1>6. s.base <= t.base /\ t.base <= s.base
    BY <1>1, <1>2, <1>4, <1>5 DEF Before
  <1> QED
    BY <1>1, <1>6

\* A candidate was admitted.
LEMMA CandidateAdmitted ==
    ASSUME TypeInv, History, Handed, place' = place, running # NoFile, running.pass2 # NoFile,
           Proved(running.letter, running.pass1, running.pass2),
           candidate'.letter = running.letter,
           candidate'.pass1 = running.pass1, candidate'.pass2 = running.pass2
    PROVE  Admitted(candidate)'
  <1>1. HelperAdmits(running.letter, running.pass1, running.pass2)
    BY DEF Handed
  <1>2. running.letter # "C" /\ running.pass1 # running.pass2 =>
            running.pass1.size = 0 \/ running.pass1.base = running.pass2.base
    BY <1>1, ProofCoversSecondPass
  <1>3. HelperAdmits(running.letter, running.pass1, running.pass2)
           => HelperAdmits(candidate.letter, candidate.pass1, candidate.pass2)'
    BY DEF HelperAdmits, CtimeOnly, Rest, MonotonicLogGrowth, Grows
  <1> QED
    BY <1>1, <1>2, <1>3 DEF Admitted

LEMMA HandedKept ==
    ASSUME TypeInv, History, Handed, [Next]_vars
    PROVE  Handed'
  <1>1. /\ raws \in Seq(Diagnostics) /\ tokens \subseteq Letters /\ now \in Nat
        /\ bound # NoFile => bound.at \in Nat
    BY DEF TypeInv, Times, Inventories
  <1>2. ASSUME UNCHANGED <<place, disposition, tokens, bound>>, now <= now', now' \in Nat,
               \A k \in DOMAIN raws : k \in DOMAIN raws' /\ raws'[k] = raws[k],
               candidate' = candidate \/ Admitted(candidate)',
               \/ running' = running \/ running' = NoFile
               \/ /\ running' \in Runnings /\ running'.pass2 = NoFile
                  /\ running'.mode = "volatile-inventory" => running'.letter \in tokens
               \/ /\ running # NoFile /\ running' \in Runnings
                  /\ running'.mode = running.mode /\ running'.letter = running.letter
                  /\ HelperAdmits(running'.letter, running'.pass1, running'.pass2)
        PROVE  Handed'
    <2>1. disposition # NoFile => Derived(disposition)'
      BY <1>2, HandedStays
    <2>2. candidate' # NoFile => Admitted(candidate)'
      BY <1>2, HandedStays
    <2>3. bound # NoFile => /\ Derived(bound.disposition)' /\ Admitted(bound.candidate)'
                            /\ ParseCandidate(bound.disposition, bound.candidate)'
      BY <1>2, HandedStays
    <2>4. \A letter \in tokens : Placed(letter)'
      BY <1>2 DEF Handed, Placed
    <2>5. running' # NoFile /\ running'.mode = "volatile-inventory" =>
            running'.letter \in Letters /\ Placed(running'.letter)
      BY <1>1, <1>2 DEF Handed
    <2>6. bound # NoFile => bound.at <= now'
      BY <1>1, <1>2 DEF Handed
    <2>7. \A letter, p, q : HelperAdmits(letter, p, q) => HelperAdmits(letter, p, q)'
      BY <1>2 DEF HelperAdmits, CtimeOnly, Rest, MonotonicLogGrowth, Grows
    <2>8. running' # NoFile /\ running'.pass2 # NoFile =>
            HelperAdmits(running.letter, running.pass1, running.pass2)'
      <3>1. running' # NoFile /\ running'.pass2 # NoFile =>
              HelperAdmits(running'.letter, running'.pass1, running'.pass2)
        BY <1>2 DEF Handed
      <3> QED
        BY <2>7, <3>1
    <2> QED
      BY <1>2, <2>1, <2>2, <2>3, <2>4, <2>5, <2>6, <2>8 DEF Handed, Placed
  <1>3. CASE Edits \/ UNCHANGED vars
    BY <1>1, <1>2, <1>3, EditTyped DEF vars, site
  <1>4. CASE Tick
    BY <1>1, <1>2, <1>4 DEF Tick, site
  <1>5. CASE Captures
    <2>1. \A e : \A k \in DOMAIN raws : k \in DOMAIN Append(raws, e) /\ Append(raws, e)[k] = raws[k]
      BY <1>1
    <2>2. UNCHANGED <<place, disposition, tokens, bound, now>>
      BY <1>5, CaptureSteps DEF site
    <2>3. \A k \in DOMAIN raws : k \in DOMAIN raws' /\ raws'[k] = raws[k]
      BY <1>5, <2>1, CaptureSteps
    <2>4. /\ \/ candidate' = candidate
             \/ /\ running # NoFile /\ running.pass2 # NoFile
                /\ Proved(running.letter, running.pass1, running.pass2)
                /\ candidate'.letter = running.letter
                /\ candidate'.pass1 = running.pass1 /\ candidate'.pass2 = running.pass2
          /\ \/ running' = NoFile
             \/ /\ running' \in Runnings /\ running'.pass2 = NoFile
                /\ running'.mode = "volatile-inventory" => running'.letter \in tokens
             \/ /\ running # NoFile /\ running' \in Runnings
                /\ running'.mode = running.mode /\ running'.letter = running.letter
                /\ HelperAdmits(running'.letter, running'.pass1, running'.pass2)
      BY <1>5, CaptureSteps
    <2>5. candidate' = candidate \/ Admitted(candidate)'
      BY <2>2, <2>4, CandidateAdmitted
    <2> QED
      BY <1>1, <1>2, <2>2, <2>3, <2>4, <2>5
  <1>6. CASE Creates \/ PolicyToken \/ InventoryCreate
    <2>1. UNCHANGED <<now, place, raws, running, candidate>>
      BY <1>6, CommandSteps DEF site
    <2>2. CASE UNCHANGED <<disposition, tokens, bound>>
      BY <1>1, <1>2, <2>1, <2>2
    <2>3. /\ candidate # NoFile => Admitted(candidate)'
          /\ disposition' = disposition /\ disposition # NoFile => Derived(disposition)'
          /\ bound' = bound /\ bound # NoFile =>
               /\ Derived(bound.disposition)' /\ Admitted(bound.candidate)'
               /\ ParseCandidate(bound.disposition, bound.candidate)'
      BY <2>1, HandedStays
    <2>7. running' # NoFile /\ running'.pass2 # NoFile =>
            HelperAdmits(running.letter, running.pass1, running.pass2)'
      <3>1. \A letter, p, q : HelperAdmits(letter, p, q) => HelperAdmits(letter, p, q)'
        BY <2>1 DEF HelperAdmits, CtimeOnly, Rest, MonotonicLogGrowth, Grows
      <3> QED
        BY <2>1, <3>1 DEF Handed
    <2>4. CASE Derived(disposition)' /\ UNCHANGED <<tokens, bound>>
      BY <2>1, <2>3, <2>4, <2>7 DEF Handed, Placed
    <2>5. CASE /\ disposition # NoFile /\ tokens' = tokens \cup {disposition.letter}
               /\ UNCHANGED <<disposition, bound>>
      <3>1. Placed(disposition.letter)
        BY <2>5, TokenIsPlaced DEF Handed
      <3> QED
        BY <2>1, <2>3, <2>5, <2>7, <3>1 DEF Handed, Placed
    <2>6. CASE /\ NoFile \notin {disposition, candidate}
               /\ bound' = [disposition |-> disposition, candidate |-> candidate, at |-> now]
               /\ InventoryDerive(disposition, candidate) /\ UNCHANGED <<disposition, tokens>>
      <3>1. Derived(disposition) /\ Admitted(candidate)
        BY <2>6 DEF Handed
      <3>2. /\ ParseCandidate(disposition, candidate)
            /\ disposition.issued <= now /\ now <= disposition.issued + Lifetime
        BY <2>6 DEF InventoryDerive, Current
      <3>3. bound'.disposition = disposition' /\ bound'.candidate = candidate' /\ bound'.at = now
        BY <2>1, <2>6
      <3>4. ParseCandidate(disposition, candidate)'
        <4>1. \A d, c : Derived(d) /\ ParseCandidate(d, c) => ParseCandidate(d, c)'
          BY <2>1, DerivedStays
        <4> QED
          BY <2>1, <2>6, <3>1, <3>2, <4>1
      <3>5. Derived(disposition)' /\ Admitted(candidate)'
        BY <2>1, <2>3, <2>6
      <3>6. /\ Derived(bound.disposition)' /\ Admitted(bound.candidate)'
            /\ ParseCandidate(bound.disposition, bound.candidate)'
        BY <3>3, <3>4, <3>5
      <3>7. /\ bound'.disposition.issued <= bound'.at /\ bound'.at <= now'
            /\ bound'.at <= bound'.disposition.issued + Lifetime
        BY <1>1, <2>1, <2>6, <3>2, <3>3
      <3> QED
        BY <2>1, <2>6, <2>7, <3>5, <3>6, <3>7 DEF Handed, Placed
    <2> QED
      BY <1>6, <2>2, <2>4, <2>5, <2>6, CommandSteps
  <1> QED
    BY <1>3, <1>4, <1>5, <1>6, NextKinds

LEMMA AlwaysHanded == Spec => []Handed
  <1>1. Init => Handed
    BY DEF Init, Handed
  <1>2. TypeInv /\ History /\ Handed /\ [Next]_vars => Handed'
    BY HandedKept
  <1> QED
    BY <1>1, <1>2, AlwaysTyped, AlwaysHistory, PTL DEF Spec

-----------------------------------------------------------------------------
(* What a bound inventory stands for.                                      *)

\* What the parts of a bound inventory are.
LEMMA BoundTyped ==
    ASSUME TypeInv, Handed, bound # NoFile
    PROVE  /\ bound.disposition \in Dispositions /\ bound.candidate \in Candidates /\ bound.at \in Nat
           /\ Derived(bound.disposition) /\ Admitted(bound.candidate)
           /\ ParseCandidate(bound.disposition, bound.candidate)
           /\ bound.candidate.pass1 \in Files /\ bound.candidate.pass2 \in Files
  <1>1. bound.disposition \in Dispositions /\ bound.candidate \in Candidates /\ bound.at \in Nat
    BY DEF TypeInv, Inventories, Times
  <1>2. /\ Derived(bound.disposition) /\ Admitted(bound.candidate)
        /\ ParseCandidate(bound.disposition, bound.candidate)
    BY DEF Handed
  <1>3. NoFile \notin {bound.candidate.pass1, bound.candidate.pass2}
    BY <1>2 DEF Admitted, HelperAdmits
  <1> QED
    BY <1>1, <1>2, <1>3 DEF Candidates, Passes

\* The rule the helper admits a difference under decides what it may be.
LEMMA DriftIsHarmless ==
    ASSUME TypeInv, Handed
    PROVE  AdmittedDriftIsHarmless
  <1> SUFFICES ASSUME bound # NoFile
               PROVE  AdmittedDriftIsHarmless
    BY DEF AdmittedDriftIsHarmless
  <1> DEFINE s == bound.candidate.pass1
             t == bound.candidate.pass2
             letter == bound.candidate.letter
  <1>1. /\ s \in Files /\ t \in Files /\ HelperAdmits(letter, s, t) /\ letter = bound.disposition.letter
        /\ letter # "C" /\ s # t => s.size = 0 \/ s.base = t.base
        /\ Placed(letter)
    BY BoundTyped, TokenIsPlaced DEF Admitted, ParseCandidate
  <1>2. s.size \in Nat /\ t.size \in Nat /\ s.exec \in BOOLEAN /\ t.exec \in BOOLEAN
    BY <1>1 DEF Files
  <1>3. CASE s = t \/ letter = "C"
    BY <1>1, <1>3 DEF HelperAdmits, CtimeOnly, Rest, AdmittedDriftIsHarmless
  <1>4. CASE s # t /\ letter # "C"
    <2>1. MonotonicLogGrowth(s, t) /\ letter \in {"A", "L"}
      BY <1>1, <1>4 DEF HelperAdmits
    <2>2. /\ s.ino = t.ino /\ s.exec = t.exec /\ s.size < t.size
          /\ place.suffix = ".log" /\ ~place.upload /\ ~s.exec
      BY <2>1 DEF MonotonicLogGrowth, Grows
    <2>3. letter = "L" /\ (s.size = 0 \/ s.base = t.base)
      BY <1>1, <1>4, <2>1, <2>2 DEF Placed
    <2>4. s.exec = FALSE /\ t.exec = FALSE
      BY <1>2, <2>2
    <2>5. s.size > 0 => s.base = t.base
      BY <1>2, <2>3
    <2>6. bound.disposition.letter = "L"
      BY <1>1, <2>3
    <2>7. <<s.ino, FALSE, FALSE>> = <<t.ino, s.exec, t.exec>>
      BY <2>2, <2>4
    <2> HIDE DEF letter
    <2> QED
      BY <2>2, <2>5, <2>6, <2>7 DEF AdmittedDriftIsHarmless
  <1> QED
    BY <1>3, <1>4

\* A disposition of wp-config.php names four passes that differ in change times that
\* do not go back, and the candidate's passes may differ in nothing else.
LEMMA ConfigStays ==
    ASSUME TypeInv, Handed
    PROVE  ConfigUnchanged
  <1> SUFFICES ASSUME bound # NoFile, bound.disposition.high
               PROVE  ConfigUnchanged
    BY DEF ConfigUnchanged
  <1> DEFINE d == bound.disposition
             c == bound.candidate
             first == raws[d.first]
             second == raws[d.second]
  <1>1. /\ Disposable(d.first, d.second, d.high)
        /\ d.letter = Letter(Behavior(first.pass1, first.pass2))
        /\ d.letter = c.letter /\ StateUnchanged(d, c) /\ HelperAdmits(c.letter, c.pass1, c.pass2)
    BY BoundTyped DEF Derived, Admitted, ParseCandidate
  <1>2. /\ Behavior(first.pass1, first.pass2) = "CTIME_ONLY"
        /\ HighSensitivityState(d.first, d.second)
    BY <1>1 DEF Disposable
  <1>3. c.letter = "C"
    BY <1>1, <1>2 DEF Letter
  <1>4. Rest(c.pass2) = Rest(c.pass1)
    BY <1>1, <1>3 DEF HelperAdmits, CtimeOnly
  <1>5. /\ Rest(first.pass2) = Rest(first.pass1) /\ Rest(second.pass1) = Rest(first.pass1)
        /\ Rest(second.pass2) = Rest(first.pass1)
        /\ first.pass1.ctime <= first.pass2.ctime /\ first.pass2.ctime <= second.pass1.ctime
        /\ second.pass1.ctime <= second.pass2.ctime
    BY <1>2 DEF HighSensitivityState
  <1>6. Rest(c.pass2) = Rest(first.pass1) /\ second.pass2.ctime <= c.pass2.ctime
    BY <1>1 DEF StateUnchanged
  <1> DEFINE seen == <<first.pass1, first.pass2, second.pass1, second.pass2, c.pass2>>
  <1>7. \A k \in 1 .. 5 : Rest(seen[k]) = Rest(c.pass1)
    <2>1. /\ Rest(seen[1]) = Rest(c.pass1) /\ Rest(seen[2]) = Rest(c.pass1) /\ Rest(seen[3]) = Rest(c.pass1)
          /\ Rest(seen[4]) = Rest(c.pass1) /\ Rest(seen[5]) = Rest(c.pass1)
      BY <1>4, <1>5, <1>6
    <2> HIDE DEF seen
    <2> QED
      BY <2>1
  <1>8. \A k \in 1 .. 4 : seen[k].ctime <= seen[k + 1].ctime
    <2>1. /\ seen[1].ctime <= seen[2].ctime /\ seen[2].ctime <= seen[3].ctime
          /\ seen[3].ctime <= seen[4].ctime /\ seen[4].ctime <= seen[5].ctime
      BY <1>5, <1>6
    <2> HIDE DEF seen
    <2>2. \A k \in 1 .. 4 : k = 1 \/ k = 2 \/ k = 3 \/ k = 4
      OBVIOUS
    <2>3. 1 + 1 = 2 /\ 2 + 1 = 3 /\ 3 + 1 = 4 /\ 4 + 1 = 5
      OBVIOUS
    <2> QED
      BY <2>1, <2>2, <2>3
  <1> QED
    BY <1>7, <1>8 DEF ConfigUnchanged

\* THEOREM.  BoundIsHarmless: an inventory that emit_volatile_inventory let through
\* and inventory_derive bound shows no drift but a change time or lines added to a
\* log, and wp-config.php bound as unchanged was the same in all six passes.
THEOREM DriftStaysHarmless == Spec => []BoundIsHarmless
  <1>1. TypeInv /\ Handed => BoundIsHarmless
    BY DriftIsHarmless, ConfigStays DEF BoundIsHarmless
  <1> QED
    BY <1>1, AlwaysTyped, AlwaysHanded, PTL

\* THEOREM.  BoundWhileCurrent: inventory_derive binds within the windows that derive
\* and policy-token set, and inventory_verify repeats it with the same answer until
\* the disposition expires, whatever the site or the other commands do meanwhile.
THEOREM BindingIsTimely == Spec => []BoundWhileCurrent
  <1>1. ASSUME TypeInv, Handed, bound # NoFile
        PROVE  /\ Issuable(bound.disposition.observed[1], bound.disposition.observed[2],
                           bound.disposition.issued)
               /\ bound.disposition.observed[1] \in Nat /\ bound.disposition.observed[2] \in Nat
               /\ bound.disposition.issued \in Nat /\ bound.at \in Nat /\ now \in Nat
               /\ bound.disposition.issued <= bound.at /\ bound.at <= now
               /\ bound.at <= bound.disposition.issued + Lifetime
               /\ ParseCandidate(bound.disposition, bound.candidate)
    <2>1. Times \subseteq Nat
      BY DEF Times
    <2>2. Derived(bound.disposition) /\ bound.disposition \in Dispositions
      BY <1>1, BoundTyped
    <2>3. /\ bound.disposition.issued \in Times
          /\ bound.disposition.observed[1] \in Times /\ bound.disposition.observed[2] \in Times
      BY <2>2 DEF Dispositions
    <2> QED
      BY <1>1, <2>1, <2>2, <2>3, BoundTyped DEF Derived, Handed, TypeInv
  <1>2. MaxGap \in Nat /\ IssueWindow \in Nat /\ Lifetime \in Nat
    BY VolatileBoundsAssumption
  <1>3. TypeInv /\ Handed => BoundInTime
    BY <1>1, <1>2 DEF BoundInTime, Issuable
  <1>4. TypeInv /\ Handed => BoundVerifiesUntilExpiry
    BY <1>1, <1>2 DEF BoundVerifiesUntilExpiry, InventoryVerifies, InventoryDerive, Current
  <1>5. TypeInv /\ Handed => BoundWhileCurrent
    BY <1>3, <1>4 DEF BoundWhileCurrent
  <1> QED
    BY <1>5, AlwaysTyped, AlwaysHanded, PTL

-----------------------------------------------------------------------------
(* The ephemeral loader.                                                   *)

USE LoaderAssumption

LEMMA Typed ==
    ASSUME LoaderTypeOK, NEW l \in Loaders,
           Step(l) \/ CallFails(l) \/ Kill(l) \/ Terminate(l)
    PROVE  LoaderTypeOK'
  <1> USE DEF disk, memory, faults, Goto, ToCleanup, CleanupFailed, Retain, LeaveLauncher, Tries, LoaderTypeOK
  <1>1. CASE Check(l)
    BY <1>1 DEF Check
  <1>2. CASE MakeStage(l)
    BY <1>2 DEF MakeStage
  <1>3. CASE Own(l)
    BY <1>3 DEF Own
  <1>4. CASE OpenLauncher(l)
    <2>1. CASE UNCHANGED launcher
      BY <1>4, <2>1 DEF OpenLauncher
    <2>2. ASSUME NEW ino \in Inodes, launcher' = [by |-> l, ino |-> ino, whole |-> FALSE],
                 stage # None, stage' = stage
          PROVE  /\ launcher' \in [by: Loaders, ino: Inodes, whole: BOOLEAN] \cup {None}
                 /\ launcher' # None => stage' # None
      BY <2>2
    <2> QED
      BY <1>4, <2>1, <2>2 DEF OpenLauncher
  <1>5. CASE FillLauncher(l)
    BY <1>5 DEF FillLauncher
  <1>6. CASE ReadLauncher(l)
    BY <1>6 DEF ReadLauncher
  <1>6a. CASE ModeLauncher(l)
    BY <1>6a DEF ModeLauncher
  <1>7. CASE Run(l)
    <2>1. helpers' \subseteq Loaders
      BY <1>7 DEF Run
    <2> QED
      BY <1>7, <2>1 DEF Run
  <1>8. CASE HelperEnds(l)
    BY <1>8 DEF HelperEnds
  <1>9. CASE After(l)
    BY <1>9 DEF After
  <1>10. CASE RemoveLauncher(l)
    BY <1>10 DEF RemoveLauncher
  <1>11. CASE RemoveStage(l)
    BY <1>11 DEF RemoveStage
  <1>12. CASE StageAbsent(l)
    BY <1>12 DEF StageAbsent
  <1>13. CASE Look(l)
    BY <1>13 DEF Look
  <1>14. CASE CleanLauncher(l)
    BY <1>14 DEF CleanLauncher
  <1>15. CASE CleanStage(l)
    BY <1>15 DEF CleanStage
  <1>16. CASE Audit(l)
    BY <1>16 DEF Audit
  <1>17. CASE CallFails(l)
    BY <1>17 DEF CallFails
  <1>18. CASE Kill(l)
    BY <1>18 DEF Kill
  <1>19. CASE Terminate(l)
    BY <1>19 DEF Terminate
  <1> QED
    BY <1>1, <1>2, <1>3, <1>4, <1>5, <1>6, <1>6a, <1>7, <1>8, <1>9, <1>10, <1>11, <1>12, <1>13, <1>14, <1>15, <1>16, <1>17, <1>18, <1>19 DEF Step

LEMMA TypeKept == LoaderTypeOK /\ [LoaderNext]_loaderVars => LoaderTypeOK'
  <1> SUFFICES ASSUME LoaderTypeOK, [LoaderNext]_loaderVars PROVE LoaderTypeOK'
    OBVIOUS
  <1>1. CASE LoaderNext
    BY <1>1, Typed DEF LoaderNext
  <1>2. CASE UNCHANGED loaderVars
    BY <1>2 DEF LoaderTypeOK, loaderVars
  <1> QED
    BY <1>1, <1>2

LEMMA InitTyped == LoaderInit => LoaderTypeOK
  BY DEF LoaderInit, LoaderTypeOK, Tries

\* EphemeralLoader is type correct: a launcher lies in a directory.
THEOREM TypeCorrect == LoaderSpec => []LoaderTypeOK
  <1> QED
    BY InitTyped, TypeKept, PTL DEF LoaderSpec

-----------------------------------------------------------------------------
(* What is said of the cleanup.                                            *)

LEMMA AuditStays ==
    ASSUME LoaderTypeOK, AuditIsTrue, NEW l \in Loaders,
           Step(l) \/ CallFails(l) \/ Kill(l) \/ Terminate(l)
    PROVE  AuditIsTrue'
  <1> USE DEF disk, memory, faults, Goto, ToCleanup, CleanupFailed, Retain, LeaveLauncher, Tries, LoaderTypeOK, AuditIsTrue, Remains
  <1>1. CASE Check(l)
    BY <1>1 DEF Check
  <1>2. CASE MakeStage(l)
    BY <1>2 DEF MakeStage
  <1>3. CASE Own(l)
    BY <1>3 DEF Own
  <1>4. CASE OpenLauncher(l)
    BY <1>4 DEF OpenLauncher
  <1>5. CASE FillLauncher(l)
    BY <1>5 DEF FillLauncher
  <1>6. CASE ReadLauncher(l)
    BY <1>6 DEF ReadLauncher
  <1>6a. CASE ModeLauncher(l)
    BY <1>6a DEF ModeLauncher
  <1>7. CASE Run(l)
    BY <1>7 DEF Run
  <1>8. CASE HelperEnds(l)
    BY <1>8 DEF HelperEnds
  <1>9. CASE After(l)
    BY <1>9 DEF After
  <1>10. CASE RemoveLauncher(l)
    BY <1>10 DEF RemoveLauncher
  <1>11. CASE RemoveStage(l)
    BY <1>11 DEF RemoveStage
  <1>12. CASE StageAbsent(l)
    BY <1>12 DEF StageAbsent
  <1>13. CASE Look(l)
    BY <1>13 DEF Look
  <1>14. CASE CleanLauncher(l)
    BY <1>14 DEF CleanLauncher
  <1>15. CASE CleanStage(l)
    BY <1>15 DEF CleanStage
  <1>16. CASE Audit(l)
    BY <1>16 DEF Audit
  <1>17. CASE CallFails(l)
    BY <1>17 DEF CallFails
  <1>18. CASE Kill(l)
    BY <1>18 DEF Kill
  <1>19. CASE Terminate(l)
    BY <1>19 DEF Terminate
  <1> QED
    BY <1>1, <1>2, <1>3, <1>4, <1>5, <1>6, <1>6a, <1>7, <1>8, <1>9, <1>10, <1>11, <1>12, <1>13, <1>14, <1>15, <1>16, <1>17, <1>18, <1>19 DEF Step

\* The audit says of every loader that lived to its end, with any number of
\* others about it, when something of its own is left.  Nothing comes to lie
\* in the directory of a loader that has ended.
THEOREM AuditHolds == LoaderSpec => []AuditIsTrue
  <1>1. LoaderInit => LoaderTypeOK /\ AuditIsTrue
    BY InitTyped DEF LoaderInit, AuditIsTrue
  <1>2. LoaderTypeOK /\ AuditIsTrue /\ [LoaderNext]_loaderVars => (LoaderTypeOK /\ AuditIsTrue)'
    <2> SUFFICES ASSUME LoaderTypeOK, AuditIsTrue, [LoaderNext]_loaderVars PROVE AuditIsTrue'
      BY TypeKept
    <2>1. CASE LoaderNext
      BY <2>1, AuditStays DEF LoaderNext
    <2>2. CASE UNCHANGED loaderVars
      BY <2>2 DEF AuditIsTrue, Remains, loaderVars
    <2> QED
      BY <2>1, <2>2
  <1> QED
    BY <1>1, <1>2, PTL DEF LoaderSpec

-----------------------------------------------------------------------------
(* The directory keeps helpers apart.                                      *)

\* What the helpers of a run without terminations have behind them.
Counted ==
    /\ kills \in Nat /\ terminations \in Nat /\ failures \in Nat
    /\ terminations = 0 => \A l \in helpers: pc[l] \in {"wait", "killed"}

LEMMA CountedKept ==
    ASSUME LoaderTypeOK, Counted, NEW l \in Loaders,
           Step(l) \/ CallFails(l) \/ Kill(l) \/ Terminate(l)
    PROVE  Counted'
  <1> USE DEF disk, memory, faults, Goto, ToCleanup, CleanupFailed, Retain, LeaveLauncher, Tries, LoaderTypeOK, Counted
  <1>1. CASE Check(l)
    BY <1>1 DEF Check
  <1>2. CASE MakeStage(l)
    BY <1>2 DEF MakeStage
  <1>3. CASE Own(l)
    BY <1>3 DEF Own
  <1>4. CASE OpenLauncher(l)
    BY <1>4 DEF OpenLauncher
  <1>5. CASE FillLauncher(l)
    BY <1>5 DEF FillLauncher
  <1>6. CASE ReadLauncher(l)
    BY <1>6 DEF ReadLauncher
  <1>6a. CASE ModeLauncher(l)
    BY <1>6a DEF ModeLauncher
  <1>7. CASE Run(l)
    BY <1>7 DEF Run
  <1>8. CASE HelperEnds(l)
    BY <1>8 DEF HelperEnds
  <1>9. CASE After(l)
    BY <1>9 DEF After
  <1>10. CASE RemoveLauncher(l)
    BY <1>10 DEF RemoveLauncher
  <1>11. CASE RemoveStage(l)
    BY <1>11 DEF RemoveStage
  <1>12. CASE StageAbsent(l)
    BY <1>12 DEF StageAbsent
  <1>13. CASE Look(l)
    BY <1>13 DEF Look
  <1>14. CASE CleanLauncher(l)
    BY <1>14 DEF CleanLauncher
  <1>15. CASE CleanStage(l)
    BY <1>15 DEF CleanStage
  <1>16. CASE Audit(l)
    BY <1>16 DEF Audit
  <1>17. CASE CallFails(l)
    BY <1>17 DEF CallFails
  <1>18. CASE Kill(l)
    BY <1>18 DEF Kill
  <1>19. CASE Terminate(l)
    BY <1>19 DEF Terminate
  <1> QED
    BY <1>1, <1>2, <1>3, <1>4, <1>5, <1>6, <1>6a, <1>7, <1>8, <1>9, <1>10, <1>11, <1>12, <1>13, <1>14, <1>15, <1>16, <1>17, <1>18, <1>19 DEF Step

\* l holds the directory, and its helper runs or may still come to run.
Holds(l) == l \in helpers \/ pc[l] \in {"own", "write", "fill", "chmod", "meta", "run", "wait"}

\* The helper of l has run, or never will.
Over(l) ==
    /\ l \notin helpers
    /\ pc[l] \notin {"check", "mkdir", "own", "write", "fill", "chmod", "meta", "run", "wait"}

\* Of the only two loaders that have begun, the one that holds the directory
\* made it, or the other is past its helper.
Excluded ==
    terminations = 0 =>
        \A a, b \in Loaders:
            a # b /\ Begun \subseteq {a, b} /\ Holds(a) => stage = a \/ Over(b)

\* Who is past its helper stays so, and only who makes the directory comes to
\* hold it.
LEMMA Succession ==
    ASSUME LoaderTypeOK, Counted, NEW l \in Loaders,
           Step(l) \/ CallFails(l) \/ Kill(l) \/ Terminate(l)
    PROVE  /\ \A b \in Loaders : Over(b) => Over(b)'
           /\ \A b \in Loaders : Holds(b)' => Holds(b) \/ (b = l /\ pc[l] = "mkdir" /\ stage' = l)
           /\ stage' = stage \/ (stage = None /\ pc[l] = "mkdir")
                \/ (pc[l] \in {"rmdir", "undo"} /\ stage' = None)
           /\ Begun \subseteq Begun'
  <1> USE DEF disk, memory, faults, Goto, ToCleanup, CleanupFailed, Retain, LeaveLauncher, Tries, LoaderTypeOK, Counted, Holds, Over, Begun
  <1>1. CASE Check(l)
    BY <1>1 DEF Check
  <1>2. CASE MakeStage(l)
    BY <1>2 DEF MakeStage
  <1>3. CASE Own(l)
    BY <1>3 DEF Own
  <1>4. CASE OpenLauncher(l)
    BY <1>4 DEF OpenLauncher
  <1>5. CASE FillLauncher(l)
    BY <1>5 DEF FillLauncher
  <1>6. CASE ReadLauncher(l)
    BY <1>6 DEF ReadLauncher
  <1>6a. CASE ModeLauncher(l)
    BY <1>6a DEF ModeLauncher
  <1>7. CASE Run(l)
    BY <1>7 DEF Run
  <1>8. CASE HelperEnds(l)
    BY <1>8 DEF HelperEnds
  <1>9. CASE After(l)
    BY <1>9 DEF After
  <1>10. CASE RemoveLauncher(l)
    BY <1>10 DEF RemoveLauncher
  <1>11. CASE RemoveStage(l)
    BY <1>11 DEF RemoveStage
  <1>12. CASE StageAbsent(l)
    BY <1>12 DEF StageAbsent
  <1>13. CASE Look(l)
    BY <1>13 DEF Look
  <1>14. CASE CleanLauncher(l)
    BY <1>14 DEF CleanLauncher
  <1>15. CASE CleanStage(l)
    BY <1>15 DEF CleanStage
  <1>16. CASE Audit(l)
    BY <1>16 DEF Audit
  <1>17. CASE CallFails(l)
    BY <1>17 DEF CallFails
  <1>18. CASE Kill(l)
    BY <1>18 DEF Kill
  <1>19. CASE Terminate(l)
    BY <1>19 DEF Terminate
  <1> QED
    BY <1>1, <1>2, <1>3, <1>4, <1>5, <1>6, <1>6a, <1>7, <1>8, <1>9, <1>10, <1>11, <1>12, <1>13, <1>14, <1>15, <1>16, <1>17, <1>18, <1>19 DEF Step

LEMMA ExclusionKept ==
    ASSUME LoaderTypeOK, Counted, Excluded, NEW l \in Loaders,
           Step(l) \/ CallFails(l) \/ Kill(l) \/ Terminate(l)
    PROVE  Excluded'
  <1> SUFFICES ASSUME terminations' = 0, NEW a \in Loaders, NEW b \in Loaders,
                      a # b, Begun' \subseteq {a, b}, Holds(a)'
               PROVE  stage' = a \/ Over(b)'
    BY DEF Excluded
  <1>1. terminations = 0 /\ Begun \subseteq {a, b}
    <2>1. terminations' >= terminations
      BY DEF Step, Check, MakeStage, Own, OpenLauncher, FillLauncher, ModeLauncher, ReadLauncher, Run, HelperEnds,
         After, RemoveLauncher, RemoveStage, StageAbsent, Look, CleanLauncher, CleanStage, Audit,
         CallFails, Kill, Terminate, faults, Counted
    <2> QED
      BY <2>1, Succession DEF Counted
  <1>2. CASE a = l /\ pc[l] = "mkdir" /\ stage' = l
    BY <1>2
  <1>3. CASE Holds(a)
    <2>1. stage = a \/ Over(b)
      BY <1>1, <1>3 DEF Excluded
    <2>2. CASE Over(b)
      BY <2>2, Succession
    <2>3. CASE stage = a /\ pc[l] \in {"rmdir", "undo"}
      <3>1. l # a /\ l \in Begun /\ l \notin helpers
        BY <1>1, <1>3, <2>3 DEF Holds, Begun, Counted
      <3>2. l = b /\ Over(b)
        BY <1>1, <2>3, <3>1 DEF Over
      <3> QED
        BY <3>2, Succession
    <2>4. CASE stage = a /\ pc[l] \notin {"rmdir", "undo"}
      BY <2>4, Succession
    <2> QED
      BY <2>1, <2>2, <2>3, <2>4
  <1> QED
    BY <1>2, <1>3, Succession

\* Two helpers of two loaders: neither could have begun while the other held
\* the directory.
LEMMA ExclusionSuffices == LoaderTypeOK /\ Counted /\ Excluded => AtMostOneHelper
  <1> SUFFICES ASSUME LoaderTypeOK, Counted, Excluded, terminations = 0, Cardinality(Begun) <= 2
               PROVE  Cardinality(helpers) <= 1
    BY DEF AtMostOneHelper
  <1>1. IsFiniteSet(Begun) /\ IsFiniteSet(helpers)
    BY FS_Subset DEF Begun, LoaderTypeOK
  <1>2. \A a, b \in helpers : a = b
    <2> SUFFICES ASSUME NEW a \in helpers, NEW b \in helpers, a # b PROVE FALSE
      OBVIOUS
    <2>1. a \in Loaders /\ b \in Loaders /\ {a, b} \subseteq Begun
      BY DEF LoaderTypeOK, Counted, Begun
    <2>2. Begun = {a, b}
      <3>1. IsFiniteSet({a, b}) /\ Cardinality({a, b}) = 2
        <4>1. IsFiniteSet({a}) /\ Cardinality({a}) = 1
          BY FS_Singleton
        <4>2. {a, b} = {a} \cup {b} /\ b \notin {a}
          BY <2>1
        <4>3. /\ IsFiniteSet({a} \cup {b})
              /\ Cardinality({a} \cup {b}) = Cardinality({a}) + 1
          BY <4>1, <4>2, FS_AddElement
        <4> QED
          BY <4>1, <4>2, <4>3
      <3>2. Cardinality(Begun) \in Nat
        BY <1>1, FS_CardinalityType
      <3> QED
        BY <1>1, <2>1, <3>1, <3>2, FS_Subset
    <2>3. Holds(a) /\ Holds(b) /\ ~Over(a) /\ ~Over(b)
      BY DEF Holds, Over
    <2>4. stage = a /\ stage = b
      BY <2>1, <2>2, <2>3 DEF Excluded
    <2> QED
      BY <2>4
  <1>3. CASE helpers = {}
    BY <1>3, FS_EmptySet
  <1>4. CASE helpers # {}
    <2> PICK a \in helpers : TRUE
      BY <1>4
    <2>1. helpers = {a}
      BY <1>2
    <2>2. Cardinality({a}) = 1
      BY FS_Singleton
    <2> QED
      BY <2>1, <2>2
  <1> QED
    BY <1>3, <1>4

\* The directory keeps the helpers of two loaders apart, whoever is killed and
\* whatever fails; that a third one can break it is no part of the theorem.
THEOREM HelpersExclude == LoaderSpec => []AtMostOneHelper
  <1> DEFINE Inv == LoaderTypeOK /\ Counted /\ Excluded
  <1>1. LoaderInit => Inv
    BY InitTyped DEF LoaderInit, Counted, Excluded, Holds
  <1>2. Inv /\ [LoaderNext]_loaderVars => Inv'
    <2> SUFFICES ASSUME Inv, [LoaderNext]_loaderVars PROVE (Counted /\ Excluded)'
      BY TypeKept
    <2>1. CASE LoaderNext
      BY <2>1, CountedKept, ExclusionKept DEF LoaderNext
    <2>2. CASE UNCHANGED loaderVars
      BY <2>2 DEF Counted, Excluded, Holds, Over, Begun, loaderVars
    <2> QED
      BY <2>1, <2>2
  <1>3. Inv => AtMostOneHelper
    BY ExclusionSuffices
  <1> QED
    BY <1>1, <1>2, <1>3, PTL DEF LoaderSpec

-----------------------------------------------------------------------------
(* Nothing is left.                                                        *)

\* Nothing went wrong in any loader.
Calm == kills + terminations + failures = 0

\* l knows the directory for its own, and will come to look for it (from
\* unlink it may not, when the launcher is gone).
Pending(l) ==
    \/ pc[l] = "own"
    \/ created[l] /\ pc[l] \in (Tries \ {"mkdir", "own"}) \cup {"wait", "absent", "look", "undo"}

\* The loader that wrote the launcher will remove it: it has not read its
\* inode yet, or knows it.
Removes(l) ==
    /\ created[l]
    /\ \/ pc[l] = "fill"
       \/ pc[l] \in {"chmod", "meta"} /\ launcher.whole
       \/ /\ pc[l] \in {"run", "wait", "after", "rm", "look", "unlink"}
          /\ launcher.whole /\ launcher.ino = meta[l]

\* When nothing went wrong, whatever is staged has someone to remove it.
Attended ==
    /\ \A l \in Loaders:
        pc[l] \in (Tries \ {"mkdir", "own"}) \cup {"wait", "absent", "unlink", "undo"} => created[l]
    /\ Calm =>
        /\ launcher # None => Removes(launcher.by)
        /\ stage # None /\ launcher = None => \E l \in Loaders: Pending(l)

\* Whoever wrote the launcher removes it, whatever directory it lies in.
LEMMA LauncherAttended ==
    ASSUME LoaderTypeOK, Counted, Attended, Calm', NEW l \in Loaders,
           Step(l) \/ CallFails(l) \/ Kill(l) \/ Terminate(l)
    PROVE  Calm /\ (launcher # None => Removes(launcher.by))'
  <1>1. /\ kills = 0 /\ terminations = 0 /\ failures = 0
        /\ \A b \in helpers : pc[b] \in {"wait", "killed"}
    BY DEF Calm, Counted, Step, Check, MakeStage, Own, OpenLauncher, FillLauncher, ModeLauncher, ReadLauncher,
       Run, HelperEnds, After, RemoveLauncher, RemoveStage, StageAbsent, Look, CleanLauncher,
       CleanStage, Audit, CallFails, Kill, Terminate, faults, LoaderTypeOK
  <1>2. Calm /\ (launcher # None => launcher.by \in Loaders /\ Removes(launcher.by))
    BY <1>1 DEF Calm, Attended, LoaderTypeOK
  <1>3. /\ kills' = 0 /\ terminations' = 0 /\ failures' = 0
    <2>1. Counted'
      BY CountedKept
    <2> QED
      BY <2>1 DEF Calm, Counted
  <1>4. /\ pc = [b \in Loaders |-> pc[b]] /\ created \in [Loaders -> BOOLEAN]
        /\ meta \in [Loaders -> Inodes \cup {None}]
        /\ launcher # None => launcher \in [by: Loaders, ino: Inodes, whole: BOOLEAN]
        /\ pc[l] = "write" => created[l]
    BY DEF LoaderTypeOK, Tries, Attended
  <1> HIDE DEF LoaderTypeOK, Attended, Calm
  <1> USE <1>1, <1>2, <1>3, <1>4 DEF disk, memory, faults, Goto, ToCleanup, CleanupFailed, Retain, LeaveLauncher, Tries, Removes,
          Exact
  <1>5. CASE Check(l)
    BY <1>5 DEF Check
  <1>6. CASE MakeStage(l)
    BY <1>6 DEF MakeStage
  <1>7. CASE Own(l)
    BY <1>7 DEF Own
  <1>8. CASE OpenLauncher(l)
    BY <1>8 DEF OpenLauncher
  <1>9. CASE FillLauncher(l)
    BY <1>9 DEF FillLauncher
  <1>10. CASE ReadLauncher(l)
    BY <1>10 DEF ReadLauncher
  <1>10a. CASE ModeLauncher(l)
    BY <1>10a DEF ModeLauncher
  <1>11. CASE Run(l)
    BY <1>11 DEF Run
  <1>12. CASE HelperEnds(l)
    BY <1>12 DEF HelperEnds
  <1>13. CASE After(l)
    BY <1>13 DEF After
  <1>14. CASE RemoveLauncher(l)
    BY <1>14 DEF RemoveLauncher
  <1>15. CASE RemoveStage(l)
    BY <1>15 DEF RemoveStage
  <1>16. CASE StageAbsent(l)
    BY <1>16 DEF StageAbsent
  <1>17. CASE Look(l)
    BY <1>17 DEF Look
  <1>18. CASE CleanLauncher(l)
    BY <1>18 DEF CleanLauncher
  <1>19. CASE CleanStage(l)
    BY <1>19 DEF CleanStage
  <1>20. CASE Audit(l)
    BY <1>20 DEF Audit
  <1>21. CASE CallFails(l)
    BY <1>21 DEF CallFails
  <1>22. CASE Kill(l)
    BY <1>22 DEF Kill
  <1>23. CASE Terminate(l)
    BY <1>23 DEF Terminate
  <1> QED
    BY <1>5, <1>6, <1>7, <1>8, <1>9, <1>10, <1>10a, <1>11, <1>12, <1>13, <1>14, <1>15, <1>16, <1>17, <1>18, <1>19, <1>20, <1>21, <1>22, <1>23 DEF Step


LEMMA CreatedKnown ==
    ASSUME LoaderTypeOK, Counted, Attended, NEW b \in Loaders,
           pc'[b] \in (Tries \ {"mkdir", "own"}) \cup {"wait", "absent", "unlink", "undo"}, NEW l \in Loaders,
           Step(l) \/ CallFails(l) \/ Kill(l) \/ Terminate(l)
    PROVE  created'[b]
  <1> USE DEF disk, memory, faults, Goto, ToCleanup, CleanupFailed, Retain, LeaveLauncher, Tries, LoaderTypeOK, Attended
  <1>1. CASE Check(l)
    BY <1>1 DEF Check
  <1>2. CASE MakeStage(l)
    BY <1>2 DEF MakeStage
  <1>3. CASE Own(l)
    BY <1>3 DEF Own
  <1>4. CASE OpenLauncher(l)
    BY <1>4 DEF OpenLauncher
  <1>5. CASE FillLauncher(l)
    BY <1>5 DEF FillLauncher
  <1>6. CASE ReadLauncher(l)
    BY <1>6 DEF ReadLauncher
  <1>6a. CASE ModeLauncher(l)
    BY <1>6a DEF ModeLauncher
  <1>7. CASE Run(l)
    BY <1>7 DEF Run
  <1>8. CASE HelperEnds(l)
    BY <1>8 DEF HelperEnds
  <1>9. CASE After(l)
    BY <1>9 DEF After
  <1>10. CASE RemoveLauncher(l)
    BY <1>10 DEF RemoveLauncher
  <1>11. CASE RemoveStage(l)
    BY <1>11 DEF RemoveStage
  <1>12. CASE StageAbsent(l)
    BY <1>12 DEF StageAbsent
  <1>13. CASE Look(l)
    BY <1>13 DEF Look
  <1>14. CASE CleanLauncher(l)
    BY <1>14 DEF CleanLauncher
  <1>15. CASE CleanStage(l)
    BY <1>15 DEF CleanStage
  <1>16. CASE Audit(l)
    BY <1>16 DEF Audit
  <1>17. CASE CallFails(l)
    BY <1>17 DEF CallFails
  <1>18. CASE Kill(l)
    BY <1>18 DEF Kill
  <1>19. CASE Terminate(l)
    BY <1>19 DEF Terminate
  <1> QED
    BY <1>1, <1>2, <1>3, <1>4, <1>5, <1>6, <1>6a, <1>7, <1>8, <1>9, <1>10, <1>11, <1>12, <1>13, <1>14, <1>15, <1>16, <1>17, <1>18, <1>19 DEF Step

\* An empty directory stays with whoever is to look for it.
LEMMA PendingStays ==
    ASSUME LoaderTypeOK, Counted, Attended, Calm', stage' # None, launcher' = None, NEW l \in Loaders,
           Step(l) \/ CallFails(l) \/ Kill(l) \/ Terminate(l)
    PROVE  \E b \in Loaders : Pending(b)'
  <1>1. stage # None \/ MakeStage(l)
    BY DEF disk, Step, Check, Own, OpenLauncher, FillLauncher, ModeLauncher, ReadLauncher, Run, HelperEnds,
       After, RemoveLauncher, RemoveStage, StageAbsent, Look, CleanLauncher, CleanStage, Audit,
       CallFails, Kill, Terminate
  <1>2. CASE stage = None
    BY <1>1, <1>2 DEF MakeStage, Goto, ToCleanup, Pending, LoaderTypeOK
  <1>4. CASE stage # None /\ launcher # None
    <2>4. ~OpenLauncher(l) /\ ~FillLauncher(l)
      BY <1>4 DEF OpenLauncher, FillLauncher, LoaderTypeOK
    <2>1. RemoveLauncher(l) \/ CleanLauncher(l)
      BY <1>4, <2>4 DEF disk, Step, Check, MakeStage, Own, ModeLauncher, ReadLauncher, Run,
         HelperEnds, After, RemoveStage, StageAbsent, Look, CleanStage, Audit, CallFails, Kill,
         Terminate
    <2>2. created[l] /\ created' = created
      BY <2>1 DEF Attended, Tries, memory, RemoveLauncher, CleanLauncher, ToCleanup
    <2>3. pc' = [pc EXCEPT ![l] = "rmdir"] \/ pc' = [pc EXCEPT ![l] = "undo"]
      BY <1>4, <2>1 DEF RemoveLauncher, CleanLauncher, Goto
    <2> QED
      BY <2>2, <2>3 DEF Pending, Tries, LoaderTypeOK
  <1>3. CASE stage # None /\ launcher = None
    <2>1. Calm
      BY LauncherAttended
    <2> PICK b \in Loaders : Pending(b)
      BY <1>3, <2>1 DEF Attended
    <2>2. Pending(b)'
      <3>1. /\ pc = [c \in Loaders |-> pc[c]] /\ created \in [Loaders -> BOOLEAN]
        BY DEF LoaderTypeOK
      <3>2. /\ kills' = 0 /\ terminations' = 0 /\ failures' = 0
            /\ kills \in Nat /\ terminations \in Nat /\ failures \in Nat
        <4>1. Counted'
          BY CountedKept
        <4> QED
          BY <4>1 DEF Calm, Counted
      <3>3. pc[l] \in {"unlink", "undo", "write", "rm"} => created[l]
        BY DEF Attended, Tries
      <3>4. b # l => pc'[b] = pc[b] /\ created'[b] = created[b]
        BY <3>1 DEF disk, memory, Goto, ToCleanup, CleanupFailed, Retain, LeaveLauncher, Step, Check, MakeStage, Own,
           OpenLauncher, FillLauncher, ModeLauncher, ReadLauncher, Run, HelperEnds, After, RemoveLauncher,
           RemoveStage, StageAbsent, Look, CleanLauncher, CleanStage, Audit, CallFails, Kill,
           Terminate
      <3>5. CASE b # l
        BY <3>4, <3>5 DEF Pending
      <3>6. CASE b = l
        <4> USE <1>3, <3>1, <3>2, <3>3, <3>6 DEF disk, memory, faults, Goto, ToCleanup, CleanupFailed, Retain, LeaveLauncher,
                Pending, Tries
        <4>1. CASE Check(l)
          BY <4>1 DEF Check
        <4>2. CASE MakeStage(l)
          BY <4>2 DEF MakeStage
        <4>3. CASE Own(l)
          BY <4>3 DEF Own
        <4>4. CASE OpenLauncher(l)
          BY <4>4 DEF OpenLauncher
        <4>5. CASE FillLauncher(l)
          BY <4>5 DEF FillLauncher
        <4>6. CASE ReadLauncher(l)
          BY <4>6 DEF ReadLauncher
        <4>6a. CASE ModeLauncher(l)
          BY <4>6a DEF ModeLauncher
        <4>7. CASE Run(l)
          BY <4>7 DEF Run
        <4>8. CASE HelperEnds(l)
          BY <4>8 DEF HelperEnds
        <4>9. CASE After(l)
          BY <4>9 DEF After
        <4>10. CASE RemoveLauncher(l)
          BY <4>10 DEF RemoveLauncher
        <4>11. CASE RemoveStage(l)
          BY <4>11 DEF RemoveStage
        <4>12. CASE StageAbsent(l)
          BY <4>12 DEF StageAbsent
        <4>13. CASE Look(l)
          <5>1. pc[l] = "look" /\ created[l] /\ created' = created /\ launcher = None
            BY <4>13 DEF Look
          <5>2. pc' = [pc EXCEPT ![l] = "undo"]
            BY <4>13, <5>1 DEF Look, Exact
          <5> QED
            BY <5>1, <5>2
        <4>14. CASE CleanLauncher(l)
          BY <4>14 DEF CleanLauncher
        <4>15. CASE CleanStage(l)
          BY <4>15 DEF CleanStage
        <4>16. CASE Audit(l)
          BY <4>16 DEF Audit
        <4>17. CASE CallFails(l)
          BY <4>17 DEF CallFails
        <4>18. CASE Kill(l)
          BY <4>18 DEF Kill
        <4>19. CASE Terminate(l)
          BY <4>19 DEF Terminate
        <4> QED
          BY <4>1, <4>2, <4>3, <4>4, <4>5, <4>6, <4>6a, <4>7, <4>8, <4>9, <4>10, <4>11, <4>12, <4>13, <4>14, <4>15, <4>16, <4>17, <4>18, <4>19 DEF Step
      <3> QED
        BY <3>5, <3>6
    <2> QED
      BY <2>2
  <1> QED
    BY <1>2, <1>3, <1>4

LEMMA AttendedKept ==
    ASSUME LoaderTypeOK, Counted, Attended, NEW l \in Loaders,
           Step(l) \/ CallFails(l) \/ Kill(l) \/ Terminate(l)
    PROVE  Attended'
  <1>1. ASSUME Calm' PROVE (launcher # None => Removes(launcher.by))'
    BY <1>1, LauncherAttended
  <1>2. ASSUME Calm', stage' # None, launcher' = None PROVE \E b \in Loaders : Pending(b)'
    BY <1>2, PendingStays
  <1>3. (\A b \in Loaders:
            pc[b] \in (Tries \ {"mkdir", "own"}) \cup {"wait", "absent", "unlink", "undo"}
                => created[b])'
    BY CreatedKnown DEF Tries
  <1> QED
    BY <1>1, <1>2, <1>3 DEF Attended

\* When nothing went wrong nothing is left, with any number of loaders about
\* one another.
THEOREM NothingLeft == LoaderSpec => []LeavesNothing
  <1> DEFINE Inv == LoaderTypeOK /\ Counted /\ Attended
  <1>1. LoaderInit => Inv
    BY InitTyped DEF LoaderInit, Counted, Attended, Tries
  <1>2. Inv /\ [LoaderNext]_loaderVars => Inv'
    <2> SUFFICES ASSUME Inv, [LoaderNext]_loaderVars PROVE (Counted /\ Attended)'
      BY TypeKept
    <2>1. CASE LoaderNext
      BY <2>1, CountedKept, AttendedKept DEF LoaderNext
    <2>2. CASE UNCHANGED loaderVars
      BY <2>2 DEF Counted, Attended, Calm, Removes, Pending, loaderVars
    <2> QED
      BY <2>1, <2>2
  <1>3. Inv => LeavesNothing
    <2> SUFFICES ASSUME LoaderTypeOK, Attended, Calm, stage # None,
                        \A l \in Loaders: pc[l] \in {"ended", "refused"}
                 PROVE  FALSE
      BY DEF LeavesNothing, Calm
    <2>1. CASE launcher = None
      BY <2>1 DEF Attended, Pending, Tries
    <2>2. CASE launcher # None
      BY <2>2 DEF Attended, Removes, LoaderTypeOK
    <2> QED
      BY <2>1, <2>2
  <1> QED
    BY <1>1, <1>2, <1>3, PTL DEF LoaderSpec

=============================================================================
