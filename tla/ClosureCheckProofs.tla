------------------------ MODULE ClosureCheckProofs ------------------------
(***************************************************************************)
(* Proofs about the closure of an incident, for any number of operations,  *)
(* any expiries, any clock of the operator and any skew of the host's.     *)
(***************************************************************************)
EXTENDS ClosureCheck, TLAPS

-----------------------------------------------------------------------------
(* Types, and the order in which things come to be.                        *)

Remediations == [at : Times, class : Classes, root : {1, 2}, product : {1, 2}]
Reopenings == [at : Times, format : Formats]
Lineages == [op : Operations, date : Times]
Records == [schema : {1, 2}, op : Operations, product : {1, 2}, generated : Times, freshUntil : Nat]

\* The part that a document of each kind has.
Documents == [op : Operations, time : Times]
Part(d) == [op |-> d.op, time |-> d.time]

TypeInv ==
    /\ now \in Times /\ skew \in 0 .. MaxSkew
    /\ site \in [isolated : BOOLEAN, finding : Finding, root : {1, 2}]
    /\ changes \in 0 .. MaxChanges
    /\ runtime \in {1, 2} /\ signed \in BOOLEAN /\ pc \in {"idle", "verified"}
    /\ remediated \in [Operations -> Remediations \cup {None}]
    /\ reopened \in [Operations -> Reopenings \cup {None}]
    /\ DOMAIN docs = Kinds
    /\ \A k \in Kinds : docs[k] # None => Part(docs[k]) \in Documents
    /\ lineage \in Lineages \cup {None} /\ record \in Records \cup {None}
    /\ signed => record # None

\* A remediation comes before its package expires, and before its reopening.
EventsInOrder ==
    \A op \in Operations :
        /\ remediated[op] # None => remediated[op].at <= now /\ remediated[op].at < Expiry
        /\ reopened[op] # None =>
            /\ remediated[op] # None
            /\ remediated[op].at <= reopened[op].at /\ reopened[op].at <= now

\* A document is not older than what it is about.
DocsAfterEvents ==
    /\ \A k \in Kinds : docs[k] # None => docs[k].time <= now
    /\ docs["poststate"] # None =>
        LET d == docs["poststate"] IN remediated[d.op] # None /\ remediated[d.op].at <= d.time
    /\ docs["postopen"] # None =>
        LET d == docs["postopen"] IN reopened[d.op] # None /\ reopened[d.op].at <= d.time

\* What binds a document is not older than the document.
BindingsAfterDocs ==
    /\ lineage # None =>
        /\ lineage.date <= now
        /\ \A k \in {"poststate", "postopen"} : docs[k] # None => docs[k].time <= lineage.date
    /\ record # None =>
        /\ record.generated <= now
        /\ \A k \in Kinds : docs[k] # None => docs[k].time <= record.generated
        /\ lineage # None => lineage.date <= record.generated

Chronicle == EventsInOrder /\ DocsAfterEvents /\ BindingsAfterDocs

\* What a document of each kind says of itself.
LEMMA SaysWhen ==
    ASSUME NEW k \in Kinds, NEW op
    PROVE  Says(k, op).op = op /\ Says(k, op).time = now
  <1>1. CASE k = "poststate"
    BY <1>1 DEF Says
  <1>2. CASE k = "postopen"
    BY <1>2 DEF Says
  <1>3. CASE k = "identity"
    BY <1>3 DEF Says
  <1>4. CASE k = "evidence"
    BY <1>4 DEF Says
  <1> QED
    BY <1>1, <1>2, <1>3, <1>4 DEF Kinds

-----------------------------------------------------------------------------
(* What the steps do.                                                      *)

LEMMA ObserveStep ==
    ASSUME TypeInv, NEW op \in Operations, NEW k \in Kinds, Observe(k, op)
    PROVE  /\ DOMAIN docs' = Kinds
           /\ \A j \in Kinds : j # k => docs'[j] = docs[j]
           /\ docs'[k].op = op /\ docs'[k].time = now
           /\ k = "poststate" => remediated[op] # None
           /\ k = "postopen" => reopened[op] # None
           /\ lineage' = IF k \in {"poststate", "postopen"} THEN None ELSE lineage
           /\ record' = None /\ signed' = FALSE
  <1>1. DOMAIN docs = Kinds /\ docs' = [docs EXCEPT ![k] = Says(k, op)]
    BY DEF TypeInv, Observe
  <1>2. docs'[k] = Says(k, op)
    BY <1>1
  <1>3. docs'[k].op = op /\ docs'[k].time = now
    BY <1>2, SaysWhen
  <1> QED
    BY <1>1, <1>3 DEF Observe

LEMMA WriteSteps ==
    ASSUME TypeInv, NEW op \in Operations
    PROVE  /\ WriteLineage(op) =>
                /\ lineage' \in Lineages /\ lineage'.date = now
                /\ record' = None /\ signed' = FALSE /\ docs' = docs
           /\ \A schema \in {1, 2}, until \in now + 1 .. MaxTime + 1 : WriteRecord(op, schema, until) =>
                /\ record' \in Records /\ record'.generated = now
                /\ signed' = FALSE /\ UNCHANGED <<docs, lineage>>
  <1>1. now \in Times /\ now \in Nat /\ MaxTime \in Nat /\ runtime \in {1, 2}
    BY ClosureAssumption DEF TypeInv, Times
  <1>2. ASSUME WriteLineage(op)
        PROVE  /\ lineage' \in Lineages /\ lineage'.date = now
               /\ record' = None /\ signed' = FALSE /\ docs' = docs
    BY <1>1, <1>2 DEF WriteLineage, Lineages
  <1>3. ASSUME NEW schema \in {1, 2}, NEW until \in now + 1 .. MaxTime + 1, WriteRecord(op, schema, until)
        PROVE  /\ record' \in Records /\ record'.generated = now
               /\ signed' = FALSE /\ UNCHANGED <<docs, lineage>>
    <2>1. until \in Nat
      BY <1>1
    <2>2. record' = [schema |-> schema, op |-> op, product |-> runtime, generated |-> now, freshUntil |-> until]
      BY <1>3 DEF WriteRecord
    <2>3. record' \in Records
      BY <1>1, <2>1, <2>2 DEF Records
    <2> QED
      BY <1>3, <2>2, <2>3 DEF WriteRecord
  <1> QED
    BY <1>2, <1>3

\* An event adds a remediation or a reopening dated now, and takes none back.
EventAdds ==
    \/ UNCHANGED <<remediated, reopened>>
    \/ \E op \in Operations, e \in Remediations :
        /\ remediated[op] = None /\ now < Expiry /\ e.at = now
        /\ remediated' = [remediated EXCEPT ![op] = e] /\ reopened' = reopened
    \/ \E op \in Operations, e \in Reopenings :
        /\ remediated[op] # None /\ reopened[op] = None /\ e.at = now
        /\ reopened' = [reopened EXCEPT ![op] = e] /\ remediated' = remediated

LEMMA EventStep ==
    ASSUME TypeInv, Events
    PROVE  /\ EventAdds
           /\ site' \in [isolated : BOOLEAN, finding : Finding, root : {1, 2}]
           /\ changes' \in 0 .. MaxChanges /\ runtime' \in {1, 2}
           /\ UNCHANGED <<now, skew, docs, lineage, record, signed, pc>>
  <1>1. /\ now \in Times /\ MaxChanges \in Nat /\ changes \in 0 .. MaxChanges /\ runtime \in {1, 2}
        /\ site \in [isolated : BOOLEAN, finding : Finding, root : {1, 2}]
        /\ site.root \in {1, 2}
    BY ClosureAssumption DEF TypeInv
  <1>2. UNCHANGED <<now, skew, docs, lineage, record, signed, pc>>
    BY DEF Events, papers
  <1>3. ASSUME NEW op \in Operations, NEW c \in Classes, Remediate(op, c)
        PROVE  /\ EventAdds /\ UNCHANGED <<runtime, changes>>
               /\ site' \in [isolated : BOOLEAN, finding : Finding, root : {1, 2}]
    <2> DEFINE e == [at |-> now, class |-> c, root |-> site.root, product |-> runtime]
    <2>1. e \in Remediations /\ e.at = now
      BY <1>1 DEF Remediations
    <2>2. /\ remediated[op] = None /\ now < Expiry
          /\ remediated' = [remediated EXCEPT ![op] = e] /\ reopened' = reopened
      BY <1>3 DEF Remediate
    <2>3. EventAdds
      <3> HIDE DEF e
      <3> QED
        BY <2>1, <2>2 DEF EventAdds
    <2>4. site' = [site EXCEPT !.isolated = TRUE, !.finding = "none"]
      BY <1>3 DEF Remediate
    <2>5. site' \in [isolated : BOOLEAN, finding : Finding, root : {1, 2}]
      BY <1>1, <2>4 DEF Finding
    <2> QED
      BY <1>3, <2>3, <2>5 DEF Remediate
  <1>4. ASSUME NEW op \in Operations, NEW f \in Formats, Reopen(op, f)
        PROVE  /\ EventAdds /\ UNCHANGED <<runtime, changes>>
               /\ site' \in [isolated : BOOLEAN, finding : Finding, root : {1, 2}]
    <2> DEFINE e == [at |-> now, format |-> f]
    <2>1. e \in Reopenings /\ e.at = now
      BY <1>1 DEF Reopenings
    <2>2. /\ remediated[op] # None /\ reopened[op] = None
          /\ reopened' = [reopened EXCEPT ![op] = e] /\ remediated' = remediated
      BY <1>4 DEF Reopen
    <2>3. EventAdds
      <3> HIDE DEF e
      <3> QED
        BY <2>1, <2>2 DEF EventAdds
    <2>4. site' = [site EXCEPT !.isolated = FALSE]
      BY <1>4 DEF Reopen
    <2> QED
      BY <1>1, <1>4, <2>3, <2>4 DEF Reopen
  <1>5. changes < MaxChanges => changes + 1 \in 0 .. MaxChanges
    BY <1>1
  <1>6. CASE SiteChanges
    <2>1. changes' \in 0 .. MaxChanges /\ EventAdds /\ runtime' = runtime
      BY <1>5, <1>6 DEF SiteChanges, EventAdds
    <2>2. ASSUME NEW f \in Finding, site' = [site EXCEPT !.finding = f]
          PROVE  site' \in [isolated : BOOLEAN, finding : Finding, root : {1, 2}]
      BY <1>1, <2>2
    <2>3. ASSUME site' = [site EXCEPT !.root = 2]
          PROVE  site' \in [isolated : BOOLEAN, finding : Finding, root : {1, 2}]
      BY <1>1, <2>3
    <2> QED
      BY <1>1, <1>2, <1>6, <2>1, <2>2, <2>3 DEF SiteChanges
  <1>7. CASE Upgrade
    BY <1>1, <1>2, <1>5, <1>7 DEF Upgrade, EventAdds
  <1> QED
    BY <1>1, <1>2, <1>3, <1>4, <1>6, <1>7 DEF Events

LEMMA TypesInitially ==
    ASSUME Init
    PROVE  TypeInv
  <1>1. 0 \in Times /\ 0 \in 0 .. MaxChanges
    BY ClosureAssumption DEF Times
  <1> QED
    BY <1>1 DEF Init, TypeInv, Finding

LEMMA TypesKept ==
    ASSUME TypeInv, [Next]_vars
    PROVE  TypeInv'
  <1>1. CASE UNCHANGED <<events, papers>> /\ now' \in Times /\ skew' = skew /\ pc' \in {"idle", "verified"}
    BY <1>1 DEF TypeInv, events, papers
  <1>2. CASE FirstVerify \/ SecondVerify
    BY <1>1, <1>2 DEF FirstVerify, SecondVerify, TypeInv
  <1>3. CASE Tick
    <2>1. now' \in Times
      BY <1>3, ClosureAssumption DEF Tick, TypeInv, Times
    <2> QED
      BY <1>1, <1>3, <2>1 DEF Tick, TypeInv
  <1>4. CASE Events
    <2>1. remediated' \in [Operations -> Remediations \cup {None}]
      BY <1>4, EventStep DEF TypeInv, EventAdds
    <2>2. reopened' \in [Operations -> Reopenings \cup {None}]
      BY <1>4, EventStep DEF TypeInv, EventAdds
    <2> QED
      BY <1>4, <2>1, <2>2, EventStep DEF TypeInv
  <1>5. CASE Authors
    <2>1. UNCHANGED <<now, skew, site, runtime, changes, remediated, reopened, pc>>
      BY <1>5 DEF Authors, events
    <2>2. ASSUME NEW op \in Operations, NEW k \in Kinds, Observe(k, op)
          PROVE  TypeInv'
      <3>1. /\ DOMAIN docs' = Kinds
            /\ \A j \in Kinds : j # k => docs'[j] = docs[j]
            /\ docs'[k].op = op /\ docs'[k].time = now
            /\ lineage' \in {lineage, None} /\ record' = None /\ signed' = FALSE
        BY <2>2, ObserveStep
      <3>2. Part(docs'[k]) \in Documents
        <4>1. Part(docs'[k]) = [op |-> op, time |-> now]
          BY <3>1 DEF Part
        <4> QED
          BY <4>1 DEF Documents, TypeInv
      <3>3. \A j \in Kinds : docs'[j] # None => Part(docs'[j]) \in Documents
        BY <3>1, <3>2 DEF TypeInv
      <3> QED
        BY <2>1, <3>1, <3>3 DEF TypeInv
    <2>3. ASSUME NEW op \in Operations, WriteLineage(op)
          PROVE  TypeInv'
      BY <2>1, <2>3, WriteSteps DEF TypeInv
    <2>4. ASSUME NEW op \in Operations, NEW schema \in {1, 2}, NEW until \in now + 1 .. MaxTime + 1,
                 WriteRecord(op, schema, until)
          PROVE  TypeInv'
      <3>1. record' \in Records /\ signed' = FALSE /\ UNCHANGED <<docs, lineage>>
        BY <2>4, WriteSteps
      <3> QED
        BY <2>1, <3>1 DEF TypeInv
    <2>5. CASE SignRecord
      BY <2>1, <2>5 DEF SignRecord, TypeInv
    <2> QED
      BY <1>5, <2>2, <2>3, <2>4, <2>5 DEF Authors
  <1>6. CASE UNCHANGED vars
    BY <1>1, <1>6 DEF vars, TypeInv
  <1> QED
    BY <1>2, <1>3, <1>4, <1>5, <1>6 DEF Next

LEMMA AlwaysTyped == Spec => []TypeInv
  <1> QED
    BY TypesInitially, TypesKept, PTL DEF Spec

\* THEOREM.  TypeOK: the variables keep their types, and the command's verdict is one
\* of the three that verify_closure gives.
THEOREM TypeCorrect == Spec => []TypeOK
  <1>1. Verdict \in {"CLEAN", "STILL_INCOMPLETE", "REFUSED"}
    BY DEF Verdict, VerifyClosure
  <1>2. TypeInv => TypeOK
    BY <1>1 DEF TypeInv, TypeOK
  <1> QED
    BY <1>2, AlwaysTyped, PTL

-----------------------------------------------------------------------------
(* The chronicle.                                                          *)

LEMMA DatesTyped ==
    ASSUME TypeInv
    PROVE  /\ now \in Nat /\ skew \in Nat /\ Expiry \in Nat /\ ReopenExpiry \in Nat
           /\ \A op \in Operations :
                /\ remediated[op] # None => remediated[op] \in Remediations /\ remediated[op].at \in Nat
                /\ reopened[op] # None => reopened[op] \in Reopenings /\ reopened[op].at \in Nat
           /\ \A k \in Kinds : docs[k] # None => docs[k].op \in Operations /\ docs[k].time \in Nat
           /\ lineage # None => lineage.op \in Operations /\ lineage.date \in Nat
           /\ record # None => /\ record \in Records /\ record.op \in Operations
                               /\ record.generated \in Nat /\ record.schema \in {1, 2}
  <1>1. Times \subseteq Nat /\ 0 .. MaxSkew \subseteq Nat
    BY DEF Times
  <1>2. now \in Nat /\ skew \in Nat /\ Expiry \in Nat /\ ReopenExpiry \in Nat
    BY <1>1, ClosureAssumption DEF TypeInv
  <1>3. ASSUME NEW op \in Operations
        PROVE  /\ remediated[op] # None => remediated[op] \in Remediations /\ remediated[op].at \in Nat
               /\ reopened[op] # None => reopened[op] \in Reopenings /\ reopened[op].at \in Nat
    BY <1>1 DEF TypeInv, Remediations, Reopenings
  <1>4. ASSUME NEW k \in Kinds, docs[k] # None
        PROVE  docs[k].op \in Operations /\ docs[k].time \in Nat
    <2>1. Part(docs[k]) \in Documents
      BY <1>4 DEF TypeInv
    <2> QED
      BY <1>1, <2>1 DEF Part, Documents
  <1>5. lineage # None => lineage.op \in Operations /\ lineage.date \in Nat
    BY <1>1 DEF TypeInv, Lineages
  <1>6. record # None => /\ record \in Records /\ record.op \in Operations
                         /\ record.generated \in Nat /\ record.schema \in {1, 2}
    BY <1>1 DEF TypeInv, Records
  <1> QED
    BY <1>2, <1>3, <1>4, <1>5, <1>6

\* Time may pass.
LEMMA TimePasses ==
    ASSUME TypeInv, Chronicle, UNCHANGED <<events, docs, lineage, record>>, now' \in Nat, now <= now'
    PROVE  Chronicle'
  <1>1. UNCHANGED <<remediated, reopened>>
    BY DEF events
  <1>2. EventsInOrder'
    BY <1>1, DatesTyped DEF Chronicle, EventsInOrder
  <1>3. DocsAfterEvents'
    BY <1>1, DatesTyped DEF Chronicle, DocsAfterEvents
  <1>4. BindingsAfterDocs'
    BY DatesTyped DEF Chronicle, BindingsAfterDocs
  <1> QED
    BY <1>2, <1>3, <1>4 DEF Chronicle

\* What was remediated and reopened stays so.
LEMMA EventsKeep ==
    ASSUME TypeInv, Chronicle, Events
    PROVE  Chronicle'
  <1>1. EventAdds /\ UNCHANGED <<now, docs, lineage, record>>
    BY EventStep
  <1>2. /\ remediated \in [Operations -> Remediations \cup {None}]
        /\ reopened \in [Operations -> Reopenings \cup {None}]
    BY DEF TypeInv
  <1>3. \A op \in Operations :
            /\ remediated[op] # None => remediated'[op] = remediated[op]
            /\ reopened[op] # None => reopened'[op] = reopened[op]
    BY <1>1, <1>2 DEF EventAdds
  <1>4. \A op \in Operations :
            /\ remediated'[op] # remediated[op] => remediated'[op].at = now /\ now < Expiry
            /\ reopened'[op] # reopened[op] => remediated[op] # None /\ reopened'[op].at = now
    BY <1>1, <1>2 DEF EventAdds
  <1>5. EventsInOrder'
    BY <1>1, <1>3, <1>4, DatesTyped DEF Chronicle, EventsInOrder
  <1>6. DocsAfterEvents'
    <2>1. \A k \in Kinds : docs[k] # None => docs[k].op \in Operations
      BY DatesTyped
    <2>2. {"poststate", "postopen"} \subseteq Kinds
      BY DEF Kinds
    <2> QED
      BY <1>1, <1>3, <2>1, <2>2 DEF Chronicle, DocsAfterEvents
  <1>7. BindingsAfterDocs'
    BY <1>1 DEF Chronicle, BindingsAfterDocs
  <1> QED
    BY <1>5, <1>6, <1>7 DEF Chronicle

\* A document written now takes what bound the one before with it.
LEMMA DocumentsKeep ==
    ASSUME TypeInv, Chronicle, UNCHANGED <<now, events>>,
           NEW op \in Operations, NEW k \in Kinds, Observe(k, op)
    PROVE  Chronicle'
  <1>1. /\ \A j \in Kinds : j # k => docs'[j] = docs[j]
        /\ docs'[k].op = op /\ docs'[k].time = now
        /\ k = "poststate" => remediated[op] # None
        /\ k = "postopen" => reopened[op] # None
        /\ lineage' = IF k \in {"poststate", "postopen"} THEN None ELSE lineage
        /\ record' = None
    BY ObserveStep
  <1>2. UNCHANGED <<now, remediated, reopened>>
    BY DEF events
  <1>3. EventsInOrder'
    BY <1>2 DEF Chronicle, EventsInOrder
  <1>4. /\ remediated[op] # None => remediated[op].at <= now
        /\ reopened[op] # None => reopened[op].at <= now
    BY DEF Chronicle, EventsInOrder
  <1>5. now <= now
    BY DatesTyped
  <1>6. {"poststate", "postopen"} \subseteq Kinds
    BY DEF Kinds
  <1>7. DocsAfterEvents'
    <2>1. \A j \in Kinds : docs'[j] # None => docs'[j].time <= now'
      BY <1>1, <1>2, <1>5 DEF Chronicle, DocsAfterEvents
    <2>2. docs'["poststate"] # None =>
            /\ remediated'[docs'["poststate"].op] # None
            /\ remediated'[docs'["poststate"].op].at <= docs'["poststate"].time
      <3>1. CASE k = "poststate"
        BY <1>1, <1>2, <1>4, <3>1
      <3>2. CASE k # "poststate"
        BY <1>1, <1>2, <1>6, <3>2 DEF Chronicle, DocsAfterEvents
      <3> QED
        BY <3>1, <3>2
    <2>3. docs'["postopen"] # None =>
            /\ reopened'[docs'["postopen"].op] # None
            /\ reopened'[docs'["postopen"].op].at <= docs'["postopen"].time
      <3>1. CASE k = "postopen"
        BY <1>1, <1>2, <1>4, <3>1
      <3>2. CASE k # "postopen"
        BY <1>1, <1>2, <1>6, <3>2 DEF Chronicle, DocsAfterEvents
      <3> QED
        BY <3>1, <3>2
    <2> QED
      BY <2>1, <2>2, <2>3 DEF DocsAfterEvents
  <1>8. BindingsAfterDocs'
    BY <1>1, <1>2, <1>6 DEF Chronicle, BindingsAfterDocs
  <1> QED
    BY <1>3, <1>7, <1>8 DEF Chronicle

\* What binds documents is dated now.
LEMMA BindingsKeep ==
    ASSUME TypeInv, Chronicle, UNCHANGED <<now, events, docs>>,
           \/ /\ lineage' \in Lineages /\ lineage'.date = now /\ record' = None
           \/ /\ record' \in Records /\ record'.generated = now /\ lineage' = lineage
    PROVE  Chronicle'
  <1>1. UNCHANGED <<remediated, reopened>> /\ now <= now
    BY DatesTyped DEF events
  <1>2. EventsInOrder' /\ DocsAfterEvents'
    BY <1>1 DEF Chronicle, EventsInOrder, DocsAfterEvents
  <1>3. \A k \in Kinds : docs[k] # None => docs[k].time <= now
    BY DEF Chronicle, DocsAfterEvents
  <1>4. {"poststate", "postopen"} \subseteq Kinds
    BY DEF Kinds
  <1>5. BindingsAfterDocs'
    BY <1>1, <1>3, <1>4 DEF Chronicle, BindingsAfterDocs
  <1> QED
    BY <1>2, <1>5 DEF Chronicle

LEMMA ChronicleInitially ==
    ASSUME Init
    PROVE  Chronicle
  BY DEF Init, Kinds, Chronicle, EventsInOrder, DocsAfterEvents, BindingsAfterDocs

LEMMA ChronicleKept ==
    ASSUME TypeInv, Chronicle, [Next]_vars
    PROVE  Chronicle'
  <1>1. now \in Nat /\ now <= now
    BY DatesTyped
  <1>2. CASE UNCHANGED vars \/ FirstVerify \/ SecondVerify
    <2>1. UNCHANGED <<now, events, docs, lineage, record>>
      BY <1>2 DEF vars, FirstVerify, SecondVerify, papers
    <2> QED
      BY <1>1, <2>1, TimePasses
  <1>3. CASE Tick
    <2>1. UNCHANGED <<events, docs, lineage, record>> /\ now' = now + 1
      BY <1>3 DEF Tick, papers
    <2> QED
      BY <1>1, <2>1, TimePasses
  <1>4. CASE Events
    BY <1>4, EventsKeep
  <1>5. CASE Authors
    <2>1. UNCHANGED <<now, events>>
      BY <1>5 DEF Authors
    <2>2. ASSUME NEW op \in Operations, NEW k \in Kinds, Observe(k, op)
          PROVE  Chronicle'
      BY <2>1, <2>2, DocumentsKeep
    <2>3. ASSUME NEW op \in Operations, WriteLineage(op)
          PROVE  Chronicle'
      BY <2>1, <2>3, WriteSteps, BindingsKeep
    <2>4. ASSUME NEW op \in Operations, NEW schema \in {1, 2}, NEW until \in now + 1 .. MaxTime + 1,
                 WriteRecord(op, schema, until)
          PROVE  Chronicle'
      <3>1. record' \in Records /\ record'.generated = now /\ UNCHANGED <<docs, lineage>>
        BY <2>4, WriteSteps
      <3> QED
        BY <2>1, <3>1, BindingsKeep
    <2>5. CASE SignRecord
      BY <1>1, <2>1, <2>5, TimePasses DEF SignRecord
    <2> QED
      BY <1>5, <2>2, <2>3, <2>4, <2>5 DEF Authors
  <1> QED
    BY <1>2, <1>3, <1>4, <1>5 DEF Next

LEMMA AlwaysInOrder == Spec => []Chronicle
  <1> QED
    BY ChronicleInitially, ChronicleKept, AlwaysTyped, PTL DEF Spec

-----------------------------------------------------------------------------
(* What a verdict stands for.                                              *)

LEMMA CleanRecord ==
    ASSUME TypeInv, Verdict = "CLEAN"
    PROVE  /\ record # None /\ record.op \in Operations /\ record.schema \in {1, 2}
           /\ record.product = runtime /\ Bound(record) /\ EvidenceVerified(record)
           /\ now < record.freshUntil /\ docs["evidence"].finding = "none"
  <1>1. record # None /\ Admissible(record) /\ ~Blocked(record)
    BY DEF Verdict, VerifyClosure
  <1>2. record.freshUntil \in Nat /\ now \in Nat /\ record.op \in Operations /\ record.schema \in {1, 2}
    BY <1>1, DatesTyped DEF Records
  <1> QED
    BY <1>1, <1>2 DEF Admissible, Blocked

\* The order of an executed lineage.  A date of the host may be ahead of the time,
\* and each comparison leaves that between two such dates, or on the side that may
\* be late; what a document was about is not younger than it.
LEMMA LineageIsInOrder ==
    ASSUME TypeInv, Chronicle, NEW r, r.op \in Operations, HistoricalLineage(r), SiteIdentity(r)
    PROVE  LET done == remediated[r.op]
               back == reopened[r.op]
               T(k) == docs[k].time
           IN  /\ done # None /\ back # None
               /\ done.at <= T("poststate") /\ T("poststate") <= back.at
               /\ back.at <= T("postopen") /\ ~docs["postopen"].isolated
               /\ T("postopen") <= T("identity") /\ About("identity", r.op) /\ About("postopen", r.op)
               /\ \A k \in {"poststate", "postopen", "identity"} : docs[k].root = done.root
  <1> DEFINE done == remediated[r.op]
             back == reopened[r.op]
             T(k) == docs[k].time
  <1>1. /\ done # None /\ back # None
        /\ About("poststate", r.op) /\ docs["poststate"].root = done.root
        /\ About("postopen", r.op) /\ docs["postopen"].root = done.root /\ ~docs["postopen"].isolated
        /\ About("identity", r.op) /\ docs["identity"].root = done.root
        /\ T("poststate") + skew <= back.at
        /\ T("postopen") + skew <= T("identity") + skew
    BY DEF HistoricalLineage, RemediationVerified, ReopenVerified, PoststateSeen, PostOpenSeen, SiteIdentity,
           Audited, Within, Date
  <1>2. /\ skew \in Nat /\ T("poststate") \in Nat /\ T("postopen") \in Nat /\ T("identity") \in Nat
        /\ back.at \in Nat
    BY <1>1, DatesTyped DEF About, Kinds
  <1>3. T("poststate") <= back.at /\ T("postopen") <= T("identity")
    BY <1>1, <1>2
  <1>4. done.at <= T("poststate") /\ back.at <= T("postopen")
    BY <1>1 DEF Chronicle, DocsAfterEvents, About
  <1> QED
    BY <1>1, <1>3, <1>4

\* THEOREM.  LineageInOrder: a clean verdict of verify_closure on an executed lineage
\* has the whole history behind it, in order and on one document root.
THEOREM LineageIsTold == Spec => []LineageInOrder
  <1>1. ASSUME TypeInv, Chronicle, Verdict = "CLEAN", record.schema = 2
        PROVE  LET done == remediated[record.op]
                   back == reopened[record.op]
                   T(k) == docs[k].time
               IN  /\ done.at <= T("poststate") /\ T("poststate") <= back.at
                   /\ back.at <= T("postopen") /\ ~docs["postopen"].isolated
                   /\ T("postopen") <= T("identity")
                   /\ \A k \in {"poststate", "postopen", "identity"} : docs[k].root = done.root
    <2>1. record.op \in Operations /\ HistoricalLineage(record) /\ SiteIdentity(record)
      BY <1>1, CleanRecord DEF Bound
    <2> QED
      BY <1>1, <2>1, LineageIsInOrder
  <1>2. TypeInv /\ Chronicle => LineageInOrder
    BY <1>1 DEF LineageInOrder
  <1> QED
    BY <1>2, AlwaysTyped, AlwaysInOrder, PTL

\* THEOREM.  CleanWasSeen: whatever clocks, operations and Products were mixed, what
\* verify_closure reports clean was seen clean after the reopening, with the Product
\* that reports it.
THEOREM CleanIsTrue == Spec => []CleanWasSeen
  <1>1. ASSUME TypeInv, Chronicle, Verdict = "CLEAN"
        PROVE  LET done == remediated[record.op]
                   back == reopened[record.op]
                   seen == docs["evidence"]
               IN  /\ done # None /\ back # None
                   /\ done.at <= back.at /\ back.at <= seen.time
                   /\ seen.finding = "none" /\ seen.product = runtime
                   /\ now < record.freshUntil
    <2> DEFINE back == reopened[record.op]
               seen == docs["evidence"]
    <2>1. /\ record.op \in Operations /\ record.schema \in {1, 2} /\ record.product = runtime
          /\ Bound(record) /\ EvidenceVerified(record)
          /\ now < record.freshUntil /\ seen.finding = "none"
      BY <1>1, CleanRecord
    <2>2. About("evidence", record.op) /\ seen.product = runtime /\ Earliest(record) <= seen.time + skew
      BY <2>1 DEF EvidenceVerified, Within, Date
    <2>3. skew \in Nat /\ seen.time \in Nat
      BY <1>1, <2>2, DatesTyped DEF About, Kinds
    <2>4. back # None /\ back.at <= seen.time
      <3>1. CASE record.schema = 2
        <4>1. HistoricalLineage(record) /\ SiteIdentity(record)
          BY <2>1, <3>1 DEF Bound
        <4>2. /\ back # None /\ back.at <= docs["postopen"].time
              /\ docs["postopen"].time <= docs["identity"].time
              /\ docs["identity"] # None /\ docs["postopen"] # None
          BY <1>1, <2>1, <4>1, LineageIsInOrder DEF About
        <4>3. docs["identity"].time + skew <= seen.time + skew
          BY <2>2, <3>1 DEF Earliest, Date
        <4>4. docs["identity"].time \in Nat /\ docs["postopen"].time \in Nat /\ back.at \in Nat
          BY <1>1, <2>1, <4>2, DatesTyped DEF Kinds
        <4> QED
          BY <2>3, <4>2, <4>3, <4>4
      <3>2. CASE record.schema = 1
        <4>1. About("postopen", record.op)
          BY <2>1, <3>2 DEF Bound, ReopenAndPostcheck
        <4>2. back # None /\ back.at <= docs["postopen"].time
          BY <1>1, <4>1 DEF About, Chronicle, DocsAfterEvents
        <4>3. docs["postopen"].time + skew <= seen.time + skew
          BY <2>2, <3>2 DEF Earliest, Date
        <4>4. docs["postopen"].time \in Nat /\ back.at \in Nat
          BY <1>1, <2>1, <4>1, <4>2, DatesTyped DEF About, Kinds
        <4> QED
          BY <2>3, <4>2, <4>3, <4>4
      <3> QED
        BY <2>1, <3>1, <3>2
    <2>5. remediated[record.op] # None /\ remediated[record.op].at <= back.at
      BY <1>1, <2>1, <2>4 DEF Chronicle, EventsInOrder
    <2> QED
      BY <2>1, <2>2, <2>4, <2>5
  <1>2. TypeInv /\ Chronicle => CleanWasSeen
    BY <1>1 DEF CleanWasSeen
  <1> QED
    BY <1>2, AlwaysTyped, AlwaysInOrder, PTL

\* What is done and documented by the book passes each of the verifier's checks.
LEMMA BookPasses ==
    ASSUME TypeInv, Chronicle, record # None, ByTheBook(record),
           reopened[record.op].format = IF record.schema = 2 THEN "private" ELSE "unmarked"
    PROVE  Verdict = "CLEAN"
  <1> DEFINE r == record
             done == remediated[r.op]
             back == reopened[r.op]
             T(k) == docs[k].time
  <1>1. /\ r.op \in Operations /\ r.generated \in Nat /\ r.schema \in {1, 2} /\ r.freshUntil \in Nat
        /\ now \in Nat /\ Expiry \in Nat /\ ReopenExpiry \in Nat
    BY DatesTyped DEF Records
  <1>2. /\ done # None /\ back # None /\ done \in Remediations /\ done.at \in Nat /\ back.at \in Nat
        /\ done.at < Expiry
    BY <1>1, DatesTyped DEF ByTheBook, Chronicle, EventsInOrder
  <1>3. /\ {"postopen", "evidence"} \subseteq BoundKinds(r)
        /\ \A k \in BoundKinds(r) : About(k, r.op) /\ T(k) \in Nat
    <2>1. {"postopen", "evidence"} \subseteq BoundKinds(r) /\ BoundKinds(r) \subseteq Kinds
      BY DEF BoundKinds, Kinds
    <2>2. \A k \in BoundKinds(r) : About(k, r.op)
      BY DEF ByTheBook
    <2> QED
      BY <2>1, <2>2, DatesTyped DEF About
  <1>4. \A k \in BoundKinds(r) : Date(k) = T(k) /\ T(k) <= r.generated
    <2>1. skew = 0
      BY DEF ByTheBook
    <2>2. \A k \in BoundKinds(r) : docs[k] # None /\ k \in Kinds
      BY <1>3 DEF About, BoundKinds, Kinds
    <2> QED
      BY <1>3, <2>1, <2>2 DEF Date, Chronicle, BindingsAfterDocs
  <1>5. /\ r.generated <= now /\ r.product = runtime /\ done.product = runtime
        /\ now < r.freshUntil /\ now < ReopenExpiry /\ back.at <= T("postopen")
    <2>1. docs["postopen"] # None /\ docs["postopen"].op = r.op
      BY <1>3 DEF About
    <2> QED
      BY <2>1 DEF ByTheBook, Chronicle, BindingsAfterDocs, DocsAfterEvents
  <1>6. /\ \A k \in BoundKinds(r) \ {"identity"} : docs[k].finding = "none"
        /\ \A k \in BoundKinds(r) \ {"evidence"} : docs[k].root = done.root
        /\ \A k \in BoundKinds(r) \cap {"identity", "evidence"} : docs[k].product = runtime
        /\ ~docs["postopen"].isolated /\ T("postopen") <= T("evidence")
    BY DEF ByTheBook
  <1>7. /\ docs["evidence"].finding = "none" /\ docs["postopen"].finding = "none"
        /\ docs["evidence"].product = runtime
    BY <1>3, <1>6
  <1>8. (docs["evidence"].finding = "recurrence") = Recurred(r)
    BY <1>7 DEF Recurred
  <1>9. CASE r.schema = 2
    <2>1. BoundKinds(r) = Kinds
      BY <1>9 DEF BoundKinds
    <2>2. /\ lineage # None /\ lineage.op = r.op /\ T("poststate") <= back.at
          /\ (done.class = "legacy" => T("poststate") >= Expiry)
          /\ T("postopen") <= T("identity") /\ T("identity") <= T("evidence")
      BY <1>9 DEF ByTheBook
    <2>3. /\ \A k \in Kinds : /\ About(k, r.op) /\ T(k) \in Nat /\ Date(k) = T(k) /\ T(k) <= r.generated
          /\ docs["poststate"].finding = "none"
          /\ docs["poststate"].root = done.root /\ docs["postopen"].root = done.root
          /\ docs["identity"].root = done.root /\ docs["identity"].product = runtime
      BY <1>3, <1>4, <1>6, <2>1 DEF Kinds
    <2>4. /\ lineage.date \in Nat /\ lineage.date <= r.generated
          /\ T("poststate") <= lineage.date /\ T("postopen") <= lineage.date
          /\ done.at <= T("poststate")
      <3>1. /\ docs["poststate"] # None /\ docs["poststate"].op = r.op
            /\ docs["postopen"] # None
        BY <2>3 DEF About, Kinds
      <3> QED
        BY <2>2, <3>1, DatesTyped DEF Chronicle, BindingsAfterDocs, DocsAfterEvents
    <2>5. /\ Date("poststate") = T("poststate") /\ Date("postopen") = T("postopen")
          /\ Date("identity") = T("identity") /\ Date("evidence") = T("evidence")
          /\ T("poststate") \in Nat /\ T("postopen") \in Nat /\ T("identity") \in Nat /\ T("evidence") \in Nat
          /\ About("poststate", r.op) /\ About("postopen", r.op) /\ About("identity", r.op)
          /\ About("evidence", r.op)
          /\ T("identity") <= r.generated /\ T("evidence") <= r.generated
      BY <2>3 DEF Kinds
    <2>6. PoststateSeen(r.op, done.at) /\ (done.class = "legacy" => PoststateSeen(r.op, Expiry))
      BY <1>1, <1>2, <2>2, <2>3, <2>4, <2>5 DEF PoststateSeen, Within
    <2>7. RemediationVerified(r.op)
      <3>1. done.class \in {"signed", "legacy"}
        BY <1>2, ClosureAssumption DEF Remediations
      <3>2. Audited(done.at, 0)
        BY <1>2, <2>4, <2>5 DEF Audited, Within
      <3> QED
        BY <1>2, <2>6, <3>1, <3>2 DEF RemediationVerified
    <2>8. ReopenVerified(r.op)
      <3>1. Audited(back.at, Date("poststate"))
        BY <1>2, <1>5, <2>2, <2>4, <2>5 DEF Audited, Within
      <3>2. PostOpenSeen(r.op, back.at)
        BY <1>2, <1>5, <1>6, <1>7, <2>3, <2>4, <2>5 DEF PostOpenSeen, Within
      <3> QED
        BY <1>2, <1>9, <3>1, <3>2 DEF ReopenVerified
    <2>9. SiteIdentity(r)
      BY <1>5, <2>2, <2>3, <2>5 DEF SiteIdentity, Within
    <2>10. Bound(r)
      BY <1>9, <2>2, <2>4, <2>7, <2>8, <2>9 DEF Bound, HistoricalLineage
    <2>11. EvidenceVerified(r)
      BY <1>5, <1>7, <1>8, <1>9, <2>2, <2>5 DEF EvidenceVerified, Within, Earliest
    <2>12. Admissible(r) /\ ~Blocked(r)
      BY <1>1, <1>5, <1>7, <1>9, <2>10, <2>11 DEF Admissible, Blocked
    <2> QED
      BY <2>12 DEF Verdict, VerifyClosure
  <1>10. CASE r.schema = 1
    <2>1. /\ Date("postopen") = T("postopen") /\ Date("evidence") = T("evidence")
          /\ T("postopen") \in Nat /\ T("evidence") \in Nat
          /\ T("postopen") <= r.generated /\ T("evidence") <= r.generated
          /\ About("postopen", r.op) /\ About("evidence", r.op)
      BY <1>3, <1>4
    <2>2. r.generated < ReopenExpiry
      BY <1>1, <1>5
    <2>3. Bound(r)
      BY <1>2, <1>5, <1>10, <2>1, <2>2 DEF Bound, ReopenAndPostcheck
    <2>4. EvidenceVerified(r)
      BY <1>5, <1>6, <1>7, <1>8, <1>10, <2>1 DEF EvidenceVerified, Within, Earliest
    <2>5. Admissible(r) /\ ~Blocked(r)
      BY <1>1, <1>5, <1>6, <1>7, <1>10, <2>3, <2>4 DEF Admissible, Blocked
    <2> QED
      BY <2>5 DEF Verdict, VerifyClosure
  <1> QED
    BY <1>1, <1>9, <1>10

\* THEOREM.  CompleteRecordCloses: what was done and documented by the book is clean
\* for verify_closure, up to the last second of the record, if the reopening is of
\* the format the record's schema reads.
THEOREM CompleteIsClosed == Spec => []CompleteRecordCloses
  <1>1. TypeInv /\ Chronicle => CompleteRecordCloses
    BY BookPasses DEF CompleteRecordCloses
  <1> QED
    BY <1>1, AlwaysTyped, AlwaysInOrder, PTL
=============
