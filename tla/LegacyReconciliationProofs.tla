----------------------- MODULE LegacyReconciliationProofs -----------------------
(***************************************************************************)
(* Proofs about the reconciliation of an execution that was never signed,  *)
(* for any contracts, any number of launchers, deaths, changes of the site *)
(* and late requests, and any dates.                                       *)
(***************************************************************************)
EXTENDS LegacyReconciliation, TLAPS

-----------------------------------------------------------------------------
(* Types.                                                                  *)

Works == [at : Times, by : Nat, all : BOOLEAN]
Lines == [what : Markers \cup {"begin", "terminal", "torn", "failure"}, at : Times, exact : BOOLEAN]
Observations == [begin : Times, end : Times \cup {None}, seen : [Evidence -> Times \cup {None}]]
Posts == [log : Seq(Lines), obs : Seq(Observations), completed : Times \cup {None}]
Attestations == [log : Seq(Lines), preserved : Seq(Lines), post : Posts, generated : Times]

LauncherTypes ==
    /\ runs \in Nat
    /\ pc \in {"none", "begin", "report", "reportPart", "terminal", "ended", "dead"} \cup contract
    /\ done \in [Markers -> SUBSET Works] /\ log \in Seq(Lines)

TypeInv ==
    /\ now \in Times /\ contract \in Contracts /\ LauncherTypes
    /\ preserved \in Seq(Lines) /\ probe \in Times \cup {None}
    /\ post \in Posts \cup {None} /\ attestation \in Attestations \cup {None}

-----------------------------------------------------------------------------
(* What a launcher has come to.                                            *)

\* The place of a step in the order of a launcher, and of a step behind the last.
Rank(step) ==
    CASE step = "begin" -> 1 [] step = "quarantine" -> 2 [] step = "replace" -> 3
      [] step = "apply" -> 4 [] step = "after" -> 5 [] step = "terminal" -> 6 [] OTHER -> 7

Steps == contract \cup {"begin", "terminal"}

\* The work of the last launcher.
Mine(m) == {d \in done[m] : d.by = runs}

Reporting == pc \in {"report", "reportPart"}

\* A line of the audit that tells of this work.
Told(m, d) == \E i \in Reports(m) : log[i].exact = d.all /\ d.at <= log[i].at

\* The launcher has told of all steps before the place h, and of none behind it.
Stage(h) ==
    /\ pc \in {"none", "begin"} => h = 1
    /\ pc \in contract \cup {"terminal"} => h = Rank(pc)
    /\ pc = "ended" => h = 7
    /\ Reporting => \E m \in contract : Rank(m) = h
    /\ \A m \in contract :
        /\ Mine(m) # {} <=> Rank(m) < h \/ (Reporting /\ Rank(m) = h)
        /\ \A d \in Mine(m) : IF Rank(m) < h THEN Told(m, d) ELSE d.all = (pc = "report")

\* The audit of a single launcher has every such step once and in order.
Neat(h) ==
    /\ \A i, j \in DOMAIN log : i < j => Rank(log[i].what) < Rank(log[j].what)
    /\ \A i \in DOMAIN log : log[i].what \in Steps /\ Rank(log[i].what) < h
    /\ \A s \in Steps : Rank(s) < h => Reports(s) # {}

Staged == pc # "dead" => \E h \in 1 .. 7 : Stage(h) /\ (runs <= 1 => Neat(h))

\* Work is of one of the launchers so far; of each there is one piece of a kind,
\* in the order of the contract.
WorkInOrder ==
    /\ \A m \in Markers : \A d \in done[m] : m \in contract /\ d.by \in 1 .. runs /\ d.at <= now
    /\ \A m, n \in Markers : \A d \in done[m], e \in done[n] :
        d.by = e.by => /\ m = n => d = e
                       /\ Rank(m) < Rank(n) => d.at <= e.at

LogInOrder ==
    /\ \A i \in DOMAIN log : log[i].at <= now
    /\ \A i, j \in DOMAIN log : i < j => log[i].at <= log[j].at

\* Whoever works has announced it, each launcher for itself.
Begun == pc \in contract \cup {"report", "reportPart", "terminal", "ended"}
Others == \E m \in Markers : \E d \in done[m] : d.by # runs

Announced ==
    /\ Begun \/ (\E m \in Markers : done[m] # {}) => Reports("begin") # {}
    /\ Begun /\ Others => \E i, j \in Reports("begin") : i # j
    /\ Reports("terminal") # {} => pc = "ended"
    /\ pc = "none" => runs = 0 /\ log = <<>>
    /\ pc \notin {"none"} => runs >= 1

Launched == Staged /\ WorkInOrder /\ LogInOrder /\ Announced

-----------------------------------------------------------------------------
(* What was observed.                                                      *)

\* An observation sees what is true after its beginning, but for a denial, and
\* nothing after its end.
Observed(o, time) ==
    /\ o.begin <= time
    /\ o.end # None => o.begin <= o.end /\ o.end <= time
    /\ \A k \in Evidence : o.seen[k] # None =>
        /\ o.seen[k] <= time /\ (o.end # None => o.seen[k] <= o.end)
        /\ k # "denial" => o.begin <= o.seen[k]

Known(p, time) ==
    /\ Len(p.obs) <= 2
    /\ \A n \in DOMAIN p.obs : Observed(p.obs[n], time)
    /\ \A n \in DOMAIN p.obs : n < Len(p.obs) => p.obs[n].end # None
    /\ p.completed # None =>
        /\ p.completed <= time
        /\ \A n \in DOMAIN p.obs : p.obs[n].end # None /\ Observed(p.obs[n], p.completed)

Collected ==
    /\ probe # None => probe <= now
    /\ post # None => Known(post, now)
    /\ attestation # None =>
        /\ attestation.generated <= now
        /\ post # None /\ attestation.post = post /\ Known(post, attestation.generated)

-----------------------------------------------------------------------------
(* The order of a contract.                                                *)

LEMMA RankIs ==
    /\ Rank("begin") = 1 /\ Rank("quarantine") = 2 /\ Rank("replace") = 3
    /\ Rank("apply") = 4 /\ Rank("after") = 5 /\ Rank("terminal") = 6
  BY DEF Rank

LEMMA RankOfMarkers ==
    /\ \A m \in Markers : Rank(m) \in 2 .. 5
    /\ \A m, n \in Markers : Rank(m) = Rank(n) => m = n
  BY RankIs DEF Markers

LEMMA RankOfSteps ==
    ASSUME contract \subseteq Markers
    PROVE  /\ \A s \in Steps : Rank(s) \in 1 .. 6
           /\ \A s, t \in Steps : Rank(s) = Rank(t) => s = t
  <1>1. Steps \subseteq {"begin", "quarantine", "replace", "apply", "after", "terminal"}
    BY DEF Steps, Markers
  <1> QED
    BY <1>1, RankIs

\* A step is followed by the next one of the contract.
LEMMA AfterIsNext ==
    ASSUME contract \subseteq Markers, NEW s \in contract \cup {"begin"}
    PROVE  /\ After(s) \in contract \cup {"terminal"}
           /\ Rank(s) < Rank(After(s))
           /\ \A n \in contract \cup {"terminal"} : Rank(s) < Rank(n) => Rank(After(s)) <= Rank(n)
  <1> DEFINE order == <<"begin", "quarantine", "replace", "apply", "after", "terminal">>
             left == {i \in DOMAIN order :
                        /\ order[i] \in contract \cup {"begin", "terminal"}
                        /\ \A j \in DOMAIN order : order[j] = s => i > j}
             first == CHOOSE i \in left : \A j \in left : i <= j
  <1>1. DOMAIN order = 1 .. 6
    OBVIOUS
  <1>2. \A i \in 1 .. 6 : Rank(order[i]) = i
    BY RankIs
  <1>3. \A n \in contract \cup {"begin", "terminal"} : Rank(n) \in 1 .. 6 /\ order[Rank(n)] = n
    BY RankIs DEF Markers
  <1>4. \A n \in contract \cup {"terminal"} : Rank(n) \in 2 .. 6 /\ (Rank(s) < Rank(n) => Rank(n) \in left)
    <2> SUFFICES ASSUME NEW n \in contract \cup {"terminal"}
                 PROVE  Rank(n) \in 2 .. 6 /\ (Rank(s) < Rank(n) => Rank(n) \in left)
      OBVIOUS
    <2>1. Rank(n) \in 2 .. 6
      BY RankIs DEF Markers
    <2>2. \A j \in DOMAIN order : order[j] = s => j = Rank(s)
      BY <1>1, <1>2
    <2> QED
      BY <1>1, <1>3, <2>1, <2>2
  <1>5. 6 \in left
    BY <1>4, RankIs, RankOfMarkers
  <1>6. left \subseteq 1 .. 6
    BY <1>1
  <1> HIDE DEF left
  <1>7. \E i \in left : \A j \in left : i <= j
    <2>1. CASE 1 \in left
      BY <1>6, <2>1
    <2>2. CASE 1 \notin left /\ 2 \in left
      BY <1>6, <2>2
    <2>3. CASE 1 \notin left /\ 2 \notin left /\ 3 \in left
      BY <1>6, <2>3
    <2>4. CASE 1 \notin left /\ 2 \notin left /\ 3 \notin left /\ 4 \in left
      BY <1>6, <2>4
    <2>5. CASE 1 \notin left /\ 2 \notin left /\ 3 \notin left /\ 4 \notin left /\ 5 \in left
      BY <1>6, <2>5
    <2>6. CASE \A i \in 1 .. 5 : i \notin left
      BY <1>5, <1>6, <2>6
    <2> QED
      BY <2>1, <2>2, <2>3, <2>4, <2>5, <2>6
  <1>8. first \in left /\ \A j \in left : first <= j
    BY <1>7
  <1>9. left # {}
    BY <1>5
  <1>10. After(s) = order[first]
    BY <1>9 DEF After, left
  <1> HIDE DEF first
  <1>11. first \in 1 .. 6 /\ order[first] \in contract \cup {"begin", "terminal"} /\ first > Rank(s)
    <2>1. first \in 1 .. 6
      BY <1>6, <1>8
    <2>2. order[first] \in contract \cup {"begin", "terminal"}
      BY <1>8 DEF left
    <2>3. Rank(s) \in DOMAIN order /\ order[Rank(s)] = s
      BY <1>1, <1>3
    <2> QED
      BY <1>8, <2>1, <2>2, <2>3 DEF left
  <1>12. Rank(After(s)) = first
    BY <1>2, <1>10, <1>11
  <1>13. order[first] # "begin"
    <2>1. Rank(s) \in 1 .. 6
      BY <1>3
    <2> QED
      BY <1>2, <1>11, <2>1, RankIs
  <1> QED
    BY <1>4, <1>8, <1>10, <1>11, <1>12, <1>13

\* A line is added behind the others.
LEMMA AppendedLine ==
    ASSUME log \in Seq(Lines), NEW l \in Lines, log' = Append(log, l)
    PROVE  /\ log' \in Seq(Lines)
           /\ DOMAIN log' = DOMAIN log \cup {Len(log) + 1}
           /\ \A i \in DOMAIN log : i \in Nat /\ i < Len(log) + 1 /\ log'[i] = log[i]
           /\ log'[Len(log) + 1] = l
  <1>1. /\ log' \in Seq(Lines) /\ Len(log') = Len(log) + 1
        /\ \A i \in 1 .. Len(log) : log'[i] = log[i]
        /\ log'[Len(log) + 1] = l
    OBVIOUS
  <1>2. DOMAIN log = 1 .. Len(log) /\ DOMAIN log' = 1 .. Len(log') /\ Len(log) \in Nat
    BY <1>1
  <1> QED
    BY <1>1, <1>2

LEMMA ReportsGrow ==
    ASSUME log \in Seq(Lines), NEW l \in Lines, log' = Append(log, l), NEW what
    PROVE  /\ Reports(what) \subseteq Reports(what)'
           /\ \A i \in Reports(what)' : i \in Reports(what) \/ (i = Len(log) + 1 /\ l.what = what)
           /\ l.what = what => Len(log) + 1 \in Reports(what)' /\ Len(log) + 1 \notin Reports(what)
  BY AppendedLine DEF Reports

-----------------------------------------------------------------------------
(* A launcher goes through its contract.                                   *)

LEMMA CurrentIs ==
    ASSUME contract \subseteq Markers, Reporting, NEW h \in 1 .. 7, Stage(h)
    PROVE  Current \in contract /\ Rank(Current) = h
  <1> DEFINE mine == {m \in contract : \E d \in done[m] : d.by = runs}
  <1>1. mine = {m \in contract : Rank(m) <= h}
    <2>1. \A m \in contract : Rank(m) \in 2 .. 5
      BY RankOfMarkers
    <2>2. \A m \in contract : (\E d \in done[m] : d.by = runs) <=> Mine(m) # {}
      BY DEF Mine
    <2>3. \A m \in contract : Mine(m) # {} <=> Rank(m) < h \/ Rank(m) = h
      BY DEF Stage
    <2> QED
      BY <2>1, <2>2, <2>3
  <1> HIDE DEF mine
  <1>2. PICK last \in contract : Rank(last) = h
    BY DEF Stage
  <1>3. After(last) \notin mine
    <2>1. h < Rank(After(last)) /\ After(last) \in contract \cup {"terminal"}
      BY <1>2, AfterIsNext
    <2>2. Rank(After(last)) \in 2 .. 6
      BY <2>1, RankIs, RankOfMarkers
    <2> QED
      BY <1>1, <2>1, <2>2
  <1>4. ASSUME NEW m \in mine, After(m) \notin mine
        PROVE  m = last
    <2>1. m \in contract /\ Rank(m) \in 2 .. 5 /\ Rank(last) \in 2 .. 5 /\ Rank(m) <= h
      BY <1>1, <1>4, RankOfMarkers
    <2>2. CASE Rank(m) = h
      BY <1>2, <2>1, <2>2, RankOfMarkers
    <2>3. CASE Rank(m) < h
      <3>1. After(m) \in contract \cup {"terminal"} /\ Rank(After(m)) <= h
        BY <1>2, <2>1, <2>3, AfterIsNext
      <3>2. After(m) # "terminal"
        BY <1>2, <2>1, <3>1, RankIs
      <3> QED
        BY <1>1, <1>4, <3>1, <3>2
    <2> QED
      BY <2>1, <2>2, <2>3
  <1>5. last \in mine
    BY <1>1, <1>2
  <1>6. Current = CHOOSE m \in mine : After(m) \notin mine
    BY DEF Current, mine
  <1>7. Current \in mine /\ After(Current) \notin mine
    BY <1>3, <1>5, <1>6
  <1> QED
    BY <1>2, <1>4, <1>7

\* The place of the step after this one.
LEMMA NextPlace ==
    ASSUME contract \subseteq Markers, NEW s \in contract \cup {"begin"}
    PROVE  \E k \in 1 .. 7 :
            /\ k = Rank(After(s)) /\ Rank(s) < k /\ After(s) \in contract \cup {"terminal"}
            /\ \A n \in Steps : Rank(n) < k <=> Rank(n) <= Rank(s)
  <1>1. /\ After(s) \in contract \cup {"terminal"} /\ Rank(s) < Rank(After(s))
        /\ \A n \in contract \cup {"terminal"} : Rank(s) < Rank(n) => Rank(After(s)) <= Rank(n)
    BY AfterIsNext
  <1>2. \A n \in Steps : Rank(n) \in 1 .. 6 /\ (n = "begin" => Rank(n) = 1)
    BY RankIs DEF Steps, Markers
  <1>3. Rank(After(s)) \in 1 .. 6 /\ Rank(s) \in 1 .. 6
    BY <1>1, <1>2 DEF Steps
  <1>4. ASSUME NEW n \in Steps
        PROVE  Rank(n) < Rank(After(s)) <=> Rank(n) <= Rank(s)
    <2>1. CASE n = "begin"
      BY <1>1, <1>2, <1>3, <2>1
    <2>2. CASE n # "begin"
      BY <1>1, <1>2, <1>3, <2>2 DEF Steps
    <2> QED
      BY <2>1, <2>2
  <1> QED
    BY <1>1, <1>3, <1>4

LEMMA TypesInit == Init => TypeInv
  BY LegacyAssumption DEF Init, TypeInv, LauncherTypes, Times

LEMMA ContractsAreMarkers == TypeInv => contract \subseteq Markers
  BY LegacyAssumption DEF TypeInv

\* The lines a launcher writes.
LEMMA LinesTyped ==
    ASSUME TypeInv
    PROVE  /\ \A what \in Markers \cup {"begin", "terminal", "torn", "failure"}, exact \in BOOLEAN :
                Line(what, exact) \in Lines
           /\ \A what, exact : Line(what, exact).what = what /\ Line(what, exact).exact = exact
                               /\ Line(what, exact).at = now
  BY DEF TypeInv, Lines, Line

LEMMA ReportWrites ==
    ASSUME TypeInv, Staged, Report
    PROVE  \E h \in 1 .. 7, k \in 1 .. 7, m \in contract :
            /\ Stage(h) /\ (runs <= 1 => Neat(h)) /\ Rank(m) = h
            /\ m \in Markers /\ Line(m, pc = "report") \in Lines
            /\ log' = Append(log, Line(m, pc = "report")) /\ pc' = After(m)
            /\ k = Rank(pc') /\ h < k /\ pc' \in contract \cup {"terminal"}
            /\ \A n \in Steps : Rank(n) < k <=> Rank(n) <= h
  <1>1. pc # "dead" /\ Reporting /\ contract \subseteq Markers
    BY ContractsAreMarkers DEF Report, Reporting
  <1>2. PICK h \in 1 .. 7 : Stage(h) /\ (runs <= 1 => Neat(h))
    BY <1>1 DEF Staged
  <1>3. Current \in contract /\ Rank(Current) = h
    BY <1>1, <1>2, CurrentIs
  <1>4. PICK k \in 1 .. 7 :
            /\ k = Rank(After(Current)) /\ Rank(Current) < k /\ After(Current) \in contract \cup {"terminal"}
            /\ \A n \in Steps : Rank(n) < k <=> Rank(n) <= Rank(Current)
    BY <1>1, <1>3, NextPlace
  <1>5. Line(Current, pc = "report") \in Lines
    BY <1>1, <1>3, LinesTyped
  <1>6. log' = Append(log, Line(Current, pc = "report")) /\ pc' = After(Current)
    BY DEF Report
  <1> QED
    BY <1>1, <1>2, <1>3, <1>4, <1>5, <1>6

\* Observations in their places.
LEMMA ObservationsTyped ==
    ASSUME NEW p \in Posts, NEW o \in Observations
    PROVE  /\ [p EXCEPT !.obs = Append(@, o)] \in Posts
           /\ \A n \in DOMAIN p.obs : [p EXCEPT !.obs[n] = o] \in Posts
  <1>1. p.obs \in Seq(Observations)
    BY DEF Posts
  <1>2. Append(p.obs, o) \in Seq(Observations)
    BY <1>1
  <1>3. \A n \in DOMAIN p.obs : [p.obs EXCEPT ![n] = o] \in Seq(Observations)
    BY <1>1
  <1> QED
    BY <1>1, <1>2, <1>3 DEF Posts

\* What the steps of the collector that write the poststate write.
LEMMA PoststateWritten ==
    ASSUME TypeInv
    PROVE  /\ Collect => post' \in Posts
           /\ BeginObservation => post' \in Posts
           /\ \A kinds \in SUBSET Evidence : See(kinds) => post' \in Posts
           /\ EndObservation => post' \in Posts
           /\ CompletePoststate => post' \in Posts
  <1>1. ASSUME Open
        PROVE  /\ post \in Posts /\ post.obs \in Seq(Observations)
               /\ Len(post.obs) \in DOMAIN post.obs /\ post.obs[Len(post.obs)] \in Observations
    <2>1. post \in Posts /\ post.obs # <<>>
      BY <1>1 DEF Open, Observing, TypeInv
    <2>2. post.obs \in Seq(Observations)
      BY <2>1 DEF Posts
    <2> QED
      BY <2>1, <2>2
  <1>2. Collect => post' \in Posts
    BY DEF Collect, TypeInv, LauncherTypes, Posts
  <1>3. BeginObservation => post' \in Posts
    <2> SUFFICES ASSUME BeginObservation PROVE post' \in Posts
      OBVIOUS
    <2>1. post \in Posts
      BY DEF BeginObservation, Observing, TypeInv
    <2>2. [begin |-> now, end |-> None, seen |-> [k \in Evidence |-> None]] \in Observations
      BY DEF Observations, TypeInv
    <2> QED
      BY <2>1, <2>2, ObservationsTyped DEF BeginObservation
  <1>4. ASSUME NEW kinds \in SUBSET Evidence, See(kinds)
        PROVE  post' \in Posts
    <2> DEFINE i == Len(post.obs)
               With(time) == [post.obs[i] EXCEPT !.seen =
                                [k \in Evidence |-> IF k \in kinds THEN time ELSE post.obs[i].seen[k]]]
    <2>1. /\ post \in Posts /\ post.obs \in Seq(Observations)
          /\ i \in DOMAIN post.obs /\ post.obs[i] \in Observations
      BY <1>1, <1>4 DEF See
    <2>2. \A time \in Times : With(time) \in Observations
      BY <2>1 DEF Observations
    <2>3. PICK time \in Times : post' = [post EXCEPT !.obs[i] = With(time)]
      BY <1>4 DEF See, TypeInv
    <2> QED
      BY <2>1, <2>2, <2>3, ObservationsTyped
  <1>5. EndObservation => post' \in Posts
    <2> SUFFICES ASSUME EndObservation PROVE post' \in Posts
      OBVIOUS
    <2> DEFINE i == Len(post.obs)
    <2>1. /\ post \in Posts /\ post.obs \in Seq(Observations)
          /\ i \in DOMAIN post.obs /\ post.obs[i] \in Observations
      BY <1>1 DEF EndObservation
    <2>2. [post.obs[i] EXCEPT !.end = now] \in Observations
      BY <2>1 DEF Observations, TypeInv
    <2>3. post' = [post EXCEPT !.obs[i] = [post.obs[i] EXCEPT !.end = now]]
      BY DEF EndObservation
    <2> QED
      BY <2>1, <2>2, <2>3, ObservationsTyped
  <1>6. CompletePoststate => post' \in Posts
    BY DEF CompletePoststate, Observing, TypeInv, Posts
  <1> QED
    BY <1>2, <1>3, <1>4, <1>5, <1>6

LEMMA LauncherTyped ==
    ASSUME TypeInv, Staged, Launcher
    PROVE  LauncherTypes'
  <1> USE DEF TypeInv, LauncherTypes
  <1>1. contract' = contract /\ contract \subseteq Markers
    BY ContractsAreMarkers DEF Launcher
  <1>2. CASE Start
    BY <1>1, <1>2 DEF Start
  <1>3. CASE Begin
    <2>1. After("begin") \in contract \cup {"terminal"} /\ Line("begin", TRUE) \in Lines
      BY <1>1, AfterIsNext, LinesTyped
    <2>2. log' \in Seq(Lines)
      BY <1>3, <2>1, AppendedLine DEF Begin
    <2> QED
      BY <1>1, <1>3, <2>1, <2>2 DEF Begin
  <1>4. ASSUME NEW m \in Markers, Work(m)
        PROVE  LauncherTypes'
    <2>1. PICK all \in BOOLEAN :
            /\ done' = [done EXCEPT ![m] = @ \cup {[at |-> now, by |-> runs, all |-> all]}]
            /\ pc' = IF all THEN "report" ELSE "reportPart"
      BY <1>4 DEF Work
    <2>2. [at |-> now, by |-> runs, all |-> all] \in Works
      BY DEF Works
    <2>3. done' \in [Markers -> SUBSET Works]
      BY <2>1, <2>2
    <2> QED
      BY <1>1, <1>4, <2>1, <2>3 DEF Work
  <1>5. CASE Report
    <2>1. PICK m \in contract : /\ Line(m, pc = "report") \in Lines
                                /\ log' = Append(log, Line(m, pc = "report"))
                                /\ pc' \in contract \cup {"terminal"}
      BY <1>5, ReportWrites
    <2>2. log' \in Seq(Lines)
      BY <2>1, AppendedLine
    <2> QED
      BY <1>1, <1>5, <2>1, <2>2 DEF Report
  <1>6. CASE Complete
    <2>1. Line("terminal", TRUE) \in Lines
      BY LinesTyped
    <2>2. log' \in Seq(Lines)
      BY <1>6, <2>1, AppendedLine DEF Complete
    <2> QED
      BY <1>1, <1>6, <2>2 DEF Complete
  <1>7. CASE Die
    <2>1. \A what \in {"torn", "failure"} : Line(what, FALSE) \in Lines
      BY LinesTyped
    <2>2. log' \in Seq(Lines)
      BY <1>7, <2>1, AppendedLine DEF Die
    <2> QED
      BY <1>1, <1>7, <2>2 DEF Die
  <1> QED
    BY <1>2, <1>3, <1>4, <1>5, <1>6, <1>7 DEF Launcher

\* What is not written keeps its type.
LEMMA LauncherTypesKept ==
    ASSUME LauncherTypes, UNCHANGED <<contract, launcher>>
    PROVE  LauncherTypes'
  <1>1. runs' = runs /\ pc' = pc /\ done' = done /\ log' = log /\ contract' = contract
    BY DEF launcher
  <1>2. runs' \in Nat /\ log' \in Seq(Lines)
    BY <1>1 DEF LauncherTypes
  <1>3. pc' \in {"none", "begin", "report", "reportPart", "terminal", "ended", "dead"} \cup contract'
    BY <1>1 DEF LauncherTypes
  <1>4. done' \in [Markers -> SUBSET Works]
    <2>1. done \in [Markers -> SUBSET Works]
      BY DEF LauncherTypes
    <2> QED
      BY <1>1, <2>1
  <1> QED
    BY <1>2, <1>3, <1>4 DEF LauncherTypes

\* The evidence that is asked for depends on the contract, which does not change.
LEMMA SameEvidence ==
    ASSUME UNCHANGED contract
    PROVE  Evidence' = Evidence /\ Posts' = Posts /\ Attestations' = Attestations
  <1>1. Evidence' = Evidence
    BY DEF Evidence
  <1>2. Observations' = Observations
    BY <1>1 DEF Observations
  <1>3. Posts' = Posts
    BY <1>2 DEF Posts
  <1> QED
    BY <1>1, <1>3 DEF Attestations

PaperTypes ==
    /\ preserved \in Seq(Lines) /\ probe \in Times \cup {None}
    /\ post \in Posts \cup {None} /\ attestation \in Attestations \cup {None}

LEMMA PaperTypesKept ==
    ASSUME PaperTypes, UNCHANGED <<contract, preserved, collector, attestation>>
    PROVE  PaperTypes'
  <1>1. preserved' = preserved /\ probe' = probe /\ post' = post /\ attestation' = attestation
    BY DEF collector
  <1>2. preserved' \in Seq(Lines) /\ probe' \in Times \cup {None}
    BY <1>1 DEF PaperTypes
  <1>3. post' \in Posts \cup {None}
    <2>1. post \in Posts \cup {None}
      BY DEF PaperTypes
    <2> QED
      BY <1>1, <2>1
  <1>4. attestation' \in Attestations \cup {None}
    <2>1. attestation \in Attestations \cup {None}
      BY DEF PaperTypes
    <2> QED
      BY <1>1, <2>1
  <1> QED
    BY <1>2, <1>3, <1>4, SameEvidence DEF PaperTypes

LEMMA PaperworkTyped ==
    ASSUME TypeInv, Paperwork
    PROVE  PaperTypes'
  <1>1. preserved' \in Seq(Lines) /\ probe' \in Times \cup {None}
    BY DEF Paperwork, Preserve, Collect, BeginObservation, See, Probe, EndObservation,
           CompletePoststate, Attest, collector, TypeInv, LauncherTypes
  <1>2. post' \in Posts \cup {None}
    <2>1. Evidence \ {"denial"} \in SUBSET Evidence /\ {"denial"} \in SUBSET Evidence
      BY DEF Evidence
    <2>2. Preserve \/ Probe \/ Attest => post' = post
      BY DEF Preserve, Probe, Attest, collector
    <2>3. CASE Preserve \/ Probe \/ Attest
      BY <2>2, <2>3 DEF TypeInv
    <2>4. CASE \/ Collect \/ BeginObservation \/ EndObservation \/ CompletePoststate
               \/ See(Evidence \ {"denial"}) \/ See({"denial"})
      BY <2>1, <2>4, PoststateWritten
    <2> QED
      BY <2>3, <2>4 DEF Paperwork
  <1>3. attestation' \in Attestations \cup {None}
    <2>1. Attest => attestation' \in Attestations
      BY DEF Attest, Attestations, TypeInv, LauncherTypes
    <2>2. ~Attest => attestation' = attestation
      BY DEF Paperwork, Preserve, Collect, BeginObservation, See, Probe, EndObservation, CompletePoststate
    <2>3. attestation \in Attestations \cup {None}
      BY DEF TypeInv
    <2> QED
      BY <2>1, <2>2, <2>3
  <1>4. contract' = contract
    BY DEF Paperwork
  <1> QED
    BY <1>1, <1>2, <1>3, <1>4, SameEvidence DEF PaperTypes

LEMMA TypesStep ==
    ASSUME TypeInv, Staged, [Next]_vars
    PROVE  TypeInv'
  <1>1. now \in Times /\ contract \in Contracts /\ LauncherTypes /\ PaperTypes
    BY DEF TypeInv, PaperTypes
  <1>2. now' \in Times /\ contract' \in Contracts
    BY <1>1, LegacyAssumption DEF Next, Launcher, Paperwork, Surroundings, Tick, Times, vars
  <1>3. LauncherTypes'
    BY <1>1, LauncherTyped, LauncherTypesKept DEF Next, Paperwork, Surroundings, vars
  <1>4. PaperTypes'
    BY <1>1, PaperworkTyped, PaperTypesKept DEF Next, Launcher, Surroundings, vars
  <1> QED
    BY <1>2, <1>3, <1>4 DEF TypeInv, PaperTypes

LEMMA ToldGrows ==
    ASSUME log \in Seq(Lines), NEW l \in Lines, log' = Append(log, l), NEW m, NEW d
    PROVE  /\ Told(m, d) => Told(m, d)'
           /\ l.what = m /\ l.exact = d.all /\ d.at <= l.at => Told(m, d)'
  <1>1. CASE Told(m, d)
    <2>1. PICK i \in Reports(m) : log[i].exact = d.all /\ d.at <= log[i].at
      BY <1>1 DEF Told
    <2>2. i \in Reports(m)' /\ log'[i] = log[i]
      BY ReportsGrow, AppendedLine DEF Reports
    <2> QED
      BY <2>1, <2>2 DEF Told
  <1>2. CASE l.what = m /\ l.exact = d.all /\ d.at <= l.at
    <2>1. Len(log) + 1 \in Reports(m)' /\ log'[Len(log) + 1] = l
      BY <1>2, ReportsGrow, AppendedLine
    <2> QED
      BY <1>2, <2>1 DEF Told
  <1> QED
    BY <1>1, <1>2

\* Reporting a step brings the launcher to the next one.
LEMMA StageMoves ==
    ASSUME log \in Seq(Lines), contract \subseteq Markers, UNCHANGED <<contract, runs, done>>,
           NEW l \in Lines, log' = Append(log, l), NEW h \in 1 .. 7, NEW k \in 1 .. 7, Stage(h),
           \A n \in Steps : Rank(n) < k <=> Rank(n) <= h,
           pc' \notin {"none", "begin", "report", "reportPart"},
           pc' \in contract \cup {"terminal"} => k = Rank(pc'), pc' = "ended" => k = 7,
           \A m \in contract : Rank(m) = h =>
                Reporting /\ l.what = m /\ \A d \in Mine(m) : l.exact = d.all /\ d.at <= l.at
    PROVE  Stage(k)'
  <1>1. ~Reporting'
    BY DEF Reporting
  <1>2. \A m \in contract : Mine(m)' = Mine(m) /\ m \in Steps /\ Rank(m) \in 2 .. 5
    BY RankOfMarkers DEF Mine, Steps
  <1>3. ASSUME NEW m \in contract
        PROVE  /\ Mine(m)' # {} <=> Rank(m) < k
               /\ Rank(m) < k => \A d \in Mine(m)' : Told(m, d)'
               /\ Mine(m)' # {} => Rank(m) < k
    <2>1. Mine(m) # {} <=> Rank(m) < h \/ (Reporting /\ Rank(m) = h)
      BY DEF Stage
    <2>2. Mine(m)' # {} <=> Rank(m) < k
      BY <1>2, <2>1
    <2>3. ASSUME Rank(m) < k, NEW d \in Mine(m)
          PROVE  Told(m, d)'
      <3>1. CASE Rank(m) < h
        BY <3>1, ToldGrows DEF Stage
      <3>2. CASE Rank(m) = h
        BY <3>2, ToldGrows
      <3> QED
        BY <1>2, <2>3, <3>1, <3>2
    <2> QED
      BY <1>2, <2>2, <2>3
  <1>4. contract' = contract
    OBVIOUS
  <1> QED
    BY <1>1, <1>3, <1>4 DEF Stage

LEMMA NeatGrows ==
    ASSUME log \in Seq(Lines), contract \subseteq Markers, UNCHANGED contract,
           NEW l \in Lines, log' = Append(log, l), NEW h \in 1 .. 7, NEW k \in 1 .. 7, Neat(h),
           l.what \in Steps, Rank(l.what) = h, h < k,
           \A n \in Steps : Rank(n) < k <=> Rank(n) <= h
    PROVE  Neat(k)'
  <1>1. Steps' = Steps /\ \A n \in Steps : Rank(n) \in 1 .. 6
    BY RankOfSteps DEF Steps
  <1>2. /\ DOMAIN log' = DOMAIN log \cup {Len(log) + 1} /\ log'[Len(log) + 1] = l
        /\ \A i \in DOMAIN log : i \in Nat /\ i < Len(log) + 1 /\ log'[i] = log[i]
        /\ Len(log) \in Nat
    BY AppendedLine
  <1>3. \A i \in DOMAIN log : log[i].what \in Steps /\ Rank(log[i].what) < h
    BY DEF Neat
  <1>4. ASSUME NEW i \in DOMAIN log', NEW j \in DOMAIN log', i < j
        PROVE  Rank(log'[i].what) < Rank(log'[j].what)
    <2>1. i \in DOMAIN log
      BY <1>2, <1>4
    <2>2. CASE j \in DOMAIN log
      BY <1>2, <1>4, <2>1, <2>2 DEF Neat
    <2>3. CASE j = Len(log) + 1
      BY <1>2, <1>3, <2>1, <2>3
    <2> QED
      BY <1>2, <2>2, <2>3
  <1>5. ASSUME NEW i \in DOMAIN log'
        PROVE  log'[i].what \in Steps' /\ Rank(log'[i].what) < k
    BY <1>1, <1>2, <1>3
  <1>6. ASSUME NEW s \in Steps', Rank(s) < k
        PROVE  Reports(s)' # {}
    <2>1. s \in Steps /\ Rank(s) \in 1 .. 6
      BY <1>1
    <2>2. CASE Rank(s) < h
      BY <2>1, <2>2, ReportsGrow DEF Neat
    <2>3. CASE Rank(s) = h
      <3>1. s = l.what
        BY <2>1, <2>3, RankOfSteps
      <3> QED
        BY <3>1, ReportsGrow
    <2> QED
      BY <1>6, <2>1, <2>2, <2>3
  <1> QED
    BY <1>4, <1>5, <1>6 DEF Neat

LEMMA StagedInit == Init => Staged
  <1> SUFFICES ASSUME Init PROVE Stage(1) /\ Neat(1)
    BY DEF Staged
  <1>1. contract \subseteq Markers /\ pc = "none" /\ log = <<>> /\ \A m \in Markers : done[m] = {}
    BY LegacyAssumption DEF Init
  <1>2. \A m \in contract : Mine(m) = {} /\ Rank(m) \in 2 .. 5
    BY <1>1, RankOfMarkers DEF Mine
  <1>3. \A s \in Steps : Rank(s) \in 1 .. 6
    BY <1>1, RankOfSteps
  <1>4. Stage(1)
    BY <1>1, <1>2, RankIs DEF Stage, Reporting, Markers
  <1>5. Neat(1)
    BY <1>1, <1>3 DEF Neat
  <1> QED
    BY <1>4, <1>5

LEMMA StagedStep ==
    ASSUME TypeInv, Launched, Launcher
    PROVE  Staged'
  <1>1. /\ contract' = contract /\ contract \subseteq Markers /\ LauncherTypes
        /\ now \in Times /\ log \in Seq(Lines)
    BY ContractsAreMarkers DEF Launcher, TypeInv, LauncherTypes
  <1>2. /\ \A m \in contract : Rank(m) \in 2 .. 5
        /\ \A m, n \in contract : Rank(m) = Rank(n) => m = n
    BY <1>1, RankOfMarkers
  <1>3. CASE Start
    <2>1. /\ pc' = "begin" /\ runs' = runs + 1 /\ done' = done /\ log' = log
          /\ pc \in {"none", "dead"} /\ runs \in Nat
      BY <1>1, <1>3 DEF Start, LauncherTypes
    <2>2. \A m \in contract : Mine(m)' = {}
      <3>1. \A m \in contract : \A d \in done[m] : d.by \in 1 .. runs
        BY <1>1 DEF Launched, WorkInOrder
      <3> QED
        BY <2>1, <3>1 DEF Mine
    <2>3. Stage(1)'
      BY <1>1, <1>2, <2>1, <2>2 DEF Stage, Reporting, Markers
    <2>4. ASSUME runs' <= 1 PROVE Neat(1)'
      <3>1. pc = "none"
        BY <2>1, <2>4 DEF Launched, Announced
      <3>2. log' = <<>>
        BY <2>1, <3>1 DEF Launched, Announced
      <3>3. \A s \in Steps' : Rank(s) \in 1 .. 6
        BY <1>1, RankOfSteps DEF Steps
      <3> QED
        BY <3>2, <3>3 DEF Neat
    <2> QED
      BY <2>3, <2>4 DEF Staged
  <1>4. CASE Begin
    <2>1. /\ pc = "begin" /\ log' = Append(log, Line("begin", TRUE)) /\ pc' = After("begin")
          /\ runs' = runs /\ done' = done
      BY <1>4 DEF Begin
    <2>2. PICK h \in 1 .. 7 : Stage(h) /\ (runs <= 1 => Neat(h))
      BY <2>1 DEF Launched, Staged
    <2>3. h = 1
      BY <2>1, <2>2 DEF Stage
    <2>4. PICK k \in 1 .. 7 :
            /\ k = Rank(pc') /\ 1 < k /\ pc' \in contract \cup {"terminal"}
            /\ \A n \in Steps : Rank(n) < k <=> Rank(n) <= 1
      BY <1>1, <2>1, NextPlace, RankIs
    <2> DEFINE l == Line("begin", TRUE)
    <2>5. l \in Lines /\ l.what = "begin"
      BY LinesTyped
    <2>6. pc' \notin {"none", "begin", "report", "reportPart", "ended"}
      BY <1>1, <2>4 DEF Markers
    <2>7. log' = Append(log, l)
      BY <2>1
    <2> HIDE DEF l
    <2>8. l.what \in Steps /\ Rank(l.what) = 1 /\ 1 \in 1 .. 7 /\ k \in 1 .. 7 /\ 1 < k
      BY <2>4, <2>5, RankIs DEF Steps
    <2>9. \A m \in contract : Rank(m) # 1
      BY <1>2
    <2>10. UNCHANGED <<contract, runs, done>>
      BY <1>1, <2>1
    <2>11. Stage(1)
      BY <2>2, <2>3
    <2>12. Stage(k)'
      BY <1>1, <2>4, <2>5, <2>6, <2>7, <2>8, <2>9, <2>10, <2>11, StageMoves
    <2>13. runs <= 1 => Neat(k)'
      BY <1>1, <2>2, <2>3, <2>4, <2>5, <2>7, <2>8, NeatGrows
    <2> QED
      BY <2>1, <2>12, <2>13 DEF Staged
  <1>5. ASSUME NEW m \in Markers, Work(m)
        PROVE  Staged'
    <2>1. PICK all \in BOOLEAN :
            /\ pc = m /\ m \in contract /\ runs' = runs /\ log' = log
            /\ done' = [done EXCEPT ![m] = @ \cup {[at |-> now, by |-> runs, all |-> all]}]
            /\ pc' = IF all THEN "report" ELSE "reportPart"
      BY <1>5 DEF Work
    <2>2. pc # "dead"
      BY <1>1, <2>1 DEF Markers
    <2>3. PICK h \in 1 .. 7 : Stage(h) /\ (runs <= 1 => Neat(h))
      BY <2>2 DEF Launched, Staged
    <2>4. h = Rank(m) /\ ~Reporting
      BY <1>1, <2>1, <2>3 DEF Stage, Reporting, Markers
    <2>5. \A n \in contract \ {m} : done'[n] = done[n]
      BY <1>1, <2>1 DEF LauncherTypes
    <2>6. Mine(m)' = {[at |-> now, by |-> runs, all |-> all]}
      <3>1. Mine(m) = {}
        BY <1>2, <2>1, <2>3, <2>4 DEF Stage
      <3>2. done'[m] = done[m] \cup {[at |-> now, by |-> runs, all |-> all]}
        BY <1>1, <2>1 DEF LauncherTypes
      <3> QED
        BY <2>1, <3>1, <3>2 DEF Mine
    <2>7. pc' \in {"report", "reportPart"} /\ pc' \notin contract /\ all = (pc' = "report")
      BY <1>1, <2>1 DEF Markers
    <2>8. \A n \in contract : Mine(n)' # {} <=> Rank(n) < h \/ Rank(n) = h
      <3>1. \A n \in contract \ {m} : Mine(n)' = Mine(n)
        BY <2>1, <2>5 DEF Mine
      <3> QED
        BY <1>2, <2>1, <2>3, <2>4, <2>6, <3>1 DEF Stage
    <2>9. \A n \in contract : \A d \in Mine(n)' :
            IF Rank(n) < h THEN Told(n, d)' ELSE d.all = (pc' = "report")
      <3> SUFFICES ASSUME NEW n \in contract, NEW d \in Mine(n)'
                   PROVE  IF Rank(n) < h THEN Told(n, d)' ELSE d.all = (pc' = "report")
        OBVIOUS
      <3>1. CASE n = m
        BY <1>2, <2>4, <2>6, <2>7, <3>1
      <3>2. CASE n # m
        <4>1. d \in Mine(n)
          BY <2>1, <2>5, <3>2 DEF Mine
        <4>2. Rank(n) < h
          BY <1>2, <2>1, <2>3, <2>4, <3>2, <4>1 DEF Stage
        <4>3. Told(n, d)
          BY <2>3, <4>1, <4>2 DEF Stage
        <4> QED
          BY <2>1, <4>2, <4>3 DEF Told, Reports
      <3> QED
        BY <3>1, <3>2
    <2>10. Stage(h)'
      BY <1>1, <2>1, <2>4, <2>7, <2>8, <2>9 DEF Stage, Reporting
    <2>11. runs' <= 1 => Neat(h)'
      BY <1>1, <2>1, <2>3 DEF Neat, Reports, Steps
    <2> QED
      BY <2>10, <2>11 DEF Staged
  <1>6. CASE Report
    <2>1. PICK h \in 1 .. 7, k \in 1 .. 7, m \in contract :
            /\ Stage(h) /\ (runs <= 1 => Neat(h)) /\ Rank(m) = h
            /\ m \in Markers /\ Line(m, pc = "report") \in Lines
            /\ log' = Append(log, Line(m, pc = "report")) /\ pc' = After(m)
            /\ k = Rank(pc') /\ h < k /\ pc' \in contract \cup {"terminal"}
            /\ \A n \in Steps : Rank(n) < k <=> Rank(n) <= h
      BY <1>6, ReportWrites DEF Launched
    <2>2. Reporting /\ runs' = runs /\ done' = done
      BY <1>6 DEF Report, Reporting
    <2>3. m \in Steps
      BY DEF Steps
    <2>4. \A e : Line(m, e).what = m /\ Line(m, e).exact = e /\ Line(m, e).at = now
      BY DEF Line
    <2>5. pc' \notin {"none", "begin", "report", "reportPart", "ended"}
      BY <1>1, <2>1 DEF Markers
    <2>6. \A n \in contract : Rank(n) = h =>
            n = m /\ \A d \in Mine(n) : (pc = "report") = d.all /\ d.at <= now
      <3> SUFFICES ASSUME NEW n \in contract, Rank(n) = h
                   PROVE  n = m /\ \A d \in Mine(n) : (pc = "report") = d.all /\ d.at <= now
        OBVIOUS
      <3>1. n = m
        BY <1>2, <2>1
      <3>2. \A d \in Mine(n) : d.all = (pc = "report")
        BY <1>2, <2>1 DEF Stage
      <3>3. \A d \in Mine(n) : d.at <= now
        BY <1>1 DEF Launched, WorkInOrder, Mine
      <3> QED
        BY <3>1, <3>2, <3>3
    <2>7. Stage(k)'
      <3> DEFINE l == Line(m, pc = "report")
      <3>1. l \in Lines /\ log' = Append(log, l)
        BY <2>1
      <3>2. \A n \in contract : Rank(n) = h =>
              Reporting /\ l.what = n /\ \A d \in Mine(n) : l.exact = d.all /\ d.at <= l.at
        BY <2>2, <2>4, <2>6
      <3> HIDE DEF l
      <3> QED
        BY <1>1, <2>1, <2>2, <2>5, <3>1, <3>2, StageMoves
    <2>8. runs <= 1 => Neat(k)'
      BY <1>1, <2>1, <2>3, <2>4, NeatGrows
    <2> QED
      BY <2>2, <2>7, <2>8 DEF Staged
  <1>7. CASE Complete
    <2>1. /\ pc = "terminal" /\ pc' = "ended" /\ log' = Append(log, Line("terminal", TRUE))
          /\ runs' = runs /\ done' = done
      BY <1>7 DEF Complete
    <2>2. PICK h \in 1 .. 7 : Stage(h) /\ (runs <= 1 => Neat(h))
      BY <2>1 DEF Launched, Staged
    <2>3. h = 6
      BY <2>1, <2>2, RankIs DEF Stage
    <2>4. \A n \in Steps : Rank(n) < 7 <=> Rank(n) <= 6
      BY <1>1, RankOfSteps
    <2> DEFINE l == Line("terminal", TRUE)
    <2>5. l \in Lines /\ l.what = "terminal"
      BY LinesTyped
    <2>6. pc' = "ended" /\ pc' \notin contract \cup {"terminal"}
      BY <1>1, <2>1 DEF Markers
    <2>7. log' = Append(log, l)
      BY <2>1
    <2> HIDE DEF l
    <2>8. l.what \in Steps /\ Rank(l.what) = 6 /\ 6 \in 1 .. 7 /\ 7 \in 1 .. 7 /\ 6 < 7
      BY <2>4, <2>5, RankIs DEF Steps
    <2>9. \A m \in contract : Rank(m) # 6
      BY <1>2
    <2>10. UNCHANGED <<contract, runs, done>>
      BY <1>1, <2>1
    <2>11. Stage(6)
      BY <2>2, <2>3
    <2>12. Stage(7)'
      BY <1>1, <2>4, <2>5, <2>6, <2>7, <2>8, <2>9, <2>10, <2>11, StageMoves
    <2>13. runs <= 1 => Neat(7)'
      BY <1>1, <2>2, <2>3, <2>4, <2>5, <2>7, <2>8, NeatGrows
    <2> QED
      BY <2>1, <2>12, <2>13 DEF Staged
  <1>8. CASE Die
    BY <1>8 DEF Die, Staged
  <1> QED
    BY <1>3, <1>4, <1>5, <1>6, <1>7, <1>8 DEF Launcher

LEMMA WorkStep ==
    ASSUME TypeInv, Launched, Launcher
    PROVE  WorkInOrder'
  <1>1. now' = now /\ contract' = contract /\ LauncherTypes /\ contract \subseteq Markers /\ now \in Nat
    BY ContractsAreMarkers, LegacyAssumption DEF Launcher, TypeInv, Times
  <1>2. /\ \A m \in Markers : \A d \in done[m] : m \in contract /\ d.by \in 1 .. runs /\ d.at <= now
        /\ \A m, n \in Markers : \A d \in done[m], e \in done[n] :
            d.by = e.by => /\ m = n => d = e
                           /\ Rank(m) < Rank(n) => d.at <= e.at
    BY DEF Launched, WorkInOrder
  <1>3. runs \in Nat
    BY <1>1 DEF LauncherTypes
  <1>4. CASE done' = done /\ (runs' = runs \/ runs' = runs + 1)
    BY <1>1, <1>2, <1>3, <1>4 DEF WorkInOrder
  <1>5. ASSUME NEW m \in Markers, Work(m)
        PROVE  WorkInOrder'
    <2>1. PICK all \in BOOLEAN :
            /\ pc = m /\ m \in contract /\ runs' = runs
            /\ done' = [done EXCEPT ![m] = @ \cup {[at |-> now, by |-> runs, all |-> all]}]
      BY <1>5 DEF Work
    <2> DEFINE w == [at |-> now, by |-> runs, all |-> all]
    <2>2. w.at = now /\ w.by = runs
      OBVIOUS
    <2>3. done'[m] = done[m] \cup {w} /\ \A n \in Markers \ {m} : done'[n] = done[n]
      BY <1>1, <2>1 DEF LauncherTypes
    <2> HIDE DEF w
    <2>4. runs >= 1
      <3>1. pc # "none"
        BY <1>1, <2>1 DEF Markers
      <3> QED
        BY <3>1 DEF Launched, Announced
    <2>5. PICK h \in 1 .. 7 : Stage(h)
      <3>1. pc # "dead"
        BY <1>1, <2>1 DEF Markers
      <3> QED
        BY <3>1 DEF Launched, Staged
    <2>6. h = Rank(m) /\ ~Reporting
      BY <1>1, <2>1, <2>5 DEF Stage, Reporting, Markers
    \* Nothing of this launcher is of this step or a later one.
    <2>7. ASSUME NEW n \in Markers, NEW d \in done[n], d.by = runs
          PROVE  Rank(n) < Rank(m) /\ n # m
      <3>1. n \in contract /\ d \in Mine(n)
        BY <1>2, <2>7 DEF Mine
      <3> QED
        BY <2>5, <2>6, <3>1, RankOfMarkers DEF Stage
    <2>8. ASSUME NEW n \in Markers, NEW d \in done'[n]
          PROVE  n \in contract /\ d.by \in 1 .. runs /\ d.at <= now
      BY <1>1, <1>2, <1>3, <2>1, <2>2, <2>3, <2>4
    <2>9. ASSUME NEW n \in Markers, NEW o \in Markers, NEW d \in done'[n], NEW e \in done'[o],
                 d.by = e.by
          PROVE  (n = o => d = e) /\ (Rank(n) < Rank(o) => d.at <= e.at)
      <3>1. CASE d \in done[n] /\ e \in done[o]
        BY <1>2, <2>9, <3>1
      <3>2. CASE d = w /\ n = m /\ e \in done[o]
        <4>1. Rank(o) < Rank(m) /\ o # m
          BY <2>2, <2>7, <2>9, <3>2
        <4> QED
          BY <3>2, <4>1, RankOfMarkers
      <3>3. CASE e = w /\ o = m /\ d \in done[n]
        <4>1. Rank(n) < Rank(m) /\ n # m
          BY <2>2, <2>7, <2>9, <3>3
        <4> QED
          BY <1>2, <2>2, <3>3, <4>1
      <3>4. CASE d = w /\ n = m /\ e = w /\ o = m
        BY <3>4, <2>2, <1>1
      <3> QED
        BY <2>3, <3>1, <3>2, <3>3, <3>4
    <2> QED
      BY <1>1, <2>1, <2>8, <2>9 DEF WorkInOrder
  <1> QED
    BY <1>4, <1>5 DEF Launcher, Start, Begin, Report, Complete, Die

LEMMA LogStep ==
    ASSUME TypeInv, Launched, Launcher
    PROVE  LogInOrder'
  <1>1. now' = now /\ now \in Nat /\ log \in Seq(Lines) /\ LogInOrder
    BY LegacyAssumption DEF Launcher, TypeInv, LauncherTypes, Times, Launched
  <1>2. CASE log' = log
    BY <1>1, <1>2 DEF LogInOrder
  <1>3. ASSUME NEW l \in Lines, log' = Append(log, l), l.at = now
        PROVE  LogInOrder'
    <2>1. /\ DOMAIN log' = DOMAIN log \cup {Len(log) + 1} /\ log'[Len(log) + 1] = l
          /\ \A i \in DOMAIN log : i \in Nat /\ i < Len(log) + 1 /\ log'[i] = log[i]
          /\ Len(log) \in Nat
      BY <1>1, <1>3, AppendedLine
    <2>2. \A i \in DOMAIN log' : log'[i].at <= now
      BY <1>1, <1>3, <2>1 DEF LogInOrder
    <2>3. ASSUME NEW i \in DOMAIN log', NEW j \in DOMAIN log', i < j
          PROVE  log'[i].at <= log'[j].at
      <3>1. i \in DOMAIN log
        BY <2>1, <2>3
      <3>2. CASE j \in DOMAIN log
        BY <1>1, <2>1, <2>3, <3>1, <3>2 DEF LogInOrder
      <3>3. CASE j = Len(log) + 1
        BY <1>3, <2>1, <2>2, <3>3
      <3> QED
        BY <2>1, <3>2, <3>3
    <2> QED
      BY <1>1, <2>2, <2>3 DEF LogInOrder
  <1>4. \A what \in Markers \cup {"begin", "terminal", "torn", "failure"}, exact \in BOOLEAN :
            Line(what, exact) \in Lines /\ Line(what, exact).at = now
    BY LinesTyped
  <1>5. CASE Report
    <2>1. PICK m \in Markers : log' = Append(log, Line(m, pc = "report"))
      BY <1>5, ReportWrites DEF Launched
    <2>2. Line(m, pc = "report") \in Lines /\ Line(m, pc = "report").at = now
      BY <1>4
    <2> QED
      BY <1>3, <2>1, <2>2
  <1>6. CASE Begin
    BY <1>3, <1>4, <1>6 DEF Begin
  <1>7. CASE Complete
    BY <1>3, <1>4, <1>7 DEF Complete
  <1>8. CASE Die
    BY <1>2, <1>3, <1>4, <1>8 DEF Die
  <1>9. CASE Start \/ \E m \in Markers : Work(m)
    BY <1>2, <1>9 DEF Start, Work
  <1> QED
    BY <1>5, <1>6, <1>7, <1>8, <1>9 DEF Launcher

\* There are two such lines.
Twice(what) == \E i, j \in Reports(what) : i # j

LEMMA AnnouncedStep ==
    ASSUME TypeInv, Launched, Launcher
    PROVE  Announced'
  <1>1. /\ contract' = contract /\ contract \subseteq Markers /\ LauncherTypes
        /\ log \in Seq(Lines) /\ runs \in Nat
    BY ContractsAreMarkers DEF Launcher, TypeInv, LauncherTypes
  <1>2. /\ Begun \/ (\E m \in Markers : done[m] # {}) => Reports("begin") # {}
        /\ Begun /\ Others => Twice("begin")
        /\ Reports("terminal") # {} => pc = "ended"
        /\ pc = "none" => runs = 0 /\ log = <<>>
        /\ pc # "none" => runs >= 1
    BY DEF Launched, Announced, Twice
  <1>3. SUFFICES /\ Begun' \/ (\E m \in Markers : done'[m] # {}) => Reports("begin")' # {}
                 /\ Begun' /\ Others' => Twice("begin")'
                 /\ Reports("terminal")' # {} => pc' = "ended"
                 /\ pc' # "none" /\ runs' >= 1
    BY DEF Announced, Twice
  <1>4. \A m \in contract : m \notin {"none", "dead", "begin", "terminal", "ended", "report", "reportPart"}
    BY <1>1 DEF Markers
  <1>5. ASSUME NEW l \in Lines, log' = Append(log, l)
        PROVE  /\ Reports("begin") \subseteq Reports("begin")' /\ (Twice("begin") => Twice("begin")')
               /\ l.what # "terminal" => Reports("terminal")' = Reports("terminal")
               /\ l.what = "begin" => Reports("begin")' # {}
               /\ l.what = "begin" /\ Reports("begin") # {} => Twice("begin")'
    <2>1. \A what :
            /\ Reports(what) \subseteq Reports(what)'
            /\ \A i \in Reports(what)' : i \in Reports(what) \/ (i = Len(log) + 1 /\ l.what = what)
            /\ l.what = what => Len(log) + 1 \in Reports(what)' /\ Len(log) + 1 \notin Reports(what)
      BY <1>1, <1>5, ReportsGrow
    <2>2. Twice("begin") => Twice("begin")'
      BY <2>1 DEF Twice
    <2>3. l.what # "terminal" => Reports("terminal")' = Reports("terminal")
      BY <2>1
    <2>4. l.what = "begin" /\ Reports("begin") # {} => Twice("begin")'
      <3> SUFFICES ASSUME l.what = "begin", NEW i \in Reports("begin") PROVE Twice("begin")'
        OBVIOUS
      <3>1. i \in Reports("begin")' /\ Len(log) + 1 \in Reports("begin")' /\ i # Len(log) + 1
        BY <2>1
      <3> QED
        BY <3>1 DEF Twice
    <2> QED
      BY <2>1, <2>2, <2>3, <2>4
  <1>6. CASE Start
    <2>1. pc' = "begin" /\ done' = done /\ log' = log /\ runs' = runs + 1 /\ pc \in {"none", "dead"}
      BY <1>6 DEF Start
    <2>2. ~Begun'
      BY <1>1, <1>4, <2>1 DEF Begun
    <2> QED
      BY <1>1, <1>2, <2>1, <2>2 DEF Reports
  <1>7. CASE Begin
    <2> DEFINE l == Line("begin", TRUE)
    <2>1. pc = "begin" /\ done' = done /\ runs' = runs /\ log' = Append(log, l)
      BY <1>7 DEF Begin
    <2>2. l \in Lines /\ l.what = "begin"
      BY LinesTyped
    <2>3. pc' \in contract \cup {"terminal"}
      BY <1>1, <1>7, AfterIsNext DEF Begin
    <2> HIDE DEF l
    <2>4. Reports("begin")' # {} /\ Reports("terminal")' = {}
      BY <1>2, <1>5, <2>1, <2>2
    <2>5. Others' => Twice("begin")'
      <3>1. Others' => \E m \in Markers : done[m] # {}
        BY <2>1 DEF Others
      <3> QED
        BY <1>2, <1>5, <2>1, <2>2, <3>1
    <2> QED
      BY <1>2, <1>4, <2>1, <2>3, <2>4, <2>5
  <1>8. ASSUME NEW m \in Markers, Work(m)
        PROVE  /\ Begun' \/ (\E n \in Markers : done'[n] # {}) => Reports("begin")' # {}
               /\ Begun' /\ Others' => Twice("begin")'
               /\ Reports("terminal")' # {} => pc' = "ended"
               /\ pc' # "none" /\ runs' >= 1
    <2>1. PICK all \in BOOLEAN :
            /\ pc = m /\ m \in contract /\ runs' = runs /\ log' = log
            /\ done' = [done EXCEPT ![m] = @ \cup {[at |-> now, by |-> runs, all |-> all]}]
            /\ pc' \in {"report", "reportPart"}
      BY <1>8 DEF Work
    <2>2. Begun /\ pc # "none" /\ pc # "ended"
      BY <1>4, <2>1 DEF Begun
    <2>3. Others' => Others
      <3>1. \A n \in Markers : \A d \in done'[n] :
              d \in done[n] \/ d = [at |-> now, by |-> runs, all |-> all]
        BY <1>1, <2>1 DEF LauncherTypes
      <3> QED
        BY <2>1, <3>1 DEF Others
    <2>4. \A what : Reports(what)' = Reports(what)
      BY <2>1 DEF Reports
    <2> QED
      BY <1>2, <2>1, <2>2, <2>3, <2>4 DEF Twice
  <1>9. CASE Report
    <2>1. PICK m \in Markers :
            /\ Line(m, pc = "report") \in Lines /\ log' = Append(log, Line(m, pc = "report"))
            /\ pc' \in contract \cup {"terminal"}
      BY <1>9, ReportWrites DEF Launched
    <2>2. Reporting /\ runs' = runs /\ done' = done
      BY <1>9 DEF Report, Reporting
    <2>3. Line(m, pc = "report").what = m /\ m # "terminal"
      BY DEF Line, Markers
    <2>4. Begun /\ pc # "ended" /\ pc # "none"
      BY <2>2 DEF Begun, Reporting
    <2>5. Reports("begin")' # {} /\ Reports("terminal")' = {}
      BY <1>2, <1>5, <2>1, <2>3, <2>4
    <2>6. Others' => Twice("begin")'
      BY <1>2, <1>5, <2>1, <2>2, <2>4 DEF Others
    <2> QED
      BY <1>2, <1>4, <2>1, <2>2, <2>4, <2>5, <2>6
  <1>10. CASE Complete
    <2> DEFINE l == Line("terminal", TRUE)
    <2>1. pc = "terminal" /\ pc' = "ended" /\ done' = done /\ runs' = runs /\ log' = Append(log, l)
      BY <1>10 DEF Complete
    <2>2. l \in Lines
      BY LinesTyped
    <2> HIDE DEF l
    <2>3. Reports("begin")' # {} /\ (Others' => Twice("begin")')
      BY <1>2, <1>5, <2>1, <2>2 DEF Begun, Others
    <2> QED
      BY <1>2, <2>1, <2>3
  <1>11. CASE Die
    <2>1. pc' = "dead" /\ done' = done /\ runs' = runs /\ pc \notin {"none", "ended"}
      BY <1>11 DEF Die
    <2>2. ~Begun'
      BY <1>1, <1>4, <2>1 DEF Begun
    <2>3. Reports("begin") \subseteq Reports("begin")' /\ Reports("terminal")' = {}
      <3>1. CASE log' = log
        BY <1>2, <2>1, <3>1 DEF Reports
      <3>2. ASSUME NEW what \in {"torn", "failure"}, log' = Append(log, Line(what, FALSE))
            PROVE  Reports("begin") \subseteq Reports("begin")' /\ Reports("terminal")' = {}
        <4>1. Line(what, FALSE) \in Lines /\ Line(what, FALSE).what = what
          BY LinesTyped
        <4> QED
          BY <1>2, <1>5, <2>1, <3>2, <4>1
      <3> QED
        BY <1>11, <3>1, <3>2 DEF Die
    <2> QED
      BY <1>2, <2>1, <2>2, <2>3
  <1> QED
    BY <1>6, <1>7, <1>8, <1>9, <1>10, <1>11 DEF Launcher

\* What the others do leaves a launcher where it is; time only passes.
LEMMA LaunchedKept ==
    ASSUME TypeInv, Launched, UNCHANGED <<contract, launcher>>, now' \in Times, now <= now'
    PROVE  Launched'
  <1>1. /\ contract' = contract /\ runs' = runs /\ pc' = pc /\ done' = done /\ log' = log
        /\ now \in Nat /\ now' \in Nat
    BY LegacyAssumption DEF launcher, TypeInv, Times
  <1>2. Staged'
    <2>1. \A h : (Stage(h) => Stage(h)') /\ (Neat(h) => Neat(h)')
      BY <1>1 DEF Stage, Neat, Reporting, Mine, Told, Reports, Steps
    <2> QED
      BY <1>1, <2>1 DEF Launched, Staged
  <1>3. WorkInOrder'
    <2>1. \A m \in Markers : \A d \in done[m] : d.at \in Nat /\ d.at <= now
      BY LegacyAssumption DEF Launched, WorkInOrder, TypeInv, LauncherTypes, Works, Times
    <2>2. \A m \in Markers : \A d \in done[m] : d.at <= now'
      BY <1>1, <2>1
    <2> QED
      BY <1>1, <2>2 DEF Launched, WorkInOrder
  <1>4. LogInOrder'
    <2>1. \A i \in DOMAIN log : log[i].at \in Nat /\ log[i].at <= now
      <3>1. \A i \in DOMAIN log : log[i] \in Lines
        BY DEF TypeInv, LauncherTypes
      <3> QED
        BY <3>1, LegacyAssumption DEF Launched, LogInOrder, Lines, Times
    <2> QED
      BY <1>1, <2>1 DEF Launched, LogInOrder
  <1>5. Announced'
    BY <1>1 DEF Launched, Announced, Begun, Others, Reports
  <1> QED
    BY <1>2, <1>3, <1>4, <1>5 DEF Launched

LEMMA LaunchedInit == Init => Launched
  <1> SUFFICES ASSUME Init PROVE Launched
    OBVIOUS
  <1>1. /\ contract \subseteq Markers /\ runs = 0 /\ pc = "none" /\ log = <<>>
        /\ \A m \in Markers : done[m] = {}
    BY LegacyAssumption DEF Init
  <1>2. ~Begun
    BY <1>1 DEF Begun, Markers
  <1>3. \A what : Reports(what) = {}
    BY <1>1 DEF Reports
  <1> QED
    BY <1>1, <1>2, <1>3, StagedInit DEF Launched, WorkInOrder, LogInOrder, Announced

LEMMA LaunchedStep ==
    ASSUME TypeInv, Launched, [Next]_vars
    PROVE  Launched'
  <1>1. CASE Launcher
    BY <1>1, StagedStep, WorkStep, LogStep, AnnouncedStep DEF Launched
  <1>2. CASE UNCHANGED <<contract, launcher>> /\ now' \in {now, now + 1}
    <2>1. now \in Nat /\ Staged
      BY LegacyAssumption DEF TypeInv, Times, Launched
    <2>2. now' \in Times
      BY <2>1, TypesStep DEF TypeInv
    <2> QED
      BY <1>2, <2>1, <2>2, LaunchedKept
  <1> QED
    BY <1>1, <1>2 DEF Next, Paperwork, Surroundings, Tick, vars

-----------------------------------------------------------------------------
(* ReconciledWasExecuted.                                                   *)

LEMMA ExecutedFollows ==
    ASSUME TypeInv, Launched
    PROVE  ReconciledWasExecuted
  <1> SUFFICES ASSUME Reconciled
               PROVE  /\ pc = "ended"
                      /\ \A m \in contract : \E t \in Times :
                            t < Expiry /\ done[m] = {[at |-> t, by |-> runs, all |-> TRUE]}
                      /\ \A m, n \in contract : \A d \in done[m], e \in done[n] :
                            After(m) = n => d.at <= e.at
    BY DEF ReconciledWasExecuted
  <1>1. SuccessReported /\ Chronology(attestation) /\ MarkersInOrder
    BY DEF Reconciled, Verify, Admissible
  <1>2. /\ contract \subseteq Markers /\ log \in Seq(Lines) /\ runs \in Nat /\ Expiry \in Nat
        /\ done \in [Markers -> SUBSET Works]
    BY ContractsAreMarkers, LegacyAssumption DEF TypeInv, LauncherTypes
  <1>3. pc = "ended"
    <2>1. Reports("terminal") # {}
      BY <1>1 DEF SuccessReported, Once
    <2> QED
      BY <2>1 DEF Launched, Announced
  <1>4. PICK h \in 1 .. 7 : Stage(h)
    BY <1>3 DEF Launched, Staged
  <1>5. h = 7 /\ ~Reporting
    BY <1>3, <1>4 DEF Stage, Reporting
  \* A second launcher would have announced itself.
  <1>6. ~Others
    <2>1. \A i, j \in Reports("begin") : i = j
      BY <1>1 DEF SuccessReported, Once
    <2> QED
      BY <1>3, <2>1 DEF Launched, Announced, Begun
  <1>7. ASSUME NEW m \in contract
        PROVE  \E t \in Times : t < Expiry /\ done[m] = {[at |-> t, by |-> runs, all |-> TRUE]}
    <2>1. Rank(m) < 7 /\ m \in Markers
      BY <1>2, RankOfMarkers
    <2>2. PICK d \in Mine(m) : Told(m, d)
      BY <1>4, <1>5, <2>1 DEF Stage
    <2>3. d \in done[m] /\ d \in Works /\ d.by = runs
      BY <1>2, <2>1, <2>2 DEF Mine
    <2>4. done[m] = {d}
      <3>1. \A e \in done[m] : e.by = runs
        BY <1>6, <2>1 DEF Others
      <3>2. \A e \in done[m] : e = d
        BY <2>1, <2>3, <3>1 DEF Launched, WorkInOrder
      <3> QED
        BY <2>3, <3>2
    <2>5. PICK i \in Reports(m) : log[i].exact = d.all /\ d.at <= log[i].at
      BY <2>2 DEF Told
    <2>6. Exact(m) = Reports(m)
      BY <1>1 DEF SuccessReported, Once
    <2>7. log[i].exact
      BY <2>5, <2>6 DEF Exact
    <2>8. d.all = TRUE
      BY <2>3, <2>5, <2>7 DEF Works
    <2>9. PICK k \in DOMAIN log : Reports("terminal") = {k}
      BY <1>1 DEF SuccessReported, Once
    <2>10. i < k
      <3>1. Index("terminal") = k
        BY <2>9 DEF Index
      <3>2. PICK j \in DOMAIN log : Reports(m) = {j}
        BY <1>1 DEF SuccessReported, Once
      <3>3. Index(m) = i
        BY <2>5, <3>2 DEF Index
      <3>4. Index(m) < Index("terminal")
        BY <1>1 DEF MarkersInOrder, Before
      <3> QED
        BY <3>1, <3>3, <3>4
    <2>11. log[i].at <= log[k].at /\ i \in DOMAIN log
      BY <2>5, <2>9, <2>10 DEF Launched, LogInOrder, Reports
    <2>12. log[k].at < Expiry
      <3>1. Index("terminal") = k
        BY <2>9 DEF Index
      <3> QED
        BY <1>1, <3>1 DEF Chronology, At
    <2>13. log[i].at \in Nat /\ log[k].at \in Nat /\ d.at \in Nat /\ d.at \in Times
      <3>1. log[i] \in Lines /\ log[k] \in Lines
        BY <1>2, <2>9, <2>11
      <3> QED
        BY <2>3, <3>1, LegacyAssumption DEF Lines, Works, Times
    <2>14. d.at < Expiry
      BY <1>2, <2>5, <2>11, <2>12, <2>13
    <2>15. d = [at |-> d.at, by |-> runs, all |-> TRUE]
      BY <2>3, <2>8 DEF Works
    <2> QED
      BY <2>4, <2>13, <2>14, <2>15
  <1>8. ASSUME NEW m \in contract, NEW n \in contract, NEW d \in done[m], NEW e \in done[n], After(m) = n
        PROVE  d.at <= e.at
    <2>1. Rank(m) < Rank(n)
      BY <1>2, <1>8, AfterIsNext
    <2>2. d.by = runs /\ e.by = runs
      BY <1>2, <1>6 DEF Others
    <2> QED
      BY <1>2, <2>1, <2>2 DEF Launched, WorkInOrder
  <1> QED
    BY <1>3, <1>7, <1>8

\* THEOREM.  ReconciledWasExecuted: what verify_legacy_reconciled_execution reads in
\* the lines of an audit took place: one launcher, however many were started and
\* wherever they died, did all of the contract in its order and in time.
THEOREM ReconciledIsExecuted == Spec => []ReconciledWasExecuted
  <1> DEFINE Inv == TypeInv /\ Launched
  <1>1. Init => Inv
    BY TypesInit, LaunchedInit
  <1>2. Inv /\ [Next]_vars => Inv'
    BY TypesStep, LaunchedStep DEF Launched
  <1>3. Inv => ReconciledWasExecuted
    BY ExecutedFollows
  <1> QED
    BY <1>1, <1>2, <1>3, PTL DEF Spec

-----------------------------------------------------------------------------
(* ReconciledWasSeen.                                                       *)

\* What was known is known later.
LEMMA KnownLater ==
    ASSUME NEW p \in Posts, NEW time \in Times, NEW later \in Times, time <= later, Known(p, time)
    PROVE  Known(p, later)
  <1>1. time \in Nat /\ later \in Nat
    BY LegacyAssumption DEF Times
  <1>2. p.obs \in Seq(Observations)
    BY DEF Posts
  <1>3. ASSUME NEW n \in DOMAIN p.obs
        PROVE  Observed(p.obs[n], later)
    <2> DEFINE o == p.obs[n]
    <2>1. o \in Observations /\ Observed(o, time)
      BY <1>2 DEF Known
    <2> HIDE DEF o
    <2>2. /\ o.begin \in Nat /\ (o.end # None => o.end \in Nat)
          /\ \A k \in Evidence : o.seen[k] # None => o.seen[k] \in Nat
      BY <2>1, LegacyAssumption DEF Observations, Times
    <2>3. Observed(o, later)
      BY <1>1, <2>1, <2>2 DEF Observed
    <2> QED
      BY <2>3 DEF o
  <1>4. p.completed # None => p.completed <= later
    <2>1. p.completed # None => p.completed \in Nat
      BY LegacyAssumption DEF Posts, Times
    <2> QED
      BY <1>1, <2>1 DEF Known
  <1> QED
    BY <1>3, <1>4 DEF Known

\* An observation with these kinds of evidence, and of this time, added.
WithSeen(o, kinds, time) ==
    [o EXCEPT !.seen = [k \in Evidence |-> IF k \in kinds THEN time ELSE o.seen[k]]]

\* An observation begins, is added to, or ends.
LEMMA ObservedGrows ==
    ASSUME NEW o \in Observations, NEW time \in Times
    PROVE  /\ Observed([begin |-> time, end |-> None, seen |-> [k \in Evidence |-> None]], time)
           /\ Observed(o, time) => Observed([o EXCEPT !.end = time], time)
           /\ \A kinds \in SUBSET Evidence, s \in Times :
                /\ Observed(o, time) /\ o.end = None /\ s <= time /\ (s # time => kinds = {"denial"})
                => Observed(WithSeen(o, kinds, s), time)
  <1>1. time \in Nat /\ o.begin \in Nat /\ \A k \in Evidence : o.seen[k] # None => o.seen[k] \in Nat
    BY LegacyAssumption DEF Observations, Times
  <1>2. Observed([begin |-> time, end |-> None, seen |-> [k \in Evidence |-> None]], time)
    BY <1>1 DEF Observed
  <1>3. ASSUME Observed(o, time)
        PROVE  Observed([o EXCEPT !.end = time], time)
    <2> DEFINE e == [o EXCEPT !.end = time]
    <2>1. e.begin = o.begin /\ e.end = time /\ e.seen = o.seen
      BY DEF Observations
    <2> HIDE DEF e
    <2>2. Observed(e, time)
      BY <1>1, <1>3, <2>1 DEF Observed
    <2> QED
      BY <2>2 DEF e
  <1>4. ASSUME NEW kinds \in SUBSET Evidence, NEW s \in Times, Observed(o, time), o.end = None,
               s <= time, s # time => kinds = {"denial"}
        PROVE  Observed(WithSeen(o, kinds, s), time)
    <2> DEFINE e == WithSeen(o, kinds, s)
    <2>1. /\ e.begin = o.begin /\ e.end = o.end
          /\ \A k \in Evidence : e.seen[k] = IF k \in kinds THEN s ELSE o.seen[k]
      BY DEF Observations, WithSeen
    <2> HIDE DEF e
    <2>2. e.end = None /\ e.begin <= time
      BY <1>4, <2>1 DEF Observed
    <2>3. ASSUME NEW k \in Evidence, e.seen[k] # None
          PROVE  e.seen[k] <= time /\ (k # "denial" => e.begin <= e.seen[k])
      <3>1. CASE k \in kinds
        BY <1>1, <1>4, <2>1, <2>2, <3>1
      <3>2. CASE k \notin kinds
        BY <1>4, <2>1, <2>3, <3>2 DEF Observed
      <3> QED
        BY <3>1, <3>2
    <2>4. Observed(e, time)
      BY <2>2, <2>3 DEF Observed
    <2> QED
      BY <2>4 DEF e
  <1> QED
    BY <1>2, <1>3, <1>4

\* The poststate while it is collected.
LEMMA KnownGrows ==
    ASSUME NEW p \in Posts, NEW time \in Times, Known(p, time), p.completed = None
    PROVE  /\ \A o \in Observations :
                Len(p.obs) < 2 /\ Observed(o, time) /\ (p.obs # <<>> => p.obs[Len(p.obs)].end # None)
                => Known([p EXCEPT !.obs = Append(@, o)], time)
           /\ \A o \in Observations :
                p.obs # <<>> /\ Observed(o, time) => Known([p EXCEPT !.obs[Len(p.obs)] = o], time)
           /\ (p.obs # <<>> => p.obs[Len(p.obs)].end # None) => Known([p EXCEPT !.completed = time], time)
  <1>1. p.obs \in Seq(Observations) /\ Len(p.obs) \in Nat /\ DOMAIN p.obs = 1 .. Len(p.obs) /\ time \in Nat
    BY LegacyAssumption DEF Posts, Times
  <1>2. ASSUME NEW o \in Observations, Len(p.obs) < 2, Observed(o, time),
               p.obs # <<>> => p.obs[Len(p.obs)].end # None
        PROVE  Known([p EXCEPT !.obs = Append(@, o)], time)
    <2> DEFINE q == [p EXCEPT !.obs = Append(@, o)]
               obs == p.obs
    <2>1. q.obs = Append(obs, o) /\ q.completed = None
      BY DEF Posts
    <2> HIDE DEF q
    <2>2. /\ Len(q.obs) = Len(obs) + 1 /\ DOMAIN q.obs = 1 .. Len(obs) + 1
          /\ \A n \in 1 .. Len(obs) : q.obs[n] = obs[n]
          /\ q.obs[Len(obs) + 1] = o
      BY <1>1, <2>1
    <2>3. \A n \in 1 .. Len(obs) : obs[n].end # None
      <3>1. \A n \in DOMAIN p.obs : n < Len(p.obs) => p.obs[n].end # None
        BY DEF Known
      <3> QED
        BY <1>1, <1>2, <3>1
    <2>4. \A n \in 1 .. Len(obs) + 1 : Observed(q.obs[n], time)
      BY <1>1, <1>2, <2>2 DEF Known
    <2>5. Known(q, time)
      BY <1>1, <1>2, <2>1, <2>2, <2>3, <2>4 DEF Known
    <2> QED
      BY <2>5 DEF q
  <1>3. ASSUME NEW o \in Observations, p.obs # <<>>, Observed(o, time)
        PROVE  Known([p EXCEPT !.obs[Len(p.obs)] = o], time)
    <2> DEFINE obs == p.obs
               last == Len(p.obs)
               q == [p EXCEPT !.obs[last] = o]
    <2>1. q.obs = [obs EXCEPT ![last] = o] /\ q.completed = None
      BY DEF Posts
    <2> HIDE DEF q
    <2>2. /\ Len(q.obs) = last /\ DOMAIN q.obs = 1 .. last
          /\ \A n \in 1 .. last : q.obs[n] = IF n = last THEN o ELSE obs[n]
      BY <1>1, <2>1
    <2>3. Known(q, time)
      BY <1>1, <1>3, <2>1, <2>2 DEF Known
    <2> QED
      BY <2>3 DEF q
  <1>4. ASSUME p.obs # <<>> => p.obs[Len(p.obs)].end # None
        PROVE  Known([p EXCEPT !.completed = time], time)
    <2> DEFINE q == [p EXCEPT !.completed = time]
    <2>1. q.obs = p.obs /\ q.completed = time
      BY DEF Posts
    <2> HIDE DEF q
    <2>2. \A n \in DOMAIN p.obs : p.obs[n].end # None
      <3>1. \A n \in DOMAIN p.obs : n < Len(p.obs) => p.obs[n].end # None
        BY DEF Known
      <3> QED
        BY <1>1, <1>4, <3>1
    <2>3. Known(q, time)
      BY <1>1, <2>1, <2>2 DEF Known
    <2> QED
      BY <2>3 DEF q
  <1> QED
    BY <1>2, <1>3, <1>4

\* Known and Observed depend on the contract only through the evidence it asks for.
LEMMA KnownAlike ==
    ASSUME UNCHANGED contract, NEW p, NEW time, Known(p, time)
    PROVE  Known(p, time)'
  <1>1. Evidence' = Evidence
    BY SameEvidence
  <1>2. \A o, t : Observed(o, t) => Observed(o, t)'
    BY <1>1 DEF Observed
  <1> QED
    BY <1>2 DEF Known

\* An artifact that is not written says what it said.
LEMMA CollectedKept ==
    ASSUME TypeInv, Collected, UNCHANGED <<contract, post, probe, attestation>>,
           now' \in Times, now <= now'
    PROVE  Collected'
  <1>1. now \in Nat /\ now' \in Nat /\ now \in Times
    BY LegacyAssumption DEF TypeInv, Times
  <1>2. post # None => post \in Posts /\ Known(post, now)
    BY DEF TypeInv, Collected
  <1>3. post # None => Known(post, now')
    BY <1>1, <1>2, KnownLater
  <1>4. post' # None => Known(post, now)'
    BY <1>3, KnownAlike
  <1>5. probe # None => probe \in Nat /\ probe <= now
    BY LegacyAssumption DEF TypeInv, Collected, Times
  <1>6. attestation # None => attestation.generated \in Nat /\ attestation.generated <= now
    BY LegacyAssumption DEF TypeInv, Collected, Attestations, Times
  <1>7. attestation # None => Known(post, attestation.generated)
    BY DEF Collected
  <1>8. attestation' # None => Known(post, attestation.generated)'
    BY <1>7, KnownAlike
  <1> QED
    BY <1>1, <1>4, <1>5, <1>6, <1>8 DEF Collected

\* What the steps of the collector know.
LEMMA CollectorKnows ==
    ASSUME TypeInv, Collected, UNCHANGED <<now, contract>>
    PROVE  /\ Collect => Known(post', now)
           /\ BeginObservation => Known(post', now)
           /\ See(Evidence \ {"denial"}) \/ See({"denial"}) => Known(post', now)
           /\ EndObservation => Known(post', now)
           /\ CompletePoststate => Known(post', now)
  <1>1. now \in Times /\ now \in Nat
    BY LegacyAssumption DEF TypeInv, Times
  <1>2. ASSUME Observing
        PROVE  /\ post \in Posts /\ Known(post, now) /\ post.completed = None
               /\ post.obs \in Seq(Observations)
               /\ ~Open => (post.obs # <<>> => post.obs[Len(post.obs)].end # None)
               /\ Open => /\ post.obs # <<>> /\ post.obs[Len(post.obs)].end = None
                          /\ post.obs[Len(post.obs)] \in Observations
                          /\ Observed(post.obs[Len(post.obs)], now)
    <2>1. post \in Posts /\ Known(post, now) /\ post.completed = None
      BY <1>2 DEF Observing, TypeInv, Collected
    <2>2. post.obs \in Seq(Observations)
      BY <2>1 DEF Posts
    <2>3. Open <=> post.obs # <<>> /\ post.obs[Len(post.obs)].end = None
      BY <1>2, <2>2 DEF Open, Last
    <2>4. post.obs # <<>> => Len(post.obs) \in DOMAIN post.obs /\ post.obs[Len(post.obs)] \in Observations
      BY <2>2
    <2> QED
      BY <2>1, <2>2, <2>3, <2>4 DEF Known
  <1>3. Collect => Known(post', now)
    <2> SUFFICES ASSUME Collect PROVE Known(post', now)
      OBVIOUS
    <2>1. post'.obs = <<>> /\ post'.completed = None
      BY DEF Collect
    <2> QED
      BY <2>1 DEF Known
  <1>4. BeginObservation => Known(post', now)
    <2> SUFFICES ASSUME BeginObservation PROVE Known(post', now)
      OBVIOUS
    <2> DEFINE o == [begin |-> now, end |-> None, seen |-> [k \in Evidence |-> None]]
    <2>1. o \in Observations /\ Observed(o, now)
      <3>1. o \in Observations
        BY <1>1 DEF Observations
      <3> QED
        BY <1>1, <3>1, ObservedGrows
    <2>2. Observing /\ ~Open /\ Len(post.obs) < 2 /\ post' = [post EXCEPT !.obs = Append(@, o)]
      BY DEF BeginObservation
    <2> HIDE DEF o
    <2> QED
      BY <1>1, <1>2, <2>1, <2>2, KnownGrows
  <1>5. ASSUME NEW kinds \in {Evidence \ {"denial"}, {"denial"}}, See(kinds)
        PROVE  Known(post', now)
    <2> DEFINE last == Len(post.obs)
               o == post.obs[last]
    <2>1. Open /\ Observing
      BY <1>5 DEF See, Open
    <2>2. o \in Observations /\ Observed(o, now) /\ o.end = None
      BY <1>2, <2>1
    <2>3. PICK s \in Times : /\ s <= now /\ (s # now => kinds = {"denial"})
                             /\ post' = [post EXCEPT !.obs[last] = WithSeen(o, kinds, s)]
      <3>1. probe # None => probe \in Times /\ probe <= now
        BY DEF TypeInv, Collected
      <3> DEFINE Saw(time) == post' = [post EXCEPT !.obs[last] = WithSeen(o, kinds, time)]
      <3>2. Saw(now) \/ (kinds = {"denial"} /\ probe # None /\ Saw(probe))
        BY <1>5 DEF See, WithSeen
      <3> HIDE DEF Saw
      <3>3. \E s \in Times : s <= now /\ (s # now => kinds = {"denial"}) /\ Saw(s)
        <4>1. CASE Saw(now)
          BY <1>1, <4>1
        <4>2. CASE kinds = {"denial"} /\ probe # None /\ Saw(probe)
          BY <3>1, <4>2
        <4> QED
          BY <3>2, <4>1, <4>2
      <3> QED
        BY <3>3 DEF Saw
    <2>4. kinds \in SUBSET Evidence
      BY DEF Evidence
    <2>5. Observed(WithSeen(o, kinds, s), now)
      BY <1>1, <2>2, <2>3, <2>4, ObservedGrows
    <2>6. WithSeen(o, kinds, s) \in Observations
      BY <2>2 DEF Observations, WithSeen
    <2> HIDE DEF o
    <2> QED
      BY <1>1, <1>2, <2>1, <2>3, <2>5, <2>6, KnownGrows
  <1>6. EndObservation => Known(post', now)
    <2> SUFFICES ASSUME EndObservation PROVE Known(post', now)
      OBVIOUS
    <2> DEFINE last == Len(post.obs)
               o == post.obs[last]
               e == [o EXCEPT !.end = now]
    <2>1. Open /\ Observing
      BY DEF EndObservation, Open
    <2>2. o \in Observations /\ Observed(o, now)
      BY <1>2, <2>1
    <2>3. e \in Observations /\ Observed(e, now)
      <3>1. e \in Observations
        BY <1>1, <2>2 DEF Observations
      <3> QED
        BY <1>1, <2>2, <3>1, ObservedGrows
    <2>4. post' = [post EXCEPT !.obs[last] = e]
      BY DEF EndObservation
    <2> HIDE DEF e
    <2> QED
      BY <1>1, <1>2, <2>1, <2>3, <2>4, KnownGrows
  <1>7. CompletePoststate => Known(post', now)
    BY <1>1, <1>2, KnownGrows DEF CompletePoststate
  <1> QED
    BY <1>3, <1>4, <1>5, <1>6, <1>7

LEMMA CollectedStep ==
    ASSUME TypeInv, TypeInv', Collected, [Next]_vars
    PROVE  Collected'
  <1>1. now \in Nat /\ now' \in Times /\ now' \in Nat
    BY LegacyAssumption DEF TypeInv, Times
  <1>2. CASE UNCHANGED <<contract, post, probe, attestation>> /\ now <= now'
    BY <1>1, <1>2, CollectedKept
  <1>3. CASE Paperwork
    <2>1. now' = now /\ contract' = contract /\ attestation = None
      BY <1>3 DEF Paperwork
    <2>2. CASE Preserve
      BY <1>1, <1>2, <2>1, <2>2 DEF Preserve, collector
    <2>3. CASE Probe
      <3>1. probe' = now /\ post' = post /\ attestation' = None
        BY <2>1, <2>3 DEF Probe
      <3>2. post' # None => Known(post, now)'
        <4>1. post # None => Known(post, now)
          BY DEF Collected
        <4> QED
          BY <2>1, <3>1, <4>1, KnownAlike
      <3> QED
        BY <1>1, <2>1, <3>1, <3>2 DEF Collected
    <2>4. CASE \/ Collect \/ BeginObservation \/ EndObservation \/ CompletePoststate
               \/ See(Evidence \ {"denial"}) \/ See({"denial"})
      <3>1. Known(post', now)
        BY <2>1, <2>4, CollectorKnows
      <3>2. Known(post, now)'
        <4>1. Evidence' = Evidence
          BY <2>1, SameEvidence
        <4>2. \A o, t : Observed(o, t) => Observed(o, t)'
          BY <4>1 DEF Observed
        <4> QED
          BY <2>1, <3>1, <4>2 DEF Known
      <3>3. attestation' = None /\ (probe' = probe \/ probe' = None)
        BY <2>1, <2>4 DEF Collect, BeginObservation, See, EndObservation, CompletePoststate
      <3> QED
        BY <2>1, <3>2, <3>3 DEF Collected
    <2>5. CASE Attest
      <3>1. /\ post' = post /\ probe' = probe /\ post # None
            /\ attestation'.post = post /\ attestation'.generated = now
        BY <2>5 DEF Attest, collector
      <3>2. Known(post, now)
        BY <3>1 DEF Collected
      <3>3. Known(post, now)' /\ Known(post, attestation.generated)'
        <4>1. Evidence' = Evidence
          BY <2>1, SameEvidence
        <4>2. \A o, t : Observed(o, t) => Observed(o, t)'
          BY <4>1 DEF Observed
        <4> QED
          BY <2>1, <3>1, <3>2, <4>2 DEF Known
      <3> QED
        BY <1>1, <2>1, <3>1, <3>3 DEF Collected
    <2> QED
      BY <1>3, <2>2, <2>3, <2>4, <2>5 DEF Paperwork
  <1> QED
    BY <1>1, <1>2, <1>3 DEF Next, Launcher, Surroundings, Tick, vars, collector

LEMMA CollectedInit == Init => Collected
  BY DEF Init, Collected

LEMMA SeenFollows ==
    ASSUME TypeInv, Collected
    PROVE  ReconciledWasSeen
  <1> SUFFICES ASSUME Reconciled, NEW k \in Evidence
               PROVE  LET obs == attestation.post.obs IN
                      /\ Expiry <= obs[1].seen[k]
                      /\ obs[1].seen[k] < obs[2].begin /\ obs[2].begin <= obs[2].seen[k]
                      /\ obs[2].seen[k] <= attestation.generated
                      /\ obs[2].seen[k] - obs[1].begin >= Gap
    BY DEF ReconciledWasSeen
  <1> DEFINE first == attestation.post.obs[1]
             second == attestation.post.obs[2]
  <1>1. attestation # None /\ PoststateProven(attestation)
    BY DEF Reconciled, Verify, Admissible
  <1>2. /\ post \in Posts /\ attestation.post = post /\ Known(post, attestation.generated)
        /\ attestation.generated \in Nat /\ Expiry \in Nat /\ Gap \in Nat
    BY <1>1, LegacyAssumption DEF Collected, TypeInv, Attestations, Times
  <1>3. /\ 1 \in DOMAIN attestation.post.obs /\ 2 \in DOMAIN attestation.post.obs
        /\ first \in Observations /\ second \in Observations
    <2>1. attestation.post.obs \in Seq(Observations) /\ Len(attestation.post.obs) = 2
      BY <1>1, <1>2 DEF PoststateProven, Posts
    <2> QED
      BY <2>1
  <1>4. Observed(first, attestation.generated) /\ Observed(second, attestation.generated)
    BY <1>2, <1>3 DEF Known
  <1>5. /\ Proven(first) /\ Proven(second)
        /\ Expiry <= first.begin /\ first.end < second.begin
        /\ second.begin - first.begin >= Gap
    BY <1>1 DEF PoststateProven
  <1> HIDE DEF first, second
  <1>6. ASSUME NEW o \in Observations, Observed(o, attestation.generated), Proven(o)
        PROVE  /\ o.begin \in Nat /\ o.end \in Nat /\ o.seen[k] \in Nat
               /\ o.begin <= o.seen[k] /\ o.seen[k] <= o.end /\ o.seen[k] <= attestation.generated
    <2>1. o.end # None /\ o.seen[k] # None
      BY <1>6 DEF Proven
    <2>2. o.begin \in Nat /\ o.end \in Nat /\ o.seen[k] \in Nat
      BY <2>1, LegacyAssumption DEF Observations, Times
    <2>3. o.begin <= o.seen[k]
      BY <1>6, <2>1 DEF Observed, Proven
    <2> QED
      BY <1>6, <2>1, <2>2, <2>3 DEF Observed
  <1>7. /\ Expiry <= first.seen[k] /\ first.seen[k] < second.begin /\ second.begin <= second.seen[k]
        /\ second.seen[k] <= attestation.generated /\ second.seen[k] - first.begin >= Gap
    <2>1. /\ first.begin \in Nat /\ first.end \in Nat /\ first.seen[k] \in Nat
          /\ first.begin <= first.seen[k] /\ first.seen[k] <= first.end
      BY <1>3, <1>4, <1>5, <1>6
    <2>2. /\ second.begin \in Nat /\ second.seen[k] \in Nat
          /\ second.begin <= second.seen[k] /\ second.seen[k] <= attestation.generated
      BY <1>3, <1>4, <1>5, <1>6
    <2> QED
      BY <1>2, <1>5, <2>1, <2>2
  <1> QED
    BY <1>7 DEF first, second

\* THEOREM.  ReconciledWasSeen: a reconciled execution was seen to hold in two
\* observations after its package had expired, each thing anew in each, however
\* hasty the collector and however late its requests were reported.
THEOREM ReconciledIsSeen == Spec => []ReconciledWasSeen
  <1> DEFINE Inv == TypeInv /\ Launched /\ Collected
  <1>1. Init => Inv
    BY TypesInit, LaunchedInit, CollectedInit
  <1>2. Inv /\ [Next]_vars => Inv'
    BY TypesStep, LaunchedStep, CollectedStep DEF Launched
  <1>3. Inv => ReconciledWasSeen
    BY SeenFollows
  <1> QED
    BY <1>1, <1>2, <1>3, PTL DEF Spec

-----------------------------------------------------------------------------
(* ExecutedReconciles.                                                      *)

\* The audit of a single launcher that came to its end.
LEMMA TidyAudit ==
    ASSUME TypeInv, Launched, runs = 1, pc = "ended"
    PROVE  /\ \A i, j \in DOMAIN log : i < j => Rank(log[i].what) < Rank(log[j].what)
           /\ \A i \in DOMAIN log : log[i].what \in Steps
           /\ \A s \in Steps : \E i \in DOMAIN log : Reports(s) = {i} /\ Index(s) = i /\ log[i].what = s
           /\ \A s, t \in Steps : Rank(s) < Rank(t) => Index(s) < Index(t)
  <1>1. contract \subseteq Markers /\ log \in Seq(Lines) /\ DOMAIN log \subseteq Nat
    BY ContractsAreMarkers DEF TypeInv, LauncherTypes
  <1>2. PICK h \in 1 .. 7 : Stage(h) /\ Neat(h)
    BY DEF Launched, Staged
  <1>3. h = 7
    BY <1>2 DEF Stage
  <1>4. /\ \A i, j \in DOMAIN log : i < j => Rank(log[i].what) < Rank(log[j].what)
        /\ \A i \in DOMAIN log : log[i].what \in Steps
        /\ \A s \in Steps : Reports(s) # {}
    BY <1>1, <1>2, <1>3, RankOfSteps DEF Neat
  <1>5. ASSUME NEW s \in Steps
        PROVE  \E i \in DOMAIN log : Reports(s) = {i} /\ Index(s) = i /\ log[i].what = s
    <2>1. PICK i \in DOMAIN log : log[i].what = s
      BY <1>4 DEF Reports
    <2>2. ASSUME NEW j \in DOMAIN log, log[j].what = s
          PROVE  j = i
      <3>1. Rank(s) \in 1 .. 6
        BY <1>1, RankOfSteps
      <3>2. ~(i < j) /\ ~(j < i)
        BY <1>4, <2>1, <2>2, <3>1
      <3> QED
        BY <1>1, <3>2
    <2>3. Reports(s) = {i}
      BY <2>1, <2>2 DEF Reports
    <2> QED
      BY <2>1, <2>3 DEF Index
  <1>6. ASSUME NEW s \in Steps, NEW t \in Steps, Rank(s) < Rank(t)
        PROVE  Index(s) < Index(t)
    <2>1. PICK i \in DOMAIN log : Index(s) = i /\ log[i].what = s
      BY <1>5
    <2>2. PICK j \in DOMAIN log : Index(t) = j /\ log[j].what = t
      BY <1>5
    <2>3. Rank(s) \in 1 .. 6 /\ Rank(t) \in 1 .. 6
      BY <1>1, RankOfSteps
    <2>4. i # j /\ ~(j < i)
      BY <1>4, <1>6, <2>1, <2>2, <2>3
    <2> QED
      BY <1>1, <2>1, <2>2, <2>4
  <1> QED
    BY <1>4, <1>5, <1>6

LEMMA ReconciledFollows ==
    ASSUME TypeInv, Launched, Collected
    PROVE  ExecutedReconciles
  <1> SUFFICES ASSUME attestation # None, ByTheBook(attestation)
               PROVE  Admissible(attestation)
    BY DEF ExecutedReconciles, Reconciled, Verify
  <1>1. runs = 1 /\ pc = "ended" /\ Last(log).at < Expiry /\ \A i \in DOMAIN log : log[i].exact
    BY DEF ByTheBook
  <1>2. /\ contract \subseteq Markers /\ log \in Seq(Lines) /\ now \in Nat /\ Expiry \in Nat
        /\ DOMAIN log = 1 .. Len(log) /\ Len(log) \in Nat
    BY ContractsAreMarkers, LegacyAssumption DEF TypeInv, LauncherTypes, Times
  <1>3. /\ \A i, j \in DOMAIN log : i < j => Rank(log[i].what) < Rank(log[j].what)
        /\ \A i \in DOMAIN log : log[i].what \in Steps
        /\ \A s \in Steps : \E i \in DOMAIN log : Reports(s) = {i} /\ Index(s) = i /\ log[i].what = s
        /\ \A s, t \in Steps : Rank(s) < Rank(t) => Index(s) < Index(t)
    BY <1>1, TidyAudit
  <1>4. "begin" \in Steps /\ "terminal" \in Steps /\ contract \subseteq Steps
    BY DEF Steps
  <1>5. \A s \in Steps : Index(s) \in DOMAIN log /\ log[Index(s)].what = s /\ Reports(s) = {Index(s)}
    BY <1>3
  <1>6. /\ \A i \in DOMAIN log : log[i].at \in Nat
        /\ \A i, j \in DOMAIN log : i <= j => log[i].at <= log[j].at
    <2>1. \A i \in DOMAIN log : log[i] \in Lines
      BY <1>2
    <2>2. \A i \in DOMAIN log : log[i].at \in Nat
      BY <2>1, LegacyAssumption DEF Lines, Times
    <2>3. \A i, j \in DOMAIN log : i < j => log[i].at <= log[j].at
      BY DEF Launched, LogInOrder
    <2>4. \A i, j \in DOMAIN log : i <= j => i = j \/ i < j
      BY <1>2
    <2> QED
      BY <2>2, <2>3, <2>4
  <1>7. \A s, t \in Steps : Rank(s) < Rank(t) => At(s) <= At(t)
    <2>1. \A s, t \in Steps : Rank(s) < Rank(t) => Index(s) <= Index(t)
      BY <1>2, <1>3, <1>5
    <2> QED
      BY <1>5, <1>6, <2>1 DEF At
  <1>8. SourcesBound(attestation)
    BY DEF SourcesBound, ByTheBook
  <1>9. Framed
    <2>1. log # <<>> /\ Len(log) \in DOMAIN log
      BY <1>2, <1>4, <1>5
    <2>2. log[Len(log)].what # "torn"
      BY <1>2, <1>3, <2>1 DEF Steps, Markers
    <2> QED
      BY <2>1, <2>2 DEF Framed, Last
  <1>10. SuccessReported
    <2>1. \A s \in Steps : Once(s)
      BY <1>1, <1>5 DEF Once, Exact
    <2>2. \A m \in Markers \ contract : Reports(m) = {}
      <3>1. \A m \in Markers \ contract : m \notin Steps
        BY DEF Steps, Markers
      <3> QED
        BY <1>3, <3>1 DEF Reports
    <2> QED
      BY <1>4, <2>1, <2>2 DEF SuccessReported
  <1>11. MarkersInOrder
    <2>1. \A s \in contract \cup {"begin"}, t \in contract \cup {"terminal"} :
            Rank(s) < Rank(t) => Before(s, t)
      BY <1>3, <1>4 DEF Before
    <2>2. \A m \in contract : Rank("begin") < Rank(m) /\ Rank(m) < Rank("terminal")
      BY <1>2, RankIs, RankOfMarkers
    <2>3. \A f \in {"quarantine", "replace"} : Before(f, "apply")
      <3> SUFFICES ASSUME NEW f \in {"quarantine", "replace"} PROVE Before(f, "apply")
        OBVIOUS
      <3>1. Rank(f) < Rank("apply")
        BY RankIs
      <3>2. f # "begin" /\ "apply" # "terminal"
        OBVIOUS
      <3> QED
        BY <2>1, <3>1, <3>2 DEF Before
    <2>4. Before("apply", "after")
      <3>1. Rank("apply") < Rank("after")
        BY RankIs
      <3> QED
        BY <2>1, <3>1 DEF Before
    <2>5. Before("begin", "terminal")
      BY <2>1, RankIs
    <2> QED
      BY <2>1, <2>2, <2>3, <2>4, <2>5 DEF MarkersInOrder
  <1>12. /\ post \in Posts /\ attestation.post = post /\ Known(post, attestation.generated)
         /\ attestation.generated \in Nat /\ attestation.generated <= now /\ Gap \in Nat
    BY LegacyAssumption DEF Collected, TypeInv, Attestations, Times
  <1>13. PoststateProven(attestation) /\ Expiry <= attestation.generated
    <2> DEFINE first == attestation.post.obs[1]
               second == attestation.post.obs[2]
    <2>1. /\ Len(attestation.post.obs) = 2 /\ attestation.post.completed # None
          /\ attestation.post.log = log
          /\ \A k \in Evidence : first.seen[k] # None /\ first.begin <= first.seen[k]
          /\ \A k \in Evidence : second.seen[k] # None /\ second.begin <= second.seen[k]
          /\ Expiry <= first.begin /\ first.end < second.begin
          /\ second.begin >= first.begin + Gap
      BY DEF ByTheBook
    <2>2. /\ 1 \in DOMAIN attestation.post.obs /\ 2 \in DOMAIN attestation.post.obs
          /\ first \in Observations /\ second \in Observations
      <3>1. attestation.post.obs \in Seq(Observations)
        BY <1>12 DEF Posts
      <3> QED
        BY <2>1, <3>1
    <2>3. /\ first.end # None /\ second.end # None
          /\ Observed(first, attestation.post.completed) /\ Observed(second, attestation.post.completed)
          /\ attestation.post.completed <= attestation.generated
      BY <1>12, <2>1, <2>2 DEF Known
    <2> HIDE DEF first, second
    <2>4. ASSUME NEW o \in Observations, o.end # None, Observed(o, attestation.post.completed),
                 \A k \in Evidence : o.seen[k] # None /\ o.begin <= o.seen[k]
          PROVE  /\ Proven(o) /\ o.end <= attestation.post.completed
                 /\ o.begin \in Nat /\ o.end \in Nat /\ o.begin <= o.end
      <3>1. "denial" \in Evidence
        BY DEF Evidence
      <3>2. o.begin \in Nat /\ o.end \in Nat
        BY <2>4, LegacyAssumption DEF Observations, Times
      <3> QED
        BY <2>4, <3>1, <3>2 DEF Proven, Observed
    <2>5. Proven(first) /\ first.begin \in Nat /\ first.end \in Nat /\ first.begin <= first.end
      BY <2>1, <2>2, <2>3, <2>4
    <2>6. Proven(second) /\ second.end <= attestation.post.completed
          /\ second.begin \in Nat /\ second.end \in Nat /\ second.begin <= second.end
      BY <2>1, <2>2, <2>3, <2>4
    <2>7. attestation.post.completed \in Nat
      BY <1>12, <2>1, LegacyAssumption DEF Posts, Times
    <2>8. second.begin - first.begin >= Gap /\ Expiry <= attestation.generated
      BY <1>2, <1>12, <2>1, <2>3, <2>5, <2>6, <2>7
    <2>9. PoststateProven(attestation)
      BY <1>12, <2>1, <2>3, <2>5, <2>6, <2>8 DEF PoststateProven, first, second
    <2> QED
      BY <2>8, <2>9
  <1>14. Chronology(attestation)
    <2>1. At("begin") <= At("terminal")
      BY <1>4, <1>7, RankIs
    <2>2. At("terminal") < Expiry
      <3>1. Index("terminal") <= Len(log) /\ Len(log) \in DOMAIN log /\ Index("terminal") \in DOMAIN log
        BY <1>2, <1>4, <1>5
      <3>2. At("terminal") <= log[Len(log)].at /\ log[Len(log)].at < Expiry
        BY <1>1, <1>6, <3>1 DEF At, Last
      <3> QED
        BY <1>2, <1>6, <3>1, <3>2 DEF At
    <2>3. "apply" \in contract => "after" \in contract
      BY LegacyAssumption DEF TypeInv
    <2>4. "apply" \in contract =>
            At("begin") <= At("apply") /\ At("apply") <= At("after") /\ At("after") <= At("terminal")
      BY <1>4, <1>7, <2>3, RankIs
    <2> QED
      BY <1>12, <1>13, <2>1, <2>2, <2>4 DEF Chronology
  <1>15. RecordsKnown
    <2> SUFFICES ASSUME NEW i \in DOMAIN log
                 PROVE  /\ log[i].what \in {"begin", "terminal"} \cup contract
                        /\ Index("begin") <= i /\ i <= Index("terminal")
                        /\ log[i].at <= At("terminal")
      BY DEF RecordsKnown
    <2>1. log[i].what \in Steps /\ Rank(log[i].what) \in 1 .. 6
      BY <1>2, <1>3, RankOfSteps
    <2>2. ~(i < Index("begin"))
      BY <1>3, <1>4, <1>5, <2>1, RankIs
    <2>3. ~(Index("terminal") < i)
      BY <1>3, <1>4, <1>5, <2>1, RankIs
    <2>4. Index("begin") <= i /\ i <= Index("terminal")
      BY <1>2, <1>4, <1>5, <2>2, <2>3
    <2> QED
      BY <1>4, <1>5, <1>6, <2>1, <2>4 DEF At, Steps
  <1> QED
    BY <1>8, <1>9, <1>10, <1>11, <1>13, <1>14, <1>15 DEF Admissible

\* THEOREM.  ExecutedReconciles: what was carried out in full by one launcher and
\* observed by the book passes every check of verify_legacy_reconciled_execution, for
\* any contract and any dates.
THEOREM ExecutedIsReconciled == Spec => []ExecutedReconciles
  <1> DEFINE Inv == TypeInv /\ Launched /\ Collected
  <1>1. Init => Inv
    BY TypesInit, LaunchedInit, CollectedInit
  <1>2. Inv /\ [Next]_vars => Inv'
    BY TypesStep, LaunchedStep, CollectedStep DEF Launched
  <1>3. Inv => ExecutedReconciles
    BY ReconciledFollows
  <1> QED
    BY <1>1, <1>2, <1>3, PTL DEF Spec
=============================================================================
