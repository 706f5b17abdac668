------------------------ MODULE EmergencyOperatorProofs ------------------------
(***************************************************************************)
(* Theorems of EmergencyOperator, for every set of terminals, any number of *)
(* reopen packages and any lifetimes.                                       *)
(***************************************************************************)
EXTENDS EmergencyOperator, TLAPS

USE LifetimesAssumption, OperatorBoundsAssumption

-----------------------------------------------------------------------------
(* Inductive invariants.                                                   *)

\* Packages are made in order, and each reopen package holds the reservation
\* that succeeds the one before it: the lineage is a chain.
ChainInv ==
    /\ \A r \in authored, q \in Packages : q < r => q \in authored
    /\ \A r \in authored \cap Reopens : reservation[r - 1] = r

\* A package is consumed as soon as its launcher has claimed it, and the
\* terminal at a launcher's step is the one that the package waits for.
Holding == {"dispatch", "remote", "mutate"}

LauncherInv ==
    /\ \A p \in Packages : consumed[p] = 0 <=> run[p] = "none"
    /\ \A s \in Sessions :
        /\ pc[s] = "dispatch" => run[chosen[s]] = "claimed"
        /\ pc[s] = "remote" => run[chosen[s]] = "dispatched"
        /\ pc[s] = "mutate" => run[chosen[s]] = "mutating"
    /\ \A s, t \in Sessions :
        pc[s] \in Holding /\ pc[t] \in Holding /\ chosen[s] = chosen[t] => s = t

\* A package that can no longer begin to mutate.
Dead(p) ==
    \/ run[p] = "aborted"
    \/ run[p] \in {"none", "claimed"} /\ expires[p] <= now

\* Only the last reopen package of the chain may still mutate.
SupersededInv == \A r \in Reopens : r + 1 \in authored => Dead(r)

MutationInv ==
    /\ \A m \in mutations :
        m[2] \in authored /\ run[m[2]] \in {"mutating", "completed", "partial"}
    /\ \A m, n \in mutations : m[2] = n[2] => m = n

\* What a terminal was shown is not newer than what the package's path holds.
SeenInv ==
    /\ \A s \in Sessions :
        pc[s] \notin {"idle", "verify", "review"} => seen[s] <= edition[chosen[s]]
    /\ \A p \in Packages : consumed[p] <= edition[p]
    /\ \A s \in Sessions :
        pc[s] \in Holding => consumed[chosen[s]] = seen[s]

\* An upgrade cannot be undone, so a stale seal stays stale.
SealInv == \A p \in Packages : sealed[p] <= product

UnfitInv ==
    \A p \in unfit :
        /\ p \in authored
        /\ Unfit(p, consumed[p])
        /\ run[p] \in {"claimed", "aborted"}

RevokedInv ==
    \A s \in revoked :
        /\ pc[s] \in {"idle", "reselect", "reverify", "rereview"}
        /\ pc[s] = "reselect" => ~Standing(s)
        /\ pc[s] = "reverify" =>
                seen[s] < edition[chosen[s]] \/ chosen[s] \in unsigned
        /\ pc[s] = "rereview" => seen[s] < edition[chosen[s]]

-----------------------------------------------------------------------------
(* Type correctness.                                                       *)

LEMMA InitTyped == Init => TypeOK
  BY DEF Init, TypeOK, ClockOK, PackagesOK, RunsOK, TerminalsOK, Run, SessionPc,
         Packages, Remediation

\* A terminal's step leaves packages, registry and clock alone.
LEMMA TerminalKeepsFiles ==
    ASSUME NEW s \in Sessions, Terminal(s)
    PROVE  UNCHANGED <<clock, files>>
  BY DEF Terminal, SelectPackage, FirstVerify, ReviewPackage, Confirm, Reselect,
         Reverify, Rereview, Launch, Claim, Dispatch, RemoteVerify, Finish, Kill

LEMMA TerminalTyped ==
    ASSUME TypeOK, NEW s \in Sessions, Terminal(s)
    PROVE  TypeOK'
  <1>1. UNCHANGED <<clock, files>>
    BY TerminalKeepsFiles
  <1>2. PackagesOK'
    BY <1>1 DEF TypeOK, PackagesOK, files, dates, broken
  <1> USE <1>1, <1>2 DEF TypeOK, ClockOK, RunsOK, TerminalsOK, PackagesOK, Step, Check,
         SetRun, SessionPc, Run, clock, files, markers, history
  <1>3. CASE SelectPackage(s)
    BY <1>3 DEF SelectPackage
  <1>4. CASE FirstVerify(s)
    BY <1>4 DEF FirstVerify
  <1>5. CASE ReviewPackage(s)
    BY <1>5 DEF ReviewPackage, dates
  <1>6. CASE Confirm(s)
    BY <1>6 DEF Confirm
  <1>7. CASE Reselect(s)
    BY <1>7 DEF Reselect
  <1>8. CASE Reverify(s)
    BY <1>8 DEF Reverify
  <1>9. CASE Rereview(s)
    BY <1>9 DEF Rereview
  <1>10. CASE Launch(s)
    BY <1>10 DEF Launch
  <1>11. CASE Claim(s)
    <2>1. chosen[s] \in Packages
      OBVIOUS
    <2>2. consumed' \in [Packages -> 0 .. MaxEdition]
      BY <1>11, <2>1 DEF Claim
    <2>3. run' \in [Packages -> Run]
      BY <1>11, <2>1 DEF Claim
    <2>4. unfit' \subseteq Packages
      BY <1>11, <2>1 DEF Claim
    <2>5. pc' \in [Sessions -> SessionPc]
      BY <1>11 DEF Claim
    <2> QED
      BY <1>11, <2>2, <2>3, <2>4, <2>5 DEF Claim
  <1>12. CASE Dispatch(s)
    BY <1>12 DEF Dispatch
  <1>13. CASE RemoteVerify(s)
    <2>1. chosen[s] \in Packages
      OBVIOUS
    <2>2. mutations' \subseteq Sessions \X Packages
      BY <1>13, <2>1 DEF RemoteVerify
    <2>3. pc' \in [Sessions -> SessionPc] /\ run' \in [Packages -> Run]
      BY <1>13, <2>1 DEF RemoteVerify
    <2> QED
      BY <1>13, <2>2, <2>3 DEF RemoteVerify
  <1>14. CASE Finish(s)
    BY <1>14 DEF Finish
  <1>15. CASE Kill(s)
    BY <1>15 DEF Kill
  <1> QED
    BY <1>3, <1>4, <1>5, <1>6, <1>7, <1>8, <1>9, <1>10, <1>11, <1>12, <1>13, <1>14,
       <1>15 DEF Terminal

LEMMA SurroundingsTyped ==
    ASSUME TypeOK, Surroundings
    PROVE  TypeOK'
  <1> USE DEF TypeOK, ClockOK, RunsOK, TerminalsOK, PackagesOK, clock, files, dates,
         broken, markers, terminals, history
  <1>1. CASE \E p, q \in Packages, k \in 1 .. 3, l \in Lifetimes : AuthorReopen(p, q, k, l)
    <2> PICK p \in Packages, q \in Packages, k \in 1 .. 3, l \in Lifetimes :
            AuthorReopen(p, q, k, l)
      BY <1>1
    <2>1. authored' \subseteq Packages /\ registered' \subseteq authored'
      BY DEF AuthorReopen
    <2>2. generated' \in [Packages -> Nat] /\ sealed' \in [Packages -> Nat]
      BY DEF AuthorReopen
    <2>3. expires' \in [Packages -> Nat]
      BY DEF AuthorReopen
    <2>4. /\ predecessor' \in [Packages -> Packages]
          /\ schema' \in [Packages -> 1 .. 3]
          /\ reservation' \in [Packages -> Packages]
      BY DEF AuthorReopen
    <2>5. chosen' \in [Sessions -> authored']
      BY DEF AuthorReopen
    <2> QED
      BY <2>1, <2>2, <2>3, <2>4, <2>5 DEF AuthorReopen
  <1>2. CASE \E l \in Lifetimes : Reissue(l)
    <2> PICK l \in Lifetimes : Reissue(l)
      BY <1>2
    <2>1. Remediation \in Packages
      BY DEF Packages, Remediation
    <2>2. edition' \in [Packages -> 1 .. MaxEdition]
      BY <2>1 DEF Reissue
    <2>3. /\ generated' \in [Packages -> Nat] /\ sealed' \in [Packages -> Nat]
          /\ expires' \in [Packages -> Nat]
      BY <2>1 DEF Reissue
    <2>4. /\ registered' \subseteq authored
          /\ drifted' \subseteq authored /\ unsigned' \subseteq authored
      BY DEF Reissue
    <2> QED
      BY <2>2, <2>3, <2>4 DEF Reissue
  <1>3. CASE \E p \in Packages : Withdraw(p) \/ Drift(p) \/ Unsign(p)
    BY <1>3 DEF Withdraw, Drift, Unsign
  <1>4. CASE Upgrade \/ Tick
    BY <1>4 DEF Upgrade, Tick
  <1> QED
    BY <1>1, <1>2, <1>3, <1>4 DEF Surroundings

LEMMA TypeKept == TypeOK /\ [Next]_vars => TypeOK'
  <1> SUFFICES ASSUME TypeOK, [Next]_vars PROVE TypeOK'
    OBVIOUS
  <1>1. CASE UNCHANGED vars
    BY <1>1 DEF vars, TypeOK, ClockOK, RunsOK, TerminalsOK, PackagesOK, clock, files,
                dates, broken, markers, terminals, history
  <1> QED
    BY <1>1, TerminalTyped, SurroundingsTyped DEF Next

\* Every variable keeps its type, for any terminals, packages and lifetimes.
THEOREM OperatorTypeCorrect == Spec => []TypeOK
  BY InitTyped, TypeKept, PTL DEF Spec

-----------------------------------------------------------------------------
(* The chain of reservations.                                              *)

\* Only making a package touches the chain.
LEMMA ChainKept == TypeOK /\ ChainInv /\ [Next]_vars => ChainInv'
  <1> SUFFICES ASSUME TypeOK, ChainInv, [Next]_vars PROVE ChainInv'
    OBVIOUS
  <1>1. ASSUME NEW p \in Packages, NEW q \in Packages, NEW k \in 1 .. 3,
               NEW l \in Lifetimes, AuthorReopen(p, q, k, l)
        PROVE  ChainInv'
    <2>1. p \in Reopens /\ p \notin authored /\ q \in authored /\ reservation[q] = 0
      BY <1>1 DEF AuthorReopen
    <2>2. \A r \in Packages : r < p <=> r \in authored
      <3> TAKE r \in Packages
      <3>1. ASSUME r < p PROVE r \in authored
        <4>1. CASE r = 0
          BY <4>1 DEF TypeOK, PackagesOK, Remediation
        <4>2. CASE r # 0
          <5>1. r \in Reopens
            BY <4>2 DEF Packages, Reopens
          <5> QED
            BY <1>1, <3>1, <5>1 DEF AuthorReopen
        <4> QED
          BY <4>1, <4>2
      <3>2. ASSUME r \in authored, ~(r < p) PROVE FALSE
        <4>1. r # p
          BY <2>1, <3>2
        <4>2. p < r
          BY <3>2, <4>1 DEF Packages
        <4> QED
          BY <2>1, <3>2, <4>2 DEF ChainInv
      <3> QED
        BY <3>1, <3>2
    <2>3. q = p - 1
      <3>1. CASE q < p - 1
        <4>1. q + 1 \in authored /\ q + 1 \in Reopens
          BY <2>1, <2>2, <3>1 DEF Packages, Reopens
        <4>2. reservation[q] = q + 1
          BY <4>1 DEF ChainInv, Packages
        <4> QED
          BY <2>1, <4>2 DEF Packages
      <3> QED
        BY <2>1, <2>2, <3>1 DEF Packages, Reopens
    <2>4. \A r \in authored', t \in Packages : t < r => t \in authored'
      BY <1>1, <2>2 DEF AuthorReopen, ChainInv, TypeOK, PackagesOK
    <2>5. \A r \in authored' \cap Reopens : reservation'[r - 1] = r
      <3>1. reservation' = [reservation EXCEPT ![q] = p] /\ authored' = authored \cup {p}
        BY <1>1 DEF AuthorReopen
      <3>2. reservation'[q] = p
        BY <3>1 DEF TypeOK, PackagesOK
      <3>3. ASSUME NEW r \in authored, r \in Reopens PROVE reservation'[r - 1] = r
        <4>1. r < p /\ r - 1 \in Packages /\ r - 1 # q
          BY <2>2, <2>3, <3>3 DEF Packages, Reopens
        <4>2. reservation'[r - 1] = reservation[r - 1]
          BY <3>1, <4>1 DEF TypeOK, PackagesOK
        <4> QED
          BY <3>3, <4>2 DEF ChainInv
      <3> QED
        BY <2>3, <3>1, <3>2, <3>3
    <2> QED
      BY <2>4, <2>5 DEF ChainInv
  <1>2. CASE UNCHANGED <<authored, reservation>>
    BY <1>2 DEF ChainInv
  <1>3. ASSUME NEW s \in Sessions, Terminal(s) PROVE UNCHANGED <<authored, reservation>>
    BY <1>3, TerminalKeepsFiles DEF files
  <1>4. ASSUME \/ \E l \in Lifetimes : Reissue(l)
               \/ \E p \in Packages : Withdraw(p) \/ Drift(p) \/ Unsign(p)
               \/ Upgrade \/ Tick
               \/ UNCHANGED vars
        PROVE  UNCHANGED <<authored, reservation>>
    BY <1>4 DEF Reissue, Withdraw, Drift, Unsign, Upgrade, Tick, vars, files
  <1> QED
    BY <1>1, <1>2, <1>3, <1>4 DEF Next, Surroundings

-----------------------------------------------------------------------------
(* Terminals and the packages whose launcher they run.                     *)

\* Nobody but a terminal changes markers or terminals.
LEMMA SurroundingsKeepRuns ==
    ASSUME Surroundings \/ UNCHANGED vars
    PROVE  UNCHANGED <<markers, terminals, history>>
  BY DEF Surroundings, AuthorReopen, Reissue, Withdraw, Drift, Unsign, Upgrade, Tick, vars

\* The steps of a terminal before it becomes a launcher.
LEMMA EarlySteps ==
    ASSUME TypeOK, NEW s \in Sessions, Terminal(s),
           ~Claim(s), ~Dispatch(s), ~RemoteVerify(s), ~Finish(s), ~Kill(s)
    PROVE  /\ UNCHANGED <<markers, unfit, mutations>>
           /\ pc[s] \notin Holding /\ pc'[s] \notin Holding
           /\ \A t \in Sessions \ {s} : pc'[t] = pc[t] /\ chosen'[t] = chosen[t]
  BY DEF Terminal, SelectPackage, FirstVerify, ReviewPackage, Confirm, Reselect,
         Reverify, Rereview, Launch, Step, Check, Holding, history, markers,
         TypeOK, TerminalsOK

LEMMA LauncherKept == TypeOK /\ LauncherInv /\ [Next]_vars => LauncherInv'
  <1> SUFFICES ASSUME TypeOK, LauncherInv, [Next]_vars PROVE LauncherInv'
    OBVIOUS
  <1> USE DEF LauncherInv, Holding
  <1>1. CASE Surroundings \/ UNCHANGED vars
    BY <1>1, SurroundingsKeepRuns DEF markers, terminals
  <1>2. ASSUME NEW s \in Sessions, Terminal(s) PROVE LauncherInv'
    <2> USE <1>2 DEF TypeOK, RunsOK, TerminalsOK, PackagesOK, Step, SetRun
    <2>1. chosen[s] \in Packages
      OBVIOUS
    <2>2. CASE ~Claim(s) /\ ~Dispatch(s) /\ ~RemoteVerify(s) /\ ~Finish(s) /\ ~Kill(s)
      BY <2>2, EarlySteps DEF markers
    <2>3. CASE Claim(s)
      <3>1. CASE UNCHANGED <<consumed, run>> /\ Step(s, "idle")
        BY <2>3, <3>1 DEF Claim
      <3>2. CASE /\ consumed[chosen[s]] = 0
                 /\ consumed' = [consumed EXCEPT ![chosen[s]] = seen[s]]
                 /\ run' = [run EXCEPT ![chosen[s]] = "claimed"]
                 /\ pc' = [pc EXCEPT ![s] = "dispatch"]
        <4>1. chosen' = chosen /\ seen[s] # 0
          BY <2>3 DEF Claim
        <4>2. \A t \in Sessions : pc[t] \in Holding => chosen[t] # chosen[s]
          BY <2>1, <3>2
        <4>3. \A t \in Sessions \ {s} : pc'[t] = pc[t]
          BY <3>2
        <4>4. \A p \in Packages : consumed'[p] = 0 <=> run'[p] = "none"
          BY <2>1, <3>2, <4>1
        <4>5. \A t \in Sessions : /\ pc'[t] = "dispatch" => run'[chosen'[t]] = "claimed"
                                  /\ pc'[t] = "remote" => run'[chosen'[t]] = "dispatched"
                                  /\ pc'[t] = "mutate" => run'[chosen'[t]] = "mutating"
          BY <2>1, <3>2, <4>1, <4>2, <4>3
        <4>6. \A t, u \in Sessions :
                pc'[t] \in Holding /\ pc'[u] \in Holding /\ chosen'[t] = chosen'[u] => t = u
          BY <4>1, <4>2, <4>3
        <4> QED
          BY <4>4, <4>5, <4>6
      <3> QED
        BY <2>3, <3>1, <3>2 DEF Claim
    <2>4. CASE Dispatch(s)
      BY <2>1, <2>4 DEF Dispatch
    <2>5. CASE RemoteVerify(s)
      BY <2>1, <2>5 DEF RemoteVerify
    <2>6. CASE Finish(s)
      BY <2>1, <2>6 DEF Finish
    <2>7. CASE Kill(s)
      BY <2>1, <2>7 DEF Kill
    <2> QED
      BY <2>2, <2>3, <2>4, <2>5, <2>6, <2>7
  <1> QED
    BY <1>1, <1>2 DEF Next

-----------------------------------------------------------------------------
(* One reopen.                                                             *)

LEMMA SupersededKept ==
    TypeOK /\ ChainInv /\ LauncherInv /\ SupersededInv /\ [Next]_vars => SupersededInv'
  <1> SUFFICES ASSUME TypeOK, ChainInv, LauncherInv, SupersededInv, [Next]_vars,
                      NEW r \in Reopens, (r + 1 \in authored)'
               PROVE  Dead(r)'
    BY DEF SupersededInv
  <1> USE DEF TypeOK, ClockOK, PackagesOK, RunsOK, TerminalsOK
  <1>1. r \in Packages
    BY DEF Reopens, Packages
  <1>2. ASSUME NEW p \in Packages, NEW q \in Packages, NEW k \in 1 .. 3,
               NEW l \in Lifetimes, AuthorReopen(p, q, k, l)
        PROVE  Dead(r)'
    <2>1. run' = run /\ now' = now
      BY <1>2 DEF AuthorReopen, markers, clock
    <2>2. \A t \in Packages : t # p => expires'[t] = expires[t]
      BY <1>2 DEF AuthorReopen
    <2>3. CASE r + 1 \in authored
      <3>1. r \in authored
        BY <1>1, <2>3 DEF ChainInv, Packages
      <3> QED
        BY <1>1, <1>2, <2>1, <2>2, <2>3, <3>1 DEF AuthorReopen, SupersededInv, Dead
    <2>4. CASE r + 1 = p
      <3>1. reservation[q] = 0 /\ q \in authored /\ p \notin authored
        BY <1>2 DEF AuthorReopen
      <3>2. \A t \in Packages : t < p => t \in authored
        BY <1>2 DEF AuthorReopen, Packages, Reopens, Remediation
      <3>3. q < p
        BY <3>1 DEF ChainInv, Packages
      <3>4. q = r
        <4>1. CASE q < r
          <5> HIDE DEF TypeOK, ClockOK, PackagesOK, RunsOK, TerminalsOK
          <5>3. q \in Nat /\ r \in Nat /\ r <= MaxReopens
            BY DEF Packages, Reopens
          <5>4. q + 1 <= r
            BY <4>1, <5>3
          <5>1. q + 1 \in Packages /\ q + 1 < p /\ q + 1 \in Reopens
            BY <2>4, <5>3, <5>4 DEF Packages, Reopens
          <5>2. q + 1 \in authored
            BY <3>2, <5>1
          <5> QED
            BY <3>1, <5>1, <5>2 DEF ChainInv, Packages
        <4> QED
          BY <2>4, <3>3, <4>1 DEF Packages, Reopens
      <3>5. run[q] = "aborted" \/ (expires[q] <= now /\ consumed[q] = 0)
        BY <1>2, <3>4 DEF AuthorReopen, LineageAdmits, PredecessorAdmits,
                          ConsumedPredecessor, UnconsumedPredecessor, Reopens, Remediation
      <3> QED
        BY <1>1, <2>1, <2>2, <2>4, <3>4, <3>5 DEF Dead, LauncherInv, Reopens
    <2> QED
      BY <1>2, <2>3, <2>4 DEF AuthorReopen
  <1>3. CASE Upgrade \/ Tick \/ (\E p \in Packages : Withdraw(p) \/ Drift(p) \/ Unsign(p)) \/ UNCHANGED vars
    <2>1. UNCHANGED <<authored, run, expires>> /\ (now' = now \/ now' = now + 1)
      BY <1>3 DEF Upgrade, Tick, Withdraw, Drift, Unsign, markers, dates, vars, clock, files
    <2>2. Dead(r)
      BY <2>1 DEF SupersededInv
    <2>3. now <= now' /\ expires[r] \in Nat /\ now \in Nat
      BY <1>1, <2>1
    <2> QED
      BY <2>1, <2>2, <2>3 DEF Dead
  <1>4. CASE \E l \in Lifetimes : Reissue(l)
    BY <1>1, <1>4 DEF Reissue, SupersededInv, Dead, markers, clock, Reopens, Remediation
  <1>5. ASSUME NEW s \in Sessions, Terminal(s) PROVE Dead(r)'
    <2>1. Dead(r) /\ UNCHANGED <<expires, now>>
      BY <1>5, TerminalKeepsFiles DEF SupersededInv, files, dates, clock
    <2>2. chosen[s] \in Packages
      OBVIOUS
    <2>3. CASE ~Claim(s) /\ ~Dispatch(s) /\ ~RemoteVerify(s) /\ ~Finish(s) /\ ~Kill(s)
      BY <1>5, <2>1, <2>3, EarlySteps DEF markers, Dead
    <2> USE <1>1, <2>1, <2>2 DEF SetRun, Dead, LauncherInv
    <2>4. CASE Claim(s)
      BY <2>4 DEF Claim
    <2>5. CASE Dispatch(s)
      BY <2>5 DEF Dispatch, VerifyCurrentDispatch, Admissible, Fresh
    <2>6. CASE RemoteVerify(s)
      BY <2>6 DEF RemoteVerify
    <2>7. CASE Finish(s)
      BY <2>7 DEF Finish
    <2>8. CASE Kill(s)
      BY <2>8 DEF Kill
    <2> QED
      BY <1>5, <2>3, <2>4, <2>5, <2>6, <2>7, <2>8
  <1> QED
    BY <1>2, <1>3, <1>4, <1>5 DEF Next, Surroundings

LEMMA MutationKept ==
    TypeOK /\ LauncherInv /\ MutationInv /\ [Next]_vars => MutationInv'
  <1> SUFFICES ASSUME TypeOK, LauncherInv, MutationInv, [Next]_vars PROVE MutationInv'
    OBVIOUS
  <1> USE DEF MutationInv, TypeOK, PackagesOK, RunsOK, TerminalsOK
  <1>1. authored \subseteq authored'
    <2>1. ASSUME NEW s \in Sessions, Terminal(s) PROVE authored' = authored
      BY <2>1, TerminalKeepsFiles DEF files
    <2> QED
      BY <2>1 DEF Next, Surroundings, AuthorReopen, Reissue, Withdraw, Drift, Unsign, Upgrade,
                  Tick, vars, files
  <1>2. CASE Surroundings \/ UNCHANGED vars
    BY <1>1, <1>2, SurroundingsKeepRuns DEF markers, history
  <1>3. ASSUME NEW s \in Sessions, Terminal(s) PROVE MutationInv'
    <2> USE <1>3
    <2>1. chosen[s] \in Packages /\ \A m \in mutations : m[2] \in Packages
      OBVIOUS
    <2>2. CASE ~Claim(s) /\ ~Dispatch(s) /\ ~RemoteVerify(s) /\ ~Finish(s) /\ ~Kill(s)
      BY <1>1, <2>2, EarlySteps DEF markers
    <2> USE <1>1, <2>1 DEF SetRun, LauncherInv
    <2>3. CASE Claim(s)
      BY <2>3 DEF Claim
    <2>4. CASE Dispatch(s)
      BY <2>4 DEF Dispatch, history
    <2>5. CASE RemoteVerify(s)
      <3>1. \A m \in mutations : m[2] # chosen[s]
        BY <2>5 DEF RemoteVerify
      <3>2. CASE /\ run' = [run EXCEPT ![chosen[s]] = "mutating"]
                 /\ mutations' = mutations \cup {<<s, chosen[s]>>}
        BY <2>1, <3>1, <3>2
      <3>3. CASE run' = [run EXCEPT ![chosen[s]] = "aborted"] /\ UNCHANGED mutations
        BY <2>1, <3>1, <3>3
      <3> QED
        BY <2>5, <3>2, <3>3 DEF RemoteVerify
    <2>6. CASE Finish(s)
      BY <2>6 DEF Finish, history
    <2>7. CASE Kill(s)
      BY <2>7 DEF Kill, history
    <2> QED
      BY <2>2, <2>3, <2>4, <2>5, <2>6, <2>7
  <1> QED
    BY <1>2, <1>3 DEF Next

LEMMA ChainMeansOneReopen ==
    ASSUME TypeOK, ChainInv, SupersededInv, MutationInv
    PROVE  AtMostOneReopen
  <1> SUFFICES ASSUME NEW m \in mutations, NEW n \in mutations,
                      m[2] \in Reopens <=> n[2] \in Reopens
               PROVE  m = n
    BY DEF AtMostOneReopen
  <1>1. m[2] \in authored /\ n[2] \in authored /\ ~Dead(m[2]) /\ ~Dead(n[2])
    BY DEF MutationInv, Dead
  <1>2. m[2] \in Packages /\ n[2] \in Packages
    BY <1>1 DEF TypeOK, PackagesOK
  <1>3. ASSUME NEW a \in Packages, NEW b \in authored, a \in Reopens, a < b
        PROVE  Dead(a)
    <2>1. b \in Packages
      BY DEF TypeOK, PackagesOK
    <2>2. a + 1 \in authored
      BY <1>3, <2>1 DEF ChainInv, Packages, Reopens
    <2> QED
      BY <1>3, <2>2 DEF SupersededInv
  <1>4. m[2] = n[2]
    BY <1>1, <1>2, <1>3 DEF Packages, Reopens
  <1> QED
    BY <1>4 DEF MutationInv

\* However many terminals, packages and expiries there are, at most one reopen
\* of the lineage, and one run of the remediation, begins to change the site.
THEOREM OneReopen == Spec => []AtMostOneReopen
  <1> DEFINE Inv == TypeOK /\ ChainInv /\ LauncherInv /\ SupersededInv /\ MutationInv
  <1>1. Init => Inv
    <2> SUFFICES ASSUME Init PROVE Inv
      OBVIOUS
    <2>1. ChainInv /\ SupersededInv
      BY DEF Init, ChainInv, SupersededInv, Packages, Reopens, Remediation
    <2>2. LauncherInv /\ MutationInv
      BY DEF Init, LauncherInv, MutationInv, Holding
    <2> QED
      BY <2>1, <2>2, InitTyped
  <1>2. Inv /\ [Next]_vars => Inv'
    BY TypeKept, ChainKept, LauncherKept, SupersededKept, MutationKept
  <1>3. Inv => AtMostOneReopen
    BY ChainMeansOneReopen
  <1> QED
    BY <1>1, <1>2, <1>3, PTL DEF Spec

-----------------------------------------------------------------------------
(* What a terminal was shown, against what the files hold now.             *)

LEMMA SealKept == TypeOK /\ SealInv /\ [Next]_vars => SealInv'
  <1> SUFFICES ASSUME TypeOK, SealInv, [Next]_vars PROVE SealInv'
    OBVIOUS
  <1> USE DEF SealInv, TypeOK, ClockOK, PackagesOK
  <1>1. ASSUME NEW s \in Sessions, Terminal(s) PROVE SealInv'
    BY <1>1, TerminalKeepsFiles DEF files, dates, clock
  <1>2. CASE Surroundings
    <2>1. ASSUME NEW p \in Packages, NEW q \in Packages, NEW k \in 1 .. 3,
                 NEW l \in Lifetimes, AuthorReopen(p, q, k, l)
          PROVE  SealInv'
      BY <2>1 DEF AuthorReopen, clock
    <2>2. ASSUME NEW l \in Lifetimes, Reissue(l) PROVE SealInv'
      BY <2>2 DEF Reissue, clock
    <2>3. CASE Upgrade \/ Tick \/ \E p \in Packages : Withdraw(p) \/ Drift(p) \/ Unsign(p)
      BY <2>3 DEF Upgrade, Tick, Withdraw, Drift, Unsign, clock, files, dates
    <2> QED
      BY <1>2, <2>1, <2>2, <2>3 DEF Surroundings
  <1>3. CASE UNCHANGED vars
    BY <1>3 DEF vars, files, dates, clock
  <1> QED
    BY <1>1, <1>2, <1>3 DEF Next

\* The editions of packages only grow.
LEMMA EditionsGrow ==
    ASSUME TypeOK, [Next]_vars
    PROVE  \A p \in Packages : edition[p] <= edition'[p]
  <1> USE DEF TypeOK, PackagesOK
  <1>1. ASSUME NEW s \in Sessions, Terminal(s) PROVE edition' = edition
    BY <1>1, TerminalKeepsFiles DEF files, dates
  <1>2. ASSUME NEW l \in Lifetimes, Reissue(l)
        PROVE  \A p \in Packages : edition[p] <= edition'[p]
    BY <1>2 DEF Reissue
  <1>3. ASSUME \/ \E p, q \in Packages, k \in 1 .. 3, l \in Lifetimes : AuthorReopen(p, q, k, l)
               \/ \E p \in Packages : Withdraw(p) \/ Drift(p) \/ Unsign(p)
               \/ Upgrade \/ Tick \/ UNCHANGED vars
        PROVE  edition' = edition
    BY <1>3 DEF AuthorReopen, Withdraw, Drift, Unsign, Upgrade, Tick, vars, files, dates
  <1> QED
    BY <1>1, <1>2, <1>3 DEF Next, Surroundings

LEMMA SeenKept == TypeOK /\ LauncherInv /\ SeenInv /\ [Next]_vars => SeenInv'
  <1> SUFFICES ASSUME TypeOK, LauncherInv, SeenInv, [Next]_vars PROVE SeenInv'
    OBVIOUS
  <1> USE DEF SeenInv, Holding, TypeOK, PackagesOK, RunsOK, TerminalsOK
  <1>1. edition' \in [Packages -> 1 .. MaxEdition]
    BY TypeKept
  <1>2. \A p \in Packages : edition[p] <= edition'[p]
    BY EditionsGrow
  <1>3. CASE Surroundings \/ UNCHANGED vars
    <2>1. UNCHANGED <<consumed, pc, chosen, seen>>
      BY <1>3, SurroundingsKeepRuns DEF markers, terminals
    <2>2. \A s \in Sessions : chosen[s] \in Packages
      OBVIOUS
    <2> QED
      BY <1>1, <1>2, <2>1, <2>2
  <1>4. ASSUME NEW s \in Sessions, Terminal(s) PROVE SeenInv'
    <2>1. edition' = edition /\ chosen[s] \in Packages
      BY <1>4, TerminalKeepsFiles DEF files, dates
    <2>2. CASE SelectPackage(s)
      BY <2>1, <2>2 DEF SelectPackage, Step, markers
    <2>3. CASE ReviewPackage(s)
      BY <2>1, <2>3 DEF ReviewPackage, Check, Step, markers
    <2>4. CASE FirstVerify(s) \/ Confirm(s) \/ Reselect(s) \/ Reverify(s) \/ Rereview(s)
                 \/ Launch(s)
      BY <2>1, <2>4 DEF FirstVerify, Confirm, Reselect, Reverify, Rereview, Launch, Check,
                        Step, markers
    <2>5. CASE Claim(s)
      <3>1. CASE UNCHANGED consumed /\ Step(s, "idle")
        BY <2>1, <2>5, <3>1 DEF Claim, Step
      <3>2. CASE /\ consumed[chosen[s]] = 0
                 /\ consumed' = [consumed EXCEPT ![chosen[s]] = seen[s]]
                 /\ pc' = [pc EXCEPT ![s] = "dispatch"]
        <4>1. UNCHANGED <<chosen, seen>> /\ pc[s] = "gate"
          BY <2>5 DEF Claim
        <4>2. \A t \in Sessions \ {s} : pc[t] \in Holding => chosen[t] # chosen[s]
          BY <2>1, <3>2
        <4>3. seen[s] <= edition[chosen[s]]
          BY <4>1
        <4>4. \A p \in Packages : consumed'[p] <= edition'[p]
          BY <2>1, <3>2, <4>3
        <4>5. \A t \in Sessions : pc'[t] \in Holding => consumed'[chosen'[t]] = seen'[t]
          BY <2>1, <3>2, <4>1, <4>2
        <4>6. \A t \in Sessions :
                pc'[t] \notin {"idle", "verify", "review"} => seen'[t] <= edition'[chosen'[t]]
          BY <2>1, <3>2, <4>1
        <4> QED
          BY <4>4, <4>5, <4>6
      <3> QED
        BY <2>5, <3>1, <3>2 DEF Claim, Step
    <2>6. CASE Dispatch(s) \/ RemoteVerify(s) \/ Finish(s) \/ Kill(s)
      BY <2>1, <2>6 DEF Dispatch, RemoteVerify, Finish, Kill, Step
    <2> QED
      BY <1>4, <2>2, <2>3, <2>4, <2>5, <2>6 DEF Terminal
  <1> QED
    BY <1>3, <1>4 DEF Next

-----------------------------------------------------------------------------
(* Too late to be claimed.                                                 *)

\* What is unfit stays unfit, whatever the surroundings do.
LEMMA UnfitStays ==
    ASSUME TypeOK, SeenInv, SealInv, Surroundings \/ UNCHANGED vars,
           NEW p \in authored, Unfit(p, consumed[p])
    PROVE  Unfit(p, consumed[p])'
  <1> USE DEF TypeOK, ClockOK, PackagesOK, RunsOK
  <1>1. p \in Packages /\ consumed' = consumed
    BY SurroundingsKeepRuns DEF markers
  <1>2. ASSUME NEW r \in Packages, NEW q \in Packages, NEW k \in 1 .. 3,
               NEW l \in Lifetimes, AuthorReopen(r, q, k, l)
        PROVE  Unfit(p, consumed[p])'
    <2>1. r # p /\ UNCHANGED <<now, product, edition, drifted>>
      BY <1>2 DEF AuthorReopen, clock, broken
    <2>2. expires'[p] = expires[p] /\ sealed'[p] = sealed[p]
      BY <1>1, <1>2, <2>1 DEF AuthorReopen
    <2> QED
      BY <1>1, <2>1, <2>2 DEF Unfit, Intact
  <1>3. ASSUME NEW l \in Lifetimes, Reissue(l) PROVE Unfit(p, consumed[p])'
    <2>1. CASE p = Remediation
      <3>1. edition'[p] = edition[p] + 1 /\ consumed[p] <= edition[p]
        BY <1>1, <1>3, <2>1 DEF Reissue, SeenInv
      <3>2. edition'[p] # consumed[p]
        BY <1>1, <3>1
      <3> QED
        BY <1>1, <3>2 DEF Unfit
    <2>2. CASE p # Remediation
      <3>1. UNCHANGED <<now, product>> /\ (p \in drifted <=> p \in drifted')
        BY <1>3, <2>2 DEF Reissue, clock
      <3>2. /\ edition'[p] = edition[p] /\ expires'[p] = expires[p]
            /\ sealed'[p] = sealed[p]
        BY <1>1, <1>3, <2>2 DEF Reissue
      <3> QED
        BY <1>1, <3>1, <3>2 DEF Unfit, Intact
    <2> QED
      BY <2>1, <2>2
  <1>4. CASE Upgrade \/ Tick \/ (\E r \in Packages : Withdraw(r) \/ Drift(r) \/ Unsign(r)) \/ UNCHANGED vars
    <2>1. UNCHANGED dates /\ drifted \subseteq drifted'
      BY <1>4 DEF Upgrade, Tick, Withdraw, Drift, Unsign, vars, files, broken
    <2>2. now <= now' /\ now' \in Nat /\ (product' = product \/ product' = product + 1)
      BY <1>4 DEF Upgrade, Tick, Withdraw, Drift, Unsign, vars, clock
    <2>3. CASE ~(now < expires[p])
      BY <1>1, <2>1, <2>2, <2>3 DEF Unfit, dates
    <2>4. CASE p \in drifted
      BY <2>1, <2>4 DEF Unfit, Intact
    <2>5. CASE sealed[p] # product
      <3>1. sealed[p] < product
        BY <1>1, <2>5 DEF SealInv
      <3>2. sealed'[p] # product'
        BY <1>1, <2>1, <2>2, <3>1 DEF dates
      <3> QED
        BY <3>2 DEF Unfit, Intact
    <2>6. CASE edition[p] # consumed[p]
      BY <1>1, <2>1, <2>6 DEF Unfit, dates
    <2> QED
      BY <2>3, <2>4, <2>5, <2>6 DEF Unfit, Intact
  <1> QED
    BY <1>2, <1>3, <1>4 DEF Surroundings

LEMMA UnfitKept ==
    TypeOK /\ LauncherInv /\ SeenInv /\ SealInv /\ UnfitInv /\ [Next]_vars => UnfitInv'
  <1> SUFFICES ASSUME TypeOK, LauncherInv, SeenInv, SealInv, UnfitInv, [Next]_vars
               PROVE  UnfitInv'
    OBVIOUS
  <1> USE DEF UnfitInv
  <1>1. CASE Surroundings \/ UNCHANGED vars
    <2>1. UNCHANGED <<unfit, run>>
      BY <1>1, SurroundingsKeepRuns DEF markers, history
    <2>2. authored \subseteq authored'
      BY <1>1 DEF Surroundings, AuthorReopen, Reissue, Withdraw, Drift, Unsign, Upgrade, Tick, vars,
                  files
    <2> QED
      BY <1>1, <2>1, <2>2, UnfitStays
  <1>2. ASSUME NEW s \in Sessions, Terminal(s) PROVE UnfitInv'
    <2> USE DEF TypeOK, PackagesOK, RunsOK, TerminalsOK, LauncherInv, Holding
    <2>1. chosen[s] \in Packages /\ chosen[s] \in authored
      BY <1>2
    <2>2. UNCHANGED <<authored, drifted, now, product, edition, expires, sealed>>
      BY <1>2, TerminalKeepsFiles DEF files, dates, broken, clock
    <2>3. \A p, e : Unfit(p, e)' <=> Unfit(p, e)
      BY <2>2 DEF Unfit, Intact
    <2>4. \A p \in unfit : p \in Packages /\ consumed[p] # 0
      OBVIOUS
    <2>5. CASE ~Claim(s) /\ ~Dispatch(s) /\ ~RemoteVerify(s) /\ ~Finish(s) /\ ~Kill(s)
      <3>1. UNCHANGED <<unfit, run, consumed>>
        BY <1>2, <2>5, EarlySteps DEF markers
      <3> QED
        BY <2>2, <3>1 DEF Unfit, Intact
    <2>6. CASE Claim(s)
      <3>1. CASE UNCHANGED <<consumed, run, unfit>>
        BY <2>2, <3>1 DEF Unfit, Intact
      <3>2. CASE /\ consumed[chosen[s]] = 0
                 /\ consumed' = [consumed EXCEPT ![chosen[s]] = seen[s]]
                 /\ run' = [run EXCEPT ![chosen[s]] = "claimed"]
                 /\ unfit' = IF Unfit(chosen[s], seen[s]) THEN unfit \cup {chosen[s]}
                             ELSE unfit
        <4>1. consumed'[chosen[s]] = seen[s] /\ run'[chosen[s]] = "claimed"
          BY <2>1, <3>2
        <4>2. \A p \in unfit : /\ p # chosen[s]
                               /\ consumed'[p] = consumed[p] /\ run'[p] = run[p]
          BY <2>4, <3>2
        <4> QED
          BY <2>1, <2>2, <3>2, <4>1, <4>2 DEF Unfit, Intact
      <3> QED
        BY <2>6, <3>1, <3>2 DEF Claim, SetRun
    <2>7. CASE Dispatch(s)
      <3>1. UNCHANGED <<consumed, unfit>> /\ pc[s] = "dispatch"
        BY <2>7 DEF Dispatch, history
      <3>2. CASE VerifyCurrentDispatch(chosen[s], seen[s])
        <4>1. ~Unfit(chosen[s], consumed[chosen[s]])
          BY <3>2 DEF VerifyCurrentDispatch, Admissible, Fresh, Intact, Unfit
        <4>2. chosen[s] \notin unfit
          BY <4>1
        <4>3. \A p \in unfit : run'[p] = run[p]
          BY <2>4, <2>7, <4>2 DEF Dispatch, SetRun
        <4> QED
          BY <2>2, <3>1, <4>3 DEF Unfit, Intact
      <3>3. CASE run' = [run EXCEPT ![chosen[s]] = "aborted"]
        BY <2>1, <2>2, <2>4, <3>1, <3>3 DEF Unfit, Intact
      <3> QED
        BY <2>7, <3>2, <3>3 DEF Dispatch, SetRun
    <2>8. CASE RemoteVerify(s) \/ Finish(s)
      <3>1. UNCHANGED <<consumed, unfit>> /\ run[chosen[s]] \in {"dispatched", "mutating"}
        BY <2>8 DEF RemoteVerify, Finish, history
      <3>2. \A p \in unfit : run'[p] = run[p]
        BY <2>1, <2>4, <2>8, <3>1 DEF RemoteVerify, Finish, SetRun
      <3> QED
        BY <2>2, <3>1, <3>2 DEF Unfit, Intact
    <2>9. CASE Kill(s)
      <3>1. UNCHANGED <<consumed, unfit>>
        BY <2>9 DEF Kill, history
      <3>2. \A p \in unfit : run'[p] \in {"claimed", "aborted"}
        BY <2>1, <2>4, <2>9 DEF Kill, SetRun
      <3> QED
        BY <2>2, <3>1, <3>2 DEF Unfit, Intact
    <2> QED
      BY <2>5, <2>6, <2>7, <2>8, <2>9
  <1> QED
    BY <1>1, <1>2 DEF Next

LEMMA UnfitMeansNoMutation == UnfitInv => UnfitNeverMutates
  BY DEF UnfitInv, UnfitNeverMutates

\* The launcher's inductive invariant holds of every behaviour.
LEMMA LaunchersSound == Spec => [](TypeOK /\ LauncherInv /\ SeenInv /\ SealInv)
  <1>1. Init => TypeOK /\ LauncherInv /\ SeenInv /\ SealInv
    <2> SUFFICES ASSUME Init PROVE LauncherInv /\ SeenInv /\ SealInv
      BY InitTyped
    <2>1. Remediation \in Packages
      BY DEF Remediation, Packages
    <2>2. LauncherInv
      BY DEF Init, LauncherInv, Holding
    <2>3. SeenInv
      BY <2>1 DEF Init, SeenInv, Holding
    <2> QED
      BY <2>2, <2>3 DEF Init, SealInv
  <1>2. TypeOK /\ LauncherInv /\ SeenInv /\ SealInv /\ [Next]_vars
            => (TypeOK /\ LauncherInv /\ SeenInv /\ SealInv)'
    BY TypeKept, LauncherKept, SeenKept, SealKept
  <1> QED
    BY <1>1, <1>2, PTL DEF Spec

\* A package claimed after it expired, lost a bound byte or its Product runtime, or was
\* issued anew changes nothing, whatever the terminals do at the same time.
THEOREM UnfitPackagesStayHarmless == Spec => []UnfitNeverMutates
  <1>1. Init => UnfitInv
    BY DEF Init, UnfitInv
  <1> QED
    BY <1>1, LaunchersSound, UnfitKept, UnfitMeansNoMutation, PTL DEF Spec

-----------------------------------------------------------------------------
(* What the registry had dropped when the human confirmed it.              *)

LEMMA RevokedKept == TypeOK /\ SeenInv /\ RevokedInv /\ [Next]_vars => RevokedInv'
  <1> SUFFICES ASSUME TypeOK, SeenInv, RevokedInv, [Next]_vars PROVE RevokedInv'
    OBVIOUS
  <1> USE DEF TypeOK, PackagesOK, TerminalsOK
  <1>1. \A s \in Sessions : chosen[s] \in authored /\ chosen[s] \in Packages
    OBVIOUS
  <1>2. CASE Surroundings \/ UNCHANGED vars
    <2>1. UNCHANGED <<pc, chosen, seen, revoked>>
      BY <1>2, SurroundingsKeepRuns DEF terminals, history
    <2>2. edition' \in [Packages -> 1 .. MaxEdition] /\ \A p \in Packages : edition[p] <= edition'[p]
      BY TypeKept, EditionsGrow
    <2>3. \A s \in revoked : pc[s] = "rereview" => seen[s] < edition'[chosen[s]]
      BY <1>1, <2>2 DEF RevokedInv
    <2>5. ASSUME NEW s \in Sessions, chosen[s] \in unsigned, seen[s] <= edition[chosen[s]]
          PROVE  seen[s] < edition'[chosen[s]] \/ chosen[s] \in unsigned'
      <3>1. CASE \E l \in Lifetimes : Reissue(l)
        <4>1. CASE chosen[s] = Remediation
          <5>1. edition'[chosen[s]] = edition[chosen[s]] + 1
            BY <1>1, <3>1, <4>1 DEF Reissue
          <5> QED
            BY <1>1, <2>5, <5>1
        <4>2. CASE chosen[s] # Remediation
          BY <2>5, <3>1, <4>2 DEF Reissue
        <4> QED
          BY <4>1, <4>2
      <3>2. CASE ~\E l \in Lifetimes : Reissue(l)
        <4>1. unsigned \subseteq unsigned'
          BY <1>2, <3>2 DEF Surroundings, AuthorReopen, Withdraw, Drift, Unsign, Upgrade,
                            Tick, vars, files, broken
        <4> QED
          BY <2>5, <4>1
      <3> QED
        BY <3>1, <3>2
    <2>6. ASSUME NEW s \in revoked, pc[s] = "reverify"
          PROVE  seen[s] < edition'[chosen[s]] \/ chosen[s] \in unsigned'
      <3>1. s \in Sessions /\ seen[s] <= edition[chosen[s]]
        BY <2>6 DEF SeenInv
      <3>2. CASE seen[s] < edition[chosen[s]]
        BY <1>1, <2>2, <3>1, <3>2
      <3>3. CASE chosen[s] \in unsigned
        BY <2>5, <3>1, <3>3
      <3> QED
        BY <2>6, <3>2, <3>3 DEF RevokedInv
    <2>4. ASSUME NEW s \in revoked, pc[s] = "reselect" PROVE ~Standing(s)'
      <3>1. s \in Sessions /\ ~Standing(s) /\ seen[s] <= edition[chosen[s]]
        BY <2>4 DEF RevokedInv, SeenInv
      <3>4. CASE chosen[s] \in unsigned
        <4>1. seen[s] < edition'[chosen[s]] \/ chosen[s] \in unsigned'
          BY <2>5, <3>1, <3>4
        <4>2. seen[s] < edition'[chosen[s]] => edition'[chosen[s]] # seen[s]
          BY <1>1, <2>2, <3>1
        <4> QED
          BY <2>1, <4>1, <4>2 DEF Standing, Selected
      <3>2. CASE edition[chosen[s]] # seen[s]
        BY <1>1, <2>1, <2>2, <3>1, <3>2 DEF Standing, Selected
      <3>3. CASE chosen[s] \notin registered
        <4>1. ASSUME NEW p \in Packages, NEW q \in Packages, NEW k \in 1 .. 3,
                     NEW l \in Lifetimes, AuthorReopen(p, q, k, l)
              PROVE  chosen[s] \notin registered'
          <5>1. p \notin authored /\ registered' = (registered \ Reopens) \cup {p}
            BY <4>1 DEF AuthorReopen
          <5>2. chosen[s] # p
            BY <1>1, <3>1, <5>1
          <5> QED
            BY <3>3, <5>1, <5>2
        <4>2. ASSUME NEW l \in Lifetimes, Reissue(l)
              PROVE  chosen[s] \notin registered' \/ edition'[chosen[s]] # seen[s]
          <5>1. CASE chosen[s] = Remediation
            <6>1. edition'[chosen[s]] = edition[chosen[s]] + 1
              BY <1>1, <3>1, <4>2, <5>1 DEF Reissue
            <6>2. seen[s] \in Nat /\ edition[chosen[s]] \in Nat
              BY <1>1, <3>1
            <6> QED
              BY <3>1, <6>1, <6>2
          <5>2. CASE chosen[s] # Remediation
            BY <3>3, <4>2, <5>2 DEF Reissue
          <5> QED
            BY <5>1, <5>2
        <4>3. CASE Upgrade \/ Tick \/ (\E p \in Packages : Withdraw(p) \/ Drift(p) \/ Unsign(p)) \/ UNCHANGED vars
          <5>1. registered' \subseteq registered
            BY <4>3 DEF Upgrade, Tick, Withdraw, Drift, Unsign, vars, files
          <5> QED
            BY <2>1, <3>3, <5>1 DEF Standing, Selected
        <4> QED
          BY <1>2, <2>1, <4>1, <4>2, <4>3 DEF Surroundings, Standing, Selected
      <3> QED
        BY <3>1, <3>2, <3>3, <3>4 DEF Standing, Selected
    <2> QED
      BY <2>1, <2>3, <2>4, <2>6 DEF RevokedInv
  <1>3. ASSUME NEW s \in Sessions, Terminal(s) PROVE RevokedInv'
    <2>1. UNCHANGED <<registered, edition, unsigned>>
      BY <1>3, TerminalKeepsFiles DEF files, dates, broken
    <2> USE <2>1 DEF RevokedInv, Standing, Selected, Step, Check
    <2>2. CASE SelectPackage(s)
      BY <2>2 DEF SelectPackage
    <2>3. CASE FirstVerify(s) \/ Launch(s) \/ ReviewPackage(s)
      BY <2>3 DEF FirstVerify, Launch, ReviewPackage, history
    <2>4. CASE Confirm(s)
      BY <2>4 DEF Confirm
    <2>5. CASE Reselect(s)
      <3>1. /\ pc[s] = "reselect" /\ pc' = [pc EXCEPT ![s] = pc'[s]]
            /\ pc'[s] \in {"reverify", "idle"}
            /\ pc'[s] = "reverify" => chosen[s] \in registered
            /\ UNCHANGED <<chosen, seen, revoked>>
        BY <2>5 DEF Reselect, history
      <3>2. s \in revoked /\ chosen[s] \in registered
                => edition[chosen[s]] # seen[s] \/ chosen[s] \in unsigned
        BY <3>1
      <3>3. edition[chosen[s]] # seen[s] => seen[s] < edition[chosen[s]]
        <4>1. seen[s] <= edition[chosen[s]]
          BY <3>1 DEF SeenInv
        <4>2. seen[s] \in Nat /\ edition[chosen[s]] \in Nat
          BY <1>1
        <4> HIDE DEF TypeOK
        <4> QED
          BY <4>1, <4>2
      <3>4. \A t \in revoked \ {s} : pc'[t] = pc[t]
        BY <3>1
      <3> QED
        BY <3>1, <3>2, <3>3, <3>4
    <2>6. CASE Reverify(s)
      BY <2>6 DEF Reverify, Signed, history
    <2>7. CASE Rereview(s)
      <3>1. pc[s] = "rereview" /\ edition[chosen[s]] \in Nat /\ seen[s] \in Nat
        BY <1>1, <2>7 DEF Rereview
      <3>2. s \in revoked => edition[chosen[s]] # seen[s]
        BY <3>1
      <3> QED
        BY <2>7, <3>2 DEF Rereview, history
    <2>8. CASE Claim(s) \/ Dispatch(s) \/ RemoteVerify(s) \/ Finish(s) \/ Kill(s)
      BY <2>8 DEF Claim, Dispatch, RemoteVerify, Finish, Kill, history
    <2> QED
      BY <1>3, <2>2, <2>3, <2>4, <2>5, <2>6, <2>7, <2>8 DEF Terminal
  <1> QED
    BY <1>2, <1>3 DEF Next

LEMMA RevokedMeansNoLaunch == RevokedInv => RevokedNeverLaunches
  BY DEF RevokedInv, RevokedNeverLaunches

\* A package withdrawn, superseded, issued anew or left without its signature
\* before its human confirmed it is launched by no terminal.
THEOREM RevokedPackagesStayIdle == Spec => []RevokedNeverLaunches
  <1>1. Init => RevokedInv
    BY DEF Init, RevokedInv
  <1> QED
    BY <1>1, LaunchersSound, RevokedKept, RevokedMeansNoLaunch, PTL DEF Spec

=============================================================================
