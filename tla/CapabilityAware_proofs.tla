------------------------ MODULE CapabilityAware_proofs ------------------------
(***************************************************************************)
(* Every Admit is undone by exactly one Release, and no pool or type is    *)
(* overcommitted, for any number of tasks, pools and types and any word    *)
(* size. The invariants are inductive together: exact accounting makes     *)
(* Release subtract what it should, capacity keeps the sums from wrapping. *)
(*                                                                         *)
(* The gateway's eligible and the node's Admit compute the same thing in   *)
(* different ways: one saturates step by step, the other adds and          *)
(* subtracts modulo the word. They agree in every state the node can       *)
(* reach, because admission keeps the node within its capacity; so a       *)
(* refusal of a chosen task can only come from a stale report.             *)
(***************************************************************************)
EXTENDS CapabilityAware, SchedulerLemmas

-------------------------------------------------------------------------------
(***************************************************************************)
(* The invariant of the node, preserved by every action.                   *)
(***************************************************************************)

Done == {t \in Tasks : scope[t] \in {"released", "destroyed"}}

\* The inductive invariant: the checked properties, and that only finitely many
\* tasks were ever admitted.
IInv ==
  /\ TypeOK
  /\ IsFiniteSet(Held) /\ IsFiniteSet(Done)
  /\ UsageIsHeldScopes
  /\ NeverOvercommitted
  /\ OneWakeupPerRelease

\* The initial state satisfies the inductive invariant.
LEMMA InitIInv == Init => IInv
<1> SUFFICES ASSUME Init PROVE IInv
  OBVIOUS
<1>1. Held = {} /\ Done = {}
  BY DEF Init, Held, Done
<1>2. /\ NoUsage \in AdmissionStates
      /\ AccountsFor(NoUsage, {})
      /\ WithinCapacity(Capabilities, NoUsage)
  BY NoUsageExact, CapabilitiesAssumption
<1>3. TypeOK
  BY <1>2 DEF Init, TypeOK, ScopeStates
<1>4. OneWakeupPerRelease
  BY <1>1, FS_EmptySet DEF Init, OneWakeupPerRelease, Done
<1> QED
  BY <1>1, <1>2, <1>3, <1>4, FS_EmptySet
     DEF Init, IInv, UsageIsHeldScopes, NeverOvercommitted

\* Admitting or refusing a task preserves it.
LEMMA RunTaskIInv ==
  ASSUME IInv, NEW t \in Tasks, RunTask(t)
  PROVE  IInv'
<1> USE DEF IInv
<1>1. CASE /\ "OK" \in AdmitStatuses(Capabilities, adm, t)
           /\ adm' = Reserve(adm, t)
           /\ scope' = [scope EXCEPT ![t] = "held"]
           /\ UNCHANGED <<refused, notified>>
  <2>1. t \notin Held /\ Held' = Held \cup {t} /\ Done' = Done
    BY <1>1 DEF RunTask, Held, Done, TypeOK, ScopeStates
  <2>2. adm \in AdmissionStates /\ Held \in SUBSET Tasks
    BY DEF TypeOK, Held
  <2>3. AccountsFor(Reserve(adm, t), Held \cup {t})
    BY <1>1, <2>1, <2>2, ReserveAccounts, CapabilitiesAssumption
       DEF UsageIsHeldScopes, NeverOvercommitted
  <2>4. Reserve(adm, t) \in AdmissionStates /\ WithinCapacity(Capabilities, Reserve(adm, t))
    BY <1>1, <2>2, ReserveExact, CapabilitiesAssumption DEF NeverOvercommitted
  <2>5. TypeOK'
    BY <1>1, <2>4 DEF TypeOK, ScopeStates
  <2>6. IsFiniteSet(Held')
    BY <2>1, FS_AddElement
  <2>7. OneWakeupPerRelease'
    BY <1>1, <2>1 DEF OneWakeupPerRelease, Done
  <2>8. UsageIsHeldScopes'
    BY <1>1, <2>1, <2>3 DEF UsageIsHeldScopes
  <2>9. NeverOvercommitted'
    BY <1>1, <2>4 DEF NeverOvercommitted
  <2> QED
    BY <2>1, <2>5, <2>6, <2>7, <2>8, <2>9
<1>2. CASE /\ refused' = refused \cup {t}
           /\ UNCHANGED <<adm, scope, notified>>
  BY <1>2 DEF TypeOK, Held, Done, UsageIsHeldScopes, NeverOvercommitted, OneWakeupPerRelease
<1> QED
  BY <1>1, <1>2 DEF RunTask

\* Releasing a scope, by its sender's terminal result or its destructor, and
\* doing so again, preserves it.
LEMMA ReleaseIInv ==
  ASSUME IInv, NEW t \in Tasks, NEW s \in {"released", "destroyed"},
         scope[t] \in {"held", "released"}, ScopeRelease(t),
         scope' = [scope EXCEPT ![t] = s], UNCHANGED refused
  PROVE  IInv'
<1> USE DEF IInv
<1>0. adm \in AdmissionStates /\ Held \in SUBSET Tasks /\ notified \in Nat
  BY DEF TypeOK, Held
<1>1. CASE scope[t] = "held"
  <2>1. t \in Held /\ Held' = Held \ {t} /\ Done' = Done \cup {t} /\ t \notin Done
    BY <1>1 DEF Held, Done, TypeOK, ScopeStates
  <2>2. AccountsFor(Release(adm, t), Held \ {t}) /\ NotifiesCapacityReleased(adm, t)
    BY <1>0, <2>1, ReleaseAccounts DEF UsageIsHeldScopes
  <2>3. Release(adm, t) \in AdmissionStates /\ WithinCapacity(Capabilities, Release(adm, t))
    BY <1>0, ReleaseWithin, CapabilitiesAssumption DEF NeverOvercommitted
  <2>4. adm' = Release(adm, t) /\ notified' = notified + 1
    BY <1>1, <2>2 DEF ScopeRelease
  <2>5. TypeOK'
    BY <1>0, <2>3, <2>4 DEF TypeOK, ScopeStates
  <2>6. IsFiniteSet(Held') /\ IsFiniteSet(Done') /\ Cardinality(Done') = Cardinality(Done) + 1
    BY <2>1, FS_RemoveElement, FS_AddElement
  <2>7. OneWakeupPerRelease'
    BY <2>4, <2>6 DEF OneWakeupPerRelease, Done
  <2>8. UsageIsHeldScopes' /\ NeverOvercommitted'
    BY <2>1, <2>2, <2>3, <2>4 DEF UsageIsHeldScopes, NeverOvercommitted
  <2> QED
    BY <2>5, <2>6, <2>7, <2>8
<1>2. CASE scope[t] = "released"
  <2>1. Held' = Held /\ Done' = Done
    BY <1>2 DEF Held, Done, TypeOK, ScopeStates
  <2>2. UNCHANGED <<adm, notified>>
    BY <1>2 DEF ScopeRelease
  <2>3. TypeOK'
    BY <2>2 DEF TypeOK, ScopeStates
  <2> QED
    BY <2>1, <2>2, <2>3 DEF UsageIsHeldScopes, NeverOvercommitted, OneWakeupPerRelease, Done
<1> QED
  BY <1>1, <1>2

\* Every step preserves the inductive invariant.
LEMMA NextIInv == IInv /\ [Next]_vars => IInv'
<1> SUFFICES ASSUME IInv, [Next]_vars PROVE IInv'
  OBVIOUS
<1>1. ASSUME NEW t \in Tasks, RunTask(t) PROVE IInv'
  BY <1>1, RunTaskIInv
<1>2. ASSUME NEW t \in Tasks, SendTerminal(t) PROVE IInv'
  BY <1>2, ReleaseIInv DEF SendTerminal
<1>3. ASSUME NEW t \in Tasks, DestroySender(t) PROVE IInv'
  BY <1>3, ReleaseIInv DEF DestroySender
<1>4. CASE UNCHANGED vars
  BY <1>4 DEF IInv, vars, TypeOK, Held, Done, UsageIsHeldScopes, NeverOvercommitted,
              OneWakeupPerRelease
<1> QED
  BY <1>1, <1>2, <1>3, <1>4 DEF Next

\* The inductive invariant holds throughout.
THEOREM Invariance == Spec => []IInv
  BY InitIInv, NextIInv, PTL DEF Spec

\* Every variable keeps its type; the usage counters stay natural numbers, so no
\* Release takes one below zero.
THEOREM TypeCorrect == Spec => []TypeOK
<1>1. IInv => TypeOK
  BY DEF IInv
<1> QED
  BY <1>1, Invariance, PTL

\* The usage maps of the admission controller are exactly the usage of the
\* scopes still held: each Admit is undone by exactly one Release.
THEOREM UsageExact == Spec => []UsageIsHeldScopes
<1>1. IInv => UsageIsHeldScopes
  BY DEF IInv
<1> QED
  BY <1>1, Invariance, PTL

\* No pool and no type is ever committed past what its node declared.
THEOREM CapacitySafe == Spec => []NeverOvercommitted
<1>1. IInv => NeverOvercommitted
  BY DEF IInv
<1> QED
  BY <1>1, Invariance, PTL

\* Each release wakes the capacity observers, exactly once.
THEOREM WakeupsExact == Spec => []OneWakeupPerRelease
<1>1. IInv => OneWakeupPerRelease
  BY DEF IInv
<1> QED
  BY <1>1, Invariance, PTL

-------------------------------------------------------------------------------
(***************************************************************************)
(* The gateway that routes to the node.                                    *)
(***************************************************************************)

\* What a node may report: a usage within its capacity, or nothing yet.
Usages == {a \in AdmissionStates : WithinCapacity(Capabilities, a)}

NodeReports == {BuildStateSnapshot(a) : a \in Usages} \cup {Unreported}

\* The inductive invariant of the gateway's part: every report was taken of some
\* usage within capacity, and a submission under way was eligible by its report.
ReportInv ==
  /\ reports \in Seq(NodeReports)
  /\ state \in NodeReports
  /\ chosen \in [Tasks -> SUBSET NodeReports]
  /\ \A t \in Tasks : \A s \in chosen[t] : eligible(s, t)

\* What the gateway reads of a report is what the node had when it took it, also
\* for pools and types the report does not list.
LEMMA ReportsAreTruthful ==
  ASSUME NEW s \in NodeReports
  PROVE  /\ s.of \in Usages
         /\ \A p \in Pools : poolInUse(s, p) = s.of.inUse[p]
         /\ \A y \in Types : typeInFlight(s, y) = s.of.inFlight[y]
<1>1. CASE s = Unreported
  <2>1. s.of = NoUsage /\ s.pools = [p \in {} |-> 0] /\ s.type_usage = [y \in {} |-> 0]
    BY <1>1 DEF Unreported
  <2>2. NoUsage \in Usages
    BY NoUsageExact, CapabilitiesAssumption DEF Usages
  <2> QED
    BY <2>1, <2>2 DEF poolInUse, typeInFlight, NoUsage
<1>2. ASSUME NEW a \in Usages, s = BuildStateSnapshot(a)
      PROVE  /\ s.of \in Usages
             /\ \A p \in Pools : poolInUse(s, p) = s.of.inUse[p]
             /\ \A y \in Types : typeInFlight(s, y) = s.of.inFlight[y]
  <2>1. /\ s.of = a
        /\ s.pools = [p \in DOMAIN Capabilities.total |-> a.inUse[p]]
        /\ s.type_usage = [y \in {x \in Types : a.inFlight[x] > 0} |-> a.inFlight[y]]
    BY <1>2 DEF BuildStateSnapshot
  <2>2. /\ a.inUse \in [Pools -> Nat] /\ a.inFlight \in [Types -> Nat]
        /\ \A p \in Pools : a.inUse[p] > 0 => p \in DOMAIN Capabilities.total
    BY DEF Usages, AdmissionStates, WithinCapacity
  <2>3. ASSUME NEW p \in Pools PROVE poolInUse(s, p) = a.inUse[p]
    BY <2>1, <2>2 DEF poolInUse
  <2>4. ASSUME NEW y \in Types PROVE typeInFlight(s, y) = a.inFlight[y]
    BY <2>1, <2>2 DEF typeInFlight
  <2> QED
    BY <2>1, <2>3, <2>4
<1> QED
  BY <1>1, <1>2 DEF NodeReports

\* On a declared pool both sides see the same amount free, although they compute
\* it differently.
LEMMA SharedFreeAgrees ==
  ASSUME NEW s \in NodeReports, NEW p \in DOMAIN Capabilities.total
  PROVE  sharedFree(s, p) = SharedFree(Capabilities, s.of, p)
<1> DEFINE T == Capabilities.total[p]
           R == Capabilities.reserved[p]
           U == s.of.inUse[p]
<1>1. s.of \in AdmissionStates /\ WithinCapacity(Capabilities, s.of)
  BY ReportsAreTruthful DEF Usages
<1>2. p \in Pools /\ T \in Nat /\ R \in Nat /\ U \in Nat
  BY <1>1, CapabilitiesAssumption, WordAssumption DEF IsCapabilities, AdmissionStates
<1>3. SharedFree(Capabilities, s.of, p) = IF T > R + U THEN T - R - U ELSE 0
  BY <1>1, SharedFreeExact, CapabilitiesAssumption
<1>4. sharedFree(s, p) = Less(Less(T, R), U)
  BY <1>2, ReportsAreTruthful DEF sharedFree, poolTotal
<1> HIDE DEF T, R, U
<1> QED
  BY <1>2, <1>3, <1>4 DEF Less

\* A task that is eligible by a report would have been admitted when the report
\* was taken, unless it names a pool the node does not declare.
LEMMA EligibleIsAdmissible ==
  ASSUME NEW s \in NodeReports, NEW t \in Tasks, eligible(s, t),
         Undeclared(Capabilities, t) = {}
  PROVE  AdmitStatuses(Capabilities, s.of, t) = {"OK"}
<1>1. ASSUME NEW p \in DOMAIN Req[t]
      PROVE  ~(Req[t][p] > SharedFree(Capabilities, s.of, p))
  <2>1. p \in DOMAIN Capabilities.total
    BY DEF Undeclared
  <2>2. sharedFree(s, p) >= Req[t][p] /\ sharedFree(s, p) = SharedFree(Capabilities, s.of, p)
    BY <2>1, SharedFreeAgrees DEF eligible
  <2>3. Req[t][p] \in Nat
    BY TaskAssumption, WordAssumption
  <2>4. SharedFree(Capabilities, s.of, p) \in Nat
    <3>1. s.of \in AdmissionStates
      BY ReportsAreTruthful DEF Usages
    <3>2. Capabilities.total[p] \in Nat /\ Capabilities.reserved[p] \in Nat /\ s.of.inUse[p] \in Nat
      BY <2>1, <3>1, CapabilitiesAssumption, WordAssumption DEF IsCapabilities, AdmissionStates
    <3> QED
      BY <3>2, WordAssumption DEF SharedFree
  <2> QED
    BY <2>2, <2>3, <2>4
<1>2. Short(Capabilities, s.of, t) = {}
  BY <1>1 DEF Short
<1>3. ~AtConcurrencyLimit(Capabilities, s.of, TypeOf[t])
  <2>1. TypeOf[t] \in Types /\ typeInFlight(s, TypeOf[t]) = s.of.inFlight[TypeOf[t]]
    BY TaskAssumption, ReportsAreTruthful
  <2>2. s.of.inFlight[TypeOf[t]] \in Nat /\ Capabilities.concurrency[TypeOf[t]] \in Nat
    BY <2>1, ReportsAreTruthful, CapabilitiesAssumption, WordAssumption
       DEF Usages, AdmissionStates, IsCapabilities
  <2> QED
    BY <2>1, <2>2 DEF eligible, AtConcurrencyLimit
<1> QED
  BY <1>2, <1>3 DEF AdmitStatuses

\* An eligible task asks for nothing of the pools the node does not declare.
LEMMA UndeclaredIsZero ==
  ASSUME NEW s \in NodeReports, NEW t \in Tasks, eligible(s, t),
         NEW p \in Undeclared(Capabilities, t)
  PROVE  Req[t][p] = 0
<1>1. p \in DOMAIN Req[t] /\ p \notin DOMAIN Capabilities.total /\ p \in Pools
  BY TaskAssumption DEF Undeclared
<1>2. Req[t][p] \in Nat
  BY <1>1, TaskAssumption, WordAssumption
<1>3. s.of.inUse[p] \in Nat /\ poolInUse(s, p) = s.of.inUse[p] /\ Capabilities.reserved[p] \in Nat
  BY <1>1, ReportsAreTruthful, CapabilitiesAssumption, WordAssumption
     DEF Usages, AdmissionStates, IsCapabilities
<1>4. sharedFree(s, p) = 0
  BY <1>1, <1>3 DEF sharedFree, poolTotal, Less
<1> QED
  BY <1>1, <1>2, <1>4 DEF eligible

\* The gateway's part leaves the node's behaviour alone: every step of the
\* composition is one of the admission specification, or none.
LEMMA StepImplementsAdmission == [GatewayNext]_<<vars, gatewayVars>> => [Next]_vars
<1> SUFFICES ASSUME [GatewayNext]_<<vars, gatewayVars>> PROVE [Next]_vars
  OBVIOUS
<1>1. CASE Broadcast \/ ApplyReport \/ \E t \in Tasks : Schedule(t)
  BY <1>1 DEF Broadcast, ApplyReport, Schedule
<1>2. CASE \E t \in Tasks : Submission(t)
  BY <1>2 DEF Submission, Next
<1>3. CASE \E t \in Tasks : SendTerminal(t) \/ DestroySender(t)
  BY <1>3 DEF Next
<1> QED
  BY <1>1, <1>2, <1>3 DEF GatewayNext

\* The composition implements the admission specification, so everything proved
\* of the node holds behind a gateway.
THEOREM ImplementsAdmission == GatewaySpec => Spec
<1>1. GatewayInit => Init
  BY DEF GatewayInit
<1> QED
  BY <1>1, StepImplementsAdmission, PTL DEF GatewaySpec, Spec

\* Initially nothing was reported or chosen.
LEMMA InitReports == GatewayInit => ReportInv
<1> SUFFICES ASSUME GatewayInit PROVE ReportInv
  OBVIOUS
<1>1. Unreported \in NodeReports
  BY DEF NodeReports
<1> QED
  BY <1>1 DEF GatewayInit, ReportInv

\* Every step keeps the reports taken of usages within capacity, and the choices
\* under way eligible by theirs.
LEMMA NextReports ==
  ASSUME IInv, ReportInv, [GatewayNext]_<<vars, gatewayVars>>
  PROVE  ReportInv'
<1> USE DEF ReportInv
<1>1. BuildStateSnapshot(adm) \in NodeReports
  BY DEF IInv, TypeOK, NeverOvercommitted, Usages, NodeReports
<1>2. CASE Broadcast
  <2>1. reports' \in Seq(NodeReports)
    BY <1>1, <1>2 DEF Broadcast
  <2> QED
    BY <1>2, <2>1 DEF Broadcast, eligible, sharedFree, poolInUse, typeInFlight
<1>3. CASE ApplyReport
  <2>1. Head(reports) \in NodeReports /\ Tail(reports) \in Seq(NodeReports)
    BY <1>3 DEF ApplyReport
  <2> QED
    BY <1>3, <2>1 DEF ApplyReport
<1>4. ASSUME NEW t \in Tasks, Schedule(t) PROVE ReportInv'
  <2>1. chosen' = [chosen EXCEPT ![t] = {state}] /\ eligible(state, t)
        /\ UNCHANGED <<reports, state>>
    BY <1>4 DEF Schedule
  <2>2. chosen' \in [Tasks -> SUBSET NodeReports]
    BY <2>1
  <2>3. \A u \in Tasks : \A s \in chosen'[u] : eligible(s, u)
    BY <2>1
  <2> QED
    BY <2>1, <2>2, <2>3
<1>5. ASSUME NEW t \in Tasks, Submission(t) PROVE ReportInv'
  <2>1. chosen' = [chosen EXCEPT ![t] = {}] /\ UNCHANGED <<reports, state>>
    BY <1>5 DEF Submission
  <2>2. chosen' \in [Tasks -> SUBSET NodeReports]
    BY <2>1
  <2>3. \A u \in Tasks : \A s \in chosen'[u] : eligible(s, u)
    BY <2>1
  <2> QED
    BY <2>1, <2>2, <2>3
<1>6. CASE UNCHANGED gatewayVars
  BY <1>6 DEF gatewayVars
<1> QED
  BY <1>2, <1>3, <1>4, <1>5, <1>6 DEF GatewayNext

\* Both invariants hold throughout.
LEMMA ReportsInvariant == GatewaySpec => [](IInv /\ ReportInv)
<1>1. GatewaySpec => []IInv
  BY ImplementsAdmission, Invariance, PTL
<1>2. IInv /\ ReportInv /\ [GatewayNext]_<<vars, gatewayVars>> => ReportInv'
  BY NextReports
<1> QED
  BY <1>1, <1>2, InitReports, PTL DEF GatewaySpec

\* A step that refuses a chosen task found the usage changed since the report it
\* was chosen by, or the task names an undeclared pool it wants nothing of.
LEMMA RefusalStep ==
  ASSUME IInv, ReportInv, [GatewayNext]_<<vars, gatewayVars>>,
         NEW t \in refused' \ refused, NEW s \in chosen[t], s.of = adm
  PROVE  \E p \in Undeclared(Capabilities, t) : Req[t][p] = 0
<1>1. t \in Tasks /\ RunTask(t)
  <2>1. PICK u \in Tasks : RunTask(u) /\ Submission(u)
    BY DEF GatewayNext, Broadcast, ApplyReport, Schedule, Submission, SendTerminal,
           DestroySender, vars, gatewayVars
  <2> QED
    BY <2>1 DEF RunTask
<1>2. s \in NodeReports /\ eligible(s, t)
  BY <1>1 DEF ReportInv
<1>3. AdmitStatuses(Capabilities, adm, t) \ {"OK"} # {}
  BY <1>1 DEF RunTask
<1>4. Undeclared(Capabilities, t) # {}
  BY <1>1, <1>2, <1>3, EligibleIsAdmissible
<1> QED
  BY <1>1, <1>2, <1>4, UndeclaredIsZero

\* A node that refuses a task the gateway chose it for was reported on too long
\* ago: the gateway's arithmetic never disagrees with the node's.
THEOREM RefusalsExplained == GatewaySpec => RefusalMeansStale
<1>1. IInv /\ ReportInv /\ [GatewayNext]_<<vars, gatewayVars>> =>
        [\A t \in refused' \ refused : \A s \in chosen[t] :
           s.of = adm => \E p \in Undeclared(Capabilities, t) : Req[t][p] = 0]_<<vars, gatewayVars>>
  BY RefusalStep
<1> QED
  BY <1>1, ReportsInvariant, PTL DEF GatewaySpec, RefusalMeansStale
==============================================================================
