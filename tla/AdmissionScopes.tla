--------------------------- MODULE AdmissionScopes ---------------------------
(***************************************************************************)
(* The life of an admission: RunTaskServiceImpl::RunTask admits a task and *)
(* wraps the reservation in an AdmissionScope owned by the task's          *)
(* AdmissionTrackingSender. A terminal result releases it, the destructor  *)
(* releases it when no terminal result was sent, and both may happen.      *)
(***************************************************************************)
EXTENDS AdmissionController

CONSTANT Capabilities   \* the node's capability record

ASSUME CapabilitiesAssumption == IsCapabilities(Capabilities)

VARIABLES adm,      \* pool_in_use_map_ and type_in_flight_map_
          scope,    \* task |-> state of its AdmissionScope and sender
          refused,  \* tasks answered with kTaskRejected
          notified  \* CAPACITY_RELEASED commands queued, per observer

vars == <<adm, scope, refused, notified>>

ScopeStates == {"none", "held", "released", "destroyed"}

Held == {t \in Tasks : scope[t] = "held"}

Init ==
  /\ adm = NoUsage
  /\ scope = [t \in Tasks |-> "none"]
  /\ refused = {}
  /\ notified = 0

\* Faulty variant: released_ is not consulted.
ScopeReleaseUnguarded(t) ==
  /\ adm' = Release(adm, t)
  /\ notified' = notified + (IF NotifiesCapacityReleased(adm, t) THEN 1 ELSE 0)

\* AdmissionScope::Release, guarded by released_.
ScopeRelease(t) ==
  IF scope[t] = "held"
    THEN /\ adm' = Release(adm, t)
         /\ notified' = notified + (IF NotifiesCapacityReleased(adm, t) THEN 1 ELSE 0)
    ELSE UNCHANGED <<adm, notified>>

\* RunTask(task, conn) for a type with a handler.
RunTask(t) ==
  /\ scope[t] = "none" /\ t \notin refused
  /\ \/ /\ "OK" \in AdmitStatuses(Capabilities, adm, t)
        /\ adm' = Reserve(adm, t)
        /\ scope' = [scope EXCEPT ![t] = "held"]
        /\ UNCHANGED refused
     \/ /\ AdmitStatuses(Capabilities, adm, t) \ {"OK"} # {}
        /\ refused' = refused \cup {t}
        /\ UNCHANGED <<adm, scope>>
  /\ UNCHANGED notified

\* AdmissionTrackingSender::Send of a final or a failed result; a handler may
\* send a failed partial result and then a final one.
SendTerminal(t) ==
  /\ scope[t] \in {"held", "released"}
  /\ ScopeRelease(t)
  /\ scope' = [scope EXCEPT ![t] = "released"]
  /\ UNCHANGED refused

\* The sender is destroyed with its handler run.
DestroySender(t) ==
  /\ scope[t] \in {"held", "released"}
  /\ ScopeRelease(t)
  /\ scope' = [scope EXCEPT ![t] = "destroyed"]
  /\ UNCHANGED refused

Next == \E t \in Tasks : RunTask(t) \/ SendTerminal(t) \/ DestroySender(t)

Spec == Init /\ [][Next]_vars

------------------------------------------------------------------------------
TypeOK ==
  /\ adm \in AdmissionStates
  /\ scope \in [Tasks -> ScopeStates]
  /\ refused \in SUBSET Tasks
  /\ notified \in Nat

\* The usage maps are at all times exactly the usage of the scopes still held:
\* every Admit is undone by exactly one Release however the terminal result,
\* a second terminal result and the destructor are ordered
\* (admission_controller.hh:35, AdmissionScope::Release).
UsageIsHeldScopes == AccountsFor(adm, Held)

\* No pool is overcommitted past its reservation-adjusted size, no type runs
\* past its concurrency limit, and an over-reserved pool is never used, even
\* though the sums are taken modulo the word size (Admit, SharedFree).
NeverOvercommitted == WithinCapacity(Capabilities, adm)

\* Every capacity observer is woken exactly once per scope that stopped being
\* held (Release, notifyCapacityReleased): no release is silent.
OneWakeupPerRelease ==
  notified = Cardinality({t \in Tasks : scope[t] \in {"released", "destroyed"}})
==============================================================================
