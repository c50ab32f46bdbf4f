--------------------------- MODULE CapabilityAware ---------------------------
(***************************************************************************)
(* A gateway that routes by capability to a node that admits by itself:    *)
(* the eligible test of capability_aware_scheduler.cc, over the last state *)
(* report the gateway applied, composed with the node's admissions. The    *)
(* node is also used by others, and reports at its own pace, so the        *)
(* gateway's view may be stale when it chooses and when the task arrives.  *)
(*                                                                         *)
(* One node: among several, choose only decides which eligible one is      *)
(* sent the task, so an eligible node may or may not be chosen.            *)
(***************************************************************************)
EXTENDS AdmissionScopes, Sequences

CONSTANTS Handlers,    \* task types with a handler, all of them advertised
          MaxReports   \* bound on the state reports under way

ASSUME HandlersAssumption == Handlers \subseteq Types

VARIABLES reports,  \* kNodeState frames under way, oldest first
          state,    \* Node::state_: the last report applied
          chosen    \* submissions under way: task |-> the report it was chosen by

gatewayVars == <<reports, state, chosen>>

(***************************************************************************)
(* A report lists every declared pool and the types with tasks in flight.  *)
(* A Node that was never reported on has no state, and every reading of it *)
(* is 0, as of a report that lists nothing. The field "of" is not part of  *)
(* the message: it remembers the usage that was reported.                  *)
(***************************************************************************)
Unreported == [pools |-> [p \in {} |-> 0], type_usage |-> [y \in {} |-> 0], of |-> NoUsage]

\* Faulty variant: a report of the pools alone.
BuildStateOfPools(a) ==
  [pools      |-> [p \in DOMAIN Capabilities.total |-> a.inUse[p]],
   type_usage |-> [y \in {} |-> 0],
   of         |-> a]

BuildStateSnapshot(a) ==
  [pools      |-> [p \in DOMAIN Capabilities.total |-> a.inUse[p]],
   type_usage |-> [y \in {x \in Types : a.inFlight[x] > 0} |-> a.inFlight[y]],
   of         |-> a]

poolTotal(p) == IF p \in DOMAIN Capabilities.total THEN Capabilities.total[p] ELSE 0

poolInUse(s, p) == IF p \in DOMAIN s.pools THEN s.pools[p] ELSE 0

typeInFlight(s, y) == IF y \in DOMAIN s.type_usage THEN s.type_usage[y] ELSE 0

Less(m, n) == IF m > n THEN m - n ELSE 0

sharedFree(s, p) ==
  Less(Less(poolTotal(p), Capabilities.reserved[p]), poolInUse(s, p))

eligible(s, t) ==
  /\ Handlers # {} => TypeOf[t] \in Handlers
  /\ Capabilities.concurrency[TypeOf[t]] > 0
       => typeInFlight(s, TypeOf[t]) < Capabilities.concurrency[TypeOf[t]]
  /\ \A p \in DOMAIN Req[t] : sharedFree(s, p) >= Req[t][p]

GatewayInit ==
  /\ Init
  /\ reports = <<>>
  /\ state = Unreported
  /\ chosen = [t \in Tasks |-> {}]

\* StateReporter::Broadcast, on the heartbeat timer.
Broadcast ==
  /\ Len(reports) < MaxReports
  /\ reports' = Append(reports, BuildStateSnapshot(adm))
  /\ UNCHANGED <<vars, state, chosen>>

\* GatewayTlvHandler::handleNodeStateFrame and Node::UpdateState.
ApplyReport ==
  /\ reports # <<>>
  /\ state' = Head(reports)
  /\ reports' = Tail(reports)
  /\ UNCHANGED <<vars, chosen>>

\* CapabilityAwareScheduler::Schedule, when it chooses this node.
Schedule(t) ==
  /\ scope[t] = "none" /\ t \notin refused /\ chosen[t] = {}
  /\ eligible(state, t)
  /\ chosen' = [chosen EXCEPT ![t] = {state}]
  /\ UNCHANGED <<vars, reports, state>>

\* The submission reaches the node; one without a choice is another gateway's.
Submission(t) ==
  /\ TypeOf[t] \in Handlers
  /\ RunTask(t)
  /\ chosen' = [chosen EXCEPT ![t] = {}]
  /\ UNCHANGED <<reports, state>>

GatewayNext ==
  \/ Broadcast
  \/ ApplyReport
  \/ \E t \in Tasks : Schedule(t) \/ Submission(t)
  \/ /\ \E t \in Tasks : SendTerminal(t) \/ DestroySender(t)
     /\ UNCHANGED gatewayVars

GatewaySpec == GatewayInit /\ [][GatewayNext]_<<vars, gatewayVars>>

------------------------------------------------------------------------------
\* The gateway's saturating arithmetic and the node's wrapping one agree: a node
\* that refuses a task it was chosen for had its usage changed since the report
\* the choice was made by, or the task asks for nothing of a pool the node does
\* not declare, which the gateway lets pass and the node refuses
\* (capability_aware_scheduler.cc eligible, admission_controller.cc Admit).
RefusalMeansStale ==
  [][\A t \in refused' \ refused : \A s \in chosen[t] :
       s.of = adm => \E p \in Undeclared(Capabilities, t) : Req[t][p] = 0]_<<vars, gatewayVars>>
==============================================================================
