---------------------------- MODULE ProbeScheduling ----------------------------
(***************************************************************************)
(* The gateway's probe scheduler and the nodes' probe schedulers together, *)
(* over connections that may break.                                        *)
(***************************************************************************)
EXTENDS ProbeScheduler, ProbeLocalScheduler

CONSTANT Breakable   \* nodes whose connection may break

ASSUME BreakableAssumption == Breakable \subseteq Nodes

vars == <<gwVars, nodeVars, netVars>>

Init == NetInit /\ GwInit /\ NodeInit

GwTask(t) ==
  \/ ScheduleRefused(t)
  \/ \E S \in SUBSET Nodes : Schedule(t, S)
  \/ SweepExpired(t)

GwStep ==
  /\ \/ \E t \in Tasks : GwTask(t)
     \/ \E n \in Nodes : ConnectOk(n) \/ ConnectFail(n) \/ GwReads(n) \/ EndOfStream(n) \/ DeferredDelete(n)
  /\ UNCHANGED nodeVars

AgentStep(n) == (NodeStep(n) \/ NodeEndOfStream(n)) /\ UNCHANGED gwVars

Break(n) == Cut(n) /\ UNCHANGED <<gwVars, nodeVars>>

Next ==
  \/ GwStep
  \/ \E n \in Nodes : AgentStep(n)
  \/ \E n \in Breakable : Break(n)

Spec == Init /\ [][Next]_vars

\* What the gateway does on its own account.
GwProgress ==
  /\ \/ \E t \in Tasks : SweepExpired(t)
     \/ \E n \in Nodes : GwReads(n) \/ EndOfStream(n) \/ DeferredDelete(n)
  /\ UNCHANGED nodeVars

(***************************************************************************)
(* An event loop with something ready does something: completions and      *)
(* commands are run, the sweep timer is periodic and the clock advances,   *)
(* task handlers and fetchers finish what they start. Nothing makes a      *)
(* client submit, a connect succeed or a connection break.                 *)
(***************************************************************************)
Fairness == WF_vars(GwProgress) /\ \A n \in Nodes : WF_vars(AgentStep(n))

FairSpec == Spec /\ Fairness

------------------------------------------------------------------------------
TypeOK == NetTypeOK /\ GwTypeOK /\ NodeTypeOK

\* Whatever pulls, cancels, declines, deadlines and broken connections overlap,
\* a task is handed to a task handler on one node at most, and only on the node
\* that was granted it (handleTaskPullFrame: "First pull wins"); a node is sent a
\* grant or a cancel of a task, never both (probe-scheduling/spec.md:137).
AtMostOneRunner ==
  \A t \in Tasks :
    /\ \A n, m \in Nodes : t \in ran[n] => n \in granted[t] /\ (t \in ran[m] => n = m)
    /\ granted[t] \cap cancelled[t] = {}

\* A receiver that still waits is held by exactly one of the pending round and
\* the receiver storage, and none is held after it was told an outcome.
ReceiverHeldOnce ==
  \A t \in Tasks :
    /\ outcome[t] = "waiting" <=> (t \in pending \/ store[t] # NoOwner)
    /\ ~(t \in pending /\ store[t] # NoOwner)

\* A round nobody can win any more is resolved at once, "no deadline wait"
\* (handleTaskDeclineFrame, probe-scheduling/spec.md:156).
NoEmptyRound == \A t \in pending : probed[t] # {}

\* What the pair of schedulers promises as a whole.
Promise == INSTANCE TaskResolution
             WITH runner <- [t \in Tasks |-> {n \in Nodes : t \in ran[n]}],
                  verdict <- outcome
ImplementsPromise == Promise!Spec

\* Every task handed to the scheduler is resolved (gateway_http_handler.cc:98-102,
\* probe-scheduling/spec.md:156): again and again nobody is left waiting.
EveryTaskResolves == []<>(\A t \in Tasks : outcome[t] # "waiting")

\* A reservation held for a pull ends (probe-scheduling/spec.md:89): again and
\* again no node holds capacity for a task it was not granted.
EveryPullEnds == []<>(\A n \in Nodes : pull_pending[n] = {})

\* No queued probe starves: again and again every queue is empty.
EveryQueuedProbeLeaves == []<>(\A n \in Nodes : Requeued(n) = <<>>)
==============================================================================
