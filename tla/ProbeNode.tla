------------------------------ MODULE ProbeNode ------------------------------
(***************************************************************************)
(* One node's probe scheduler against the most general gateway that keeps  *)
(* the protocol: it probes a task once, may cancel it at any time after,   *)
(* and answers a pull with a grant or a cancel. With no second node in the *)
(* way, more tasks, mixed requirements and data dependencies fit.          *)
(***************************************************************************)
EXTENDS ProbeLocalScheduler

CONSTANT Cancellable   \* bound: tasks whose probe may be cancelled unasked

VARIABLES order,   \* the tasks probed, in order
          told,    \* task |-> frame types sent to the node about it
          heard    \* task |-> frame types received from the node about it

envVars == <<order, told, heard>>
vars == <<nodeVars, netVars, envVars>>

Init ==
  /\ NetInit /\ NodeInit
  /\ wire = [n \in Nodes |-> "up"]
  /\ order = <<>>
  /\ told = [t \in Tasks |-> {}]
  /\ heard = [t \in Tasks |-> <<>>]

Tell(n, type, t) ==
  /\ toNode' = [toNode EXCEPT ![n] = Carry(n, @, Frame(type, t))]
  /\ told' = [told EXCEPT ![t] = @ \cup {type}]

SendProbe(n, t) ==
  /\ told[t] = {}
  /\ Tell(n, "probe", t)
  /\ order' = Append(order, t)
  /\ UNCHANGED <<heard, toGw, wire>>

\* A cancel the node did not ask for: another node won, or the deadline passed.
SendCancel(n, t) ==
  /\ t \in Cancellable /\ told[t] = {"probe"}
  /\ Tell(n, "cancel", t)
  /\ UNCHANGED <<order, heard, toGw, wire>>

HearPull(n, t) ==
  /\ Arrives(toGw[n], "pull", t)
  /\ toGw' = [toGw EXCEPT ![n] = Tail(@)]
  /\ heard' = [heard EXCEPT ![t] = Append(@, "pull")]
  /\ \/ "cancel" \notin told[t] /\ Tell(n, "grant", t)
     \/ Tell(n, "cancel", t)
  /\ UNCHANGED <<order, wire>>

HearOther(n, t) ==
  /\ \E type \in {"decline", "result", "failure"} :
       /\ Arrives(toGw[n], type, t)
       /\ heard' = [heard EXCEPT ![t] = Append(@, type)]
  /\ toGw' = [toGw EXCEPT ![n] = Tail(@)]
  /\ UNCHANGED <<order, told, toNode, wire>>

EnvStep ==
  /\ \E n \in Nodes, t \in Tasks :
       SendProbe(n, t) \/ SendCancel(n, t) \/ HearPull(n, t) \/ HearOther(n, t)
  /\ UNCHANGED nodeVars

Next == EnvStep \/ \E n \in Nodes : NodeStep(n) /\ UNCHANGED envVars

Spec == Init /\ [][Next]_vars

------------------------------------------------------------------------------
\* The frames about t a node has sent, received or still under way.
Said(n, t) == heard[t] \o SelectSeq([i \in DOMAIN toGw[n] |-> IF toGw[n][i].task = t
                                        THEN toGw[n][i].type ELSE "other"], LAMBDA f : f # "other")

\* A node answers a probe at most once, with a pull or a decline, and reports
\* a result only for a task it was granted (probe-scheduling/spec.md:31).
AnswersOnce ==
  \A n \in Nodes, t \in Tasks :
    LET s == Said(n, t) IN
      /\ Len(s) <= 2
      /\ Len(s) >= 1 => s[1] \in {"pull", "decline"}
      /\ Len(s) = 2 => s[1] = "pull" /\ s[2] \in {"result", "failure"} /\ "grant" \in told[t]

\* No probe is lost: one the node has read and that nobody cancelled is queued
\* or answered whenever the node is between events, however walks, cancels of
\* other tasks and deferrals shuffle the queue (walk, removeQueued); what a walk
\* popped always fits when it is pushed back.
NoProbeLost ==
  \A n \in Nodes :
    /\ Len(Requeued(n)) <= QueueCapacity
    /\ \A t \in Tasks :
         (/\ ~walk[n].on /\ "probe" \in told[t] /\ "cancel" \notin told[t]
          /\ \A i \in DOMAIN toNode[n] : toNode[n][i] # Frame("probe", t))
           => \/ \E i \in DOMAIN queue[n] : queue[n][i] = t
              \/ Said(n, t) # <<>>

\* A cancelled task is gone from the node once the cancel was read, unless it
\* was already granted: it holds no reservation and never runs afterwards
\* (probe-scheduling/spec.md:36).
CancelRelinquishes ==
  \A n \in Nodes, t \in Tasks :
    (/\ "cancel" \in told[t]
     /\ \A i \in DOMAIN toNode[n] : toNode[n][i] # Frame("cancel", t))
      => /\ t \notin pull_pending[n] \cup running[n]
         /\ \A i \in DOMAIN Requeued(n) : Requeued(n)[i] # t

\* No wakeup is missed: when the node is idle with no command queued, the cap
\* not reached and nothing reserved or running, no queued probe that is ready
\* would be admitted.
NoMissedWakeup ==
  \A n \in Nodes :
    (~walk[n].on /\ wake[n] = 0 /\ pull_pending[n] = {} /\ running[n] = {})
      => \A i \in DOMAIN queue[n] :
           AllCached(n, queue[n][i]) => "OK" \notin AdmitStatuses(Caps[n], adm[n], queue[n][i])
==============================================================================
