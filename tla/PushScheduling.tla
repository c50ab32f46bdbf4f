---------------------------- MODULE PushScheduling ----------------------------
(***************************************************************************)
(* Push scheduling and child tasks: the gateway's push schedulers          *)
(* (round_robin, capability_aware), its scheduler router and receiver      *)
(* storage, and on each node the push scheduler, RunTask and the "default" *)
(* scheduler that runs children locally or forwards them to the gateway.   *)
(*                                                                         *)
(* A root task comes from an HTTP client, a child from the handler of its  *)
(* parent. The gateway stores a child's receiver under the submitting node *)
(* and pushes the child to any candidate, the submitter included.          *)
(***************************************************************************)
EXTENDS AdmissionController, TlvNet

CONSTANTS Caps,             \* node |-> capability record
          Handlers,         \* node |-> task types with a task handler
          Parent,           \* child task |-> the task whose handler submits it
          CapabilityAware,  \* the scheduler is capability_aware, not round_robin
          Preconnected,     \* bound: nodes that advertised before any task came
          Breakable         \* nodes whose connection may break

Children == DOMAIN Parent
Roots == Tasks \ Children

ASSUME PushConfigAssumption ==
  /\ \A n \in Nodes : IsCapabilities(Caps[n])
  /\ Children \subseteq Tasks /\ Parent \in [Children -> Tasks]
  /\ CapabilityAware \in BOOLEAN
  /\ Preconnected \subseteq Nodes /\ Breakable \subseteq Nodes

VARIABLES link,      \* node |-> state of its Node record's connection
          key,       \* node |-> whether it was rekeyed
          store,     \* task |-> receiver in the gateway's storage
          outcome,   \* task |-> what its receiver was told
          running,   \* node |-> tasks whose result goes to the connection
          local,     \* node |-> tasks whose result goes to the node's storage
          home,      \* node |-> children with a receiver in the node's storage
          adm,       \* node |-> the admission controller's usage maps
          mbox,      \* node |-> the gateway connection's mailbox is active
          ran        \* task |-> nodes that ever ran it (history)

gwVars == <<link, key, store>>
nodeVars == <<running, local, home, adm, mbox, ran>>
vars == <<gwVars, nodeVars, outcome, netVars>>

NoReceiver == [to |-> "nobody", owner |-> <<>>]
Key(n) == <<n, key[n]>>
Receiver(to, n) == [to |-> to, owner |-> Key(n)]

Init ==
  /\ NetInit
  /\ wire = [n \in Nodes |-> IF n \in Preconnected THEN "up" ELSE "none"]
  /\ link = [n \in Nodes |-> IF n \in Preconnected THEN "up" ELSE "connecting"]
  /\ key = [n \in Nodes |-> IF n \in Preconnected THEN "canonical" ELSE "placeholder"]
  /\ store = [t \in Tasks |-> NoReceiver]
  /\ outcome = [t \in Tasks |-> "new"]
  /\ running = [n \in Nodes |-> {}] /\ local = [n \in Nodes |-> {}]
  /\ home = [n \in Nodes |-> {}]
  /\ adm = [n \in Nodes |-> NoUsage]
  /\ mbox = [n \in Nodes |-> TRUE]
  /\ ran = [t \in Tasks |-> {}]

------------------------------------------------------------------------------
\* The gateway.

\* Connection::Write: nothing once the descriptor is closed.
Written(ch, n, type, t) == IF link[n] = "up" THEN Carry(n, ch, Frame(type, t)) ELSE ch

ReadFrame(n, type, t) ==
  /\ link[n] = "up" /\ Arrives(toGw[n], type, t)
  /\ toGw' = [toGw EXCEPT ![n] = Tail(@)]
  /\ UNCHANGED <<wire, nodeVars>>

Tell(t, how) == outcome' = [outcome EXCEPT ![t] = how]

ConnectOk(n) ==
  /\ link[n] = "connecting"
  /\ link' = [link EXCEPT ![n] = "up"]
  /\ wire' = [wire EXCEPT ![n] = "up"]
  /\ toGw' = [toGw EXCEPT ![n] = <<Frame("advertisement", NoTask)>>]
  /\ UNCHANGED <<key, store, outcome, nodeVars, toNode>>

ConnectFail(n) ==
  /\ link[n] = "connecting"
  /\ link' = [link EXCEPT ![n] = "down"]
  /\ UNCHANGED <<key, store, outcome, nodeVars, netVars>>

HandleAdvertisement(n) ==
  /\ ReadFrame(n, "advertisement", NoTask)
  /\ key' = [key EXCEPT ![n] = "canonical"]
  /\ UNCHANGED <<link, store, outcome, toNode>>

\* GetCandidates: every node here speaks "push".
Candidates == {n \in Nodes : link[n] \in {"up", "eof"}}

\* choose finds no node: capability_aware may also find all of them ineligible
\* by their advertised capabilities and reported load, of which only the
\* answer is modelled.
NoneChosen == Candidates = {} \/ CapabilityAware

\* A client's task: Schedule refuses it, or stores the receiver and pushes it.
ScheduleRefused(t) ==
  /\ t \in Roots /\ outcome[t] = "new" /\ NoneChosen
  /\ Tell(t, "refused")
  /\ UNCHANGED <<gwVars, nodeVars, netVars>>

Schedule(t, n) ==
  /\ t \in Roots /\ outcome[t] = "new" /\ n \in Candidates
  /\ Tell(t, "waiting")
  /\ store' = [store EXCEPT ![t] = Receiver("client", n)]
  /\ toNode' = [toNode EXCEPT ![n] = Written(@, n, "submission", t)]
  /\ UNCHANGED <<link, key, nodeVars, toGw, wire>>

\* Faulty variant: the entry is erased before the error is delivered through it.
ChildRefusedSilently(n, t) ==
  /\ ReadFrame(n, "submission", t) /\ NoneChosen
  /\ UNCHANGED <<gwVars, outcome, toNode>>

\* handleChildTaskSubmission: the refusal goes through the forwarding receiver
\* to the submitter and erases the entry.
ChildRefused(n, t) ==
  /\ ReadFrame(n, "submission", t) /\ NoneChosen
  /\ toNode' = [toNode EXCEPT ![n] = Written(@, n, "rejected", t)]
  /\ UNCHANGED <<gwVars, outcome>>

\* Faulty variant: the receiver is stored under the node the child is pushed to
\* and writes to its connection.
ChildReceiverOfTarget(n, m) == Receiver(m, m)

\* The receiver of a child belongs to the submitting node.
ChildReceiver(n, m) == Receiver(n, n)

ChildPushed(n, m, t) ==
  /\ ReadFrame(n, "submission", t) /\ m \in Candidates
  /\ store' = [store EXCEPT ![t] = ChildReceiver(n, m)]
  /\ toNode' = [toNode EXCEPT ![m] = Written(@, m, "submission", t)]
  /\ UNCHANGED <<link, key, outcome>>

\* Faulty variant: the receiver stays in the storage.
DeliveredKeepsReceiver(t, how) ==
  /\ IF store[t].to = "client" THEN Tell(t, how) ELSE UNCHANGED outcome
  /\ UNCHANGED <<store, toNode>>

\* The stored receiver is told and erased: a client its outcome, a submitting
\* node a frame, which knows no failure but a rejection.
Delivered(t, how) ==
  /\ store' = [store EXCEPT ![t] = NoReceiver]
  /\ IF store[t].to = "client" THEN Tell(t, how) /\ UNCHANGED toNode
     ELSE /\ UNCHANGED outcome
          /\ toNode' = [n \in Nodes |->
               IF n = store[t].to
                 THEN Written(toNode[n], n, IF how = "ok" THEN "result" ELSE "rejected", t)
                 ELSE toNode[n]]

Outcomes == [result |-> "ok", failure |-> "failed", rejected |-> "refused"]

\* handleTaskResultFrame and handleTaskRejectedFrame.
HandleOutcome(n, t) ==
  /\ \E type \in DOMAIN Outcomes :
       /\ ReadFrame(n, type, t)
       /\ IF store[t] # NoReceiver THEN Delivered(t, Outcomes[type])
                                   ELSE UNCHANGED <<store, outcome, toNode>>
  /\ UNCHANGED <<link, key>>

\* Connection::onEndOfStream and NotifyNodeDisconnected: the clients' receivers
\* under the node's present key are refused; those of children it submitted
\* write to its closed mailbox.
EndOfStream(n) ==
  /\ link[n] = "up" /\ wire[n] = "cut" /\ toGw[n] = <<>>
  /\ link' = [link EXCEPT ![n] = "eof"]
  /\ LET gone == {t \in Tasks : store[t].owner = Key(n)} IN
       /\ outcome' = [t \in Tasks |-> IF t \in gone /\ store[t].to = "client"
                                        THEN "refused" ELSE outcome[t]]
       /\ store' = [t \in Tasks |-> IF t \in gone THEN NoReceiver ELSE store[t]]
  /\ UNCHANGED <<key, nodeVars, netVars>>

DeferredDelete(n) ==
  /\ link[n] = "eof"
  /\ link' = [link EXCEPT ![n] = "down"]
  /\ UNCHANGED <<key, store, outcome, nodeVars, netVars>>

------------------------------------------------------------------------------
\* A node agent.

Enqueue(n, type, t) ==
  toGw' = [toGw EXCEPT ![n] = IF mbox[n] THEN Carry(n, @, Frame(type, t)) ELSE @]

Handled(n, t) == TypeOf[t] \in Handlers[n]

Admissible(n, t) == "OK" \in AdmitStatuses(Caps[n], adm[n], t)

Receive(n, type, t) ==
  /\ mbox[n] /\ Arrives(toNode[n], type, t)
  /\ toNode' = [toNode EXCEPT ![n] = Tail(@)]

\* PushLocalScheduler::HandleFrame and RunTask: run, reject, or, without a
\* handler, drop the task without an answer.
RunSubmission(n, t) ==
  /\ Receive(n, "submission", t) /\ Handled(n, t) /\ Admissible(n, t)
  /\ adm' = [adm EXCEPT ![n] = Reserve(@, t)]
  /\ running' = [running EXCEPT ![n] = @ \cup {t}]
  /\ ran' = [ran EXCEPT ![t] = @ \cup {n}]
  /\ UNCHANGED <<gwVars, outcome, local, home, mbox, toGw, wire>>

RejectSubmission(n, t) ==
  /\ Receive(n, "submission", t) /\ Handled(n, t) /\ ~Admissible(n, t)
  /\ Enqueue(n, "rejected", t)
  /\ UNCHANGED <<gwVars, nodeVars, outcome, wire>>

DropSubmission(n, t) ==
  /\ Receive(n, "submission", t) /\ ~Handled(n, t)
  /\ UNCHANGED <<gwVars, nodeVars, outcome, toGw, wire>>

\* A running handler submits a child: DefaultLocalScheduler::Schedule runs it
\* here if it is handled and fits, or forwards it.
Submits(n, c) == c \in Children /\ Parent[c] \in running[n] \cup local[n] /\ outcome[c] = "new"

SubmitRunsHere(n, c) ==
  /\ Submits(n, c) /\ Handled(n, c) /\ Admissible(n, c)
  /\ adm' = [adm EXCEPT ![n] = Reserve(@, c)]
  /\ local' = [local EXCEPT ![n] = @ \cup {c}]
  /\ home' = [home EXCEPT ![n] = @ \cup {c}]
  /\ ran' = [ran EXCEPT ![c] = @ \cup {n}]
  /\ Tell(c, "waiting")
  /\ UNCHANGED <<gwVars, running, mbox, netVars>>

\* Faulty variant: a child that is forwarded is run here as well.
ForwardAndRun(n, c) ==
  /\ Submits(n, c) /\ ~(Handled(n, c) /\ Admissible(n, c)) /\ mbox[n]
  /\ home' = [home EXCEPT ![n] = @ \cup {c}]
  /\ local' = [local EXCEPT ![n] = @ \cup {c}]
  /\ ran' = [ran EXCEPT ![c] = @ \cup {n}]
  /\ Tell(c, "waiting")
  /\ Enqueue(n, "submission", c)
  /\ UNCHANGED <<gwVars, running, adm, mbox, toNode, wire>>

\* forwardOrError with a live gateway connection.
Forward(n, c) ==
  /\ Submits(n, c) /\ ~(Handled(n, c) /\ Admissible(n, c)) /\ mbox[n]
  /\ home' = [home EXCEPT ![n] = @ \cup {c}]
  /\ Tell(c, "waiting")
  /\ Enqueue(n, "submission", c)
  /\ UNCHANGED <<gwVars, running, local, adm, mbox, ran, toNode, wire>>

\* forwardOrError without one: GatewayClient::Forward fails.
ForwardFails(n, c) ==
  /\ Submits(n, c) /\ ~(Handled(n, c) /\ Admissible(n, c)) /\ ~mbox[n]
  /\ Tell(c, "refused")
  /\ UNCHANGED <<gwVars, nodeVars, netVars>>

\* handleResultFrame and handleRejectedFrame of the default scheduler.
ReceiveOutcome(n, c) ==
  /\ c \in Children
  /\ \E type \in {"result", "rejected"} :
       /\ Receive(n, type, c)
       /\ IF c \in home[n] THEN Tell(c, Outcomes[type]) ELSE UNCHANGED outcome
  /\ home' = [home EXCEPT ![n] = @ \ {c}]
  /\ UNCHANGED <<gwVars, running, local, adm, mbox, ran, toGw, wire>>

\* AdmissionTrackingSender releases with the terminal result, whatever it is.
Released(n, t, how) == Release(adm[n], t)

\* A handler waits for the children it submitted, unless the connection it
\* reports to is gone.
MayFinish(n, t) == ~mbox[n] \/ \A c \in Children : Parent[c] = t => outcome[c] # "waiting"

HandlerFinish(n, t) ==
  /\ t \in running[n] /\ MayFinish(n, t)
  /\ \E type \in {"result", "failure"} :
       /\ Enqueue(n, type, t)
       /\ adm' = [adm EXCEPT ![n] = Released(n, t, Outcomes[type])]
  /\ running' = [running EXCEPT ![n] = @ \ {t}]
  /\ UNCHANGED <<gwVars, outcome, local, home, mbox, ran, toNode, wire>>

\* StorageResultSender::Send.
LocalFinish(n, c) ==
  /\ c \in local[n] /\ MayFinish(n, c)
  /\ \E how \in {"ok", "failed"} :
       /\ IF c \in home[n] THEN Tell(c, how) ELSE UNCHANGED outcome
       /\ adm' = [adm EXCEPT ![n] = Released(n, c, how)]
  /\ local' = [local EXCEPT ![n] = @ \ {c}]
  /\ home' = [home EXCEPT ![n] = @ \ {c}]
  /\ UNCHANGED <<gwVars, running, mbox, ran, netVars>>

NodeEndOfStream(n) ==
  /\ mbox[n] /\ wire[n] = "cut" /\ toNode[n] = <<>>
  /\ mbox' = [mbox EXCEPT ![n] = FALSE]
  /\ UNCHANGED <<gwVars, outcome, running, local, home, adm, ran, netVars>>

------------------------------------------------------------------------------
GwReads(n) ==
  \/ HandleAdvertisement(n)
  \/ \E t \in Tasks : \/ ChildRefused(n, t) \/ HandleOutcome(n, t)
                      \/ \E m \in Nodes : ChildPushed(n, m, t)

GwProgress == \E n \in Nodes : GwReads(n) \/ EndOfStream(n) \/ DeferredDelete(n)

Arrival ==
  \/ \E t \in Tasks : ScheduleRefused(t) \/ \E n \in Nodes : Schedule(t, n)
  \/ \E n \in Nodes : ConnectOk(n) \/ ConnectFail(n)

AgentStep(n) ==
  \/ NodeEndOfStream(n)
  \/ \E t \in Tasks : \/ RunSubmission(n, t) \/ RejectSubmission(n, t) \/ DropSubmission(n, t)
                      \/ SubmitRunsHere(n, t) \/ Forward(n, t) \/ ForwardFails(n, t)
                      \/ ReceiveOutcome(n, t) \/ HandlerFinish(n, t) \/ LocalFinish(n, t)

Break(n) == Cut(n) /\ UNCHANGED <<gwVars, nodeVars, outcome>>

Next ==
  \/ GwProgress \/ Arrival
  \/ \E n \in Nodes : AgentStep(n)
  \/ \E n \in Breakable : Break(n)

(***************************************************************************)
(* Event loops with something ready do something, and handlers finish what *)
(* they start. Nothing makes a client submit, a connect succeed or a       *)
(* connection break.                                                       *)
(***************************************************************************)
FairSpec == /\ Init /\ [][Next]_vars
            /\ WF_vars(GwProgress) /\ \A n \in Nodes : WF_vars(AgentStep(n))

------------------------------------------------------------------------------
\* Where a task is: a frame on its way or a handler at work.
Copies(t) ==
  Cardinality(UNION {
    {<<n, "in", i>> : i \in {j \in DOMAIN toNode[n] : toNode[n][j].task = t}}
      \cup {<<n, "out", i>> : i \in {j \in DOMAIN toGw[n] : toGw[n][j].task = t}}
      \cup (IF t \in running[n] THEN {<<n, "running", 0>>} ELSE {})
      \cup (IF t \in local[n] THEN {<<n, "local", 0>>} ELSE {}) : n \in Nodes})

HandledEverywhere(t) == \A n \in Nodes : Handled(n, t)

\* A task is in one place at a time, however it is pushed, forwarded, sent back
\* to its submitter or rejected; and until a connection breaks a waiting task is
\* somewhere, so no handler of frames loses it. A node accounts for exactly the
\* tasks it runs, pushed or its own children.
OneCopy ==
  /\ \A t \in Tasks :
       /\ Copies(t) <= 1
       /\ outcome[t] = "new" => Copies(t) = 0
       /\ (outcome[t] = "waiting" /\ HandledEverywhere(t) /\ \A n \in Nodes : wire[n] # "cut")
            => Copies(t) = 1
  /\ \A n \in Nodes : AccountsFor(adm[n], running[n] \cup local[n])

\* A waiting client is in the gateway's storage and a waiting child in the
\* storage of one node; the gateway's entry for a child leads to that node
\* (handleChildTaskSubmission, DefaultLocalScheduler::Schedule).
ReceiverHeld ==
  /\ \A t \in Roots : outcome[t] = "waiting" <=> store[t].to = "client"
  /\ \A c \in Children :
       /\ outcome[c] = "waiting" <=> \E n \in Nodes : c \in home[n]
       /\ \A n, m \in Nodes : c \in home[n] \cap home[m] => n = m
       /\ store[c] # NoReceiver => \E n \in Nodes : store[c].to = n /\ c \in home[n]

\* What push scheduling promises as a whole, for roots and children alike.
Promise == INSTANCE TaskResolution WITH runner <- ran, verdict <- outcome
ImplementsPromise == Promise!Spec

\* While no connection breaks, every task of a type the nodes handle resolves,
\* a child that comes back to a busy submitter included (the scheduler "MUST
\* eventually resolve it", gateway_http_handler.cc:98).
EveryTaskResolves ==
  [](\A n \in Nodes : wire[n] # "cut")
    => []<>(\A t \in Tasks : HandledEverywhere(t) => outcome[t] # "waiting")

\* "Every task handed to Submit SHALL eventually resolve through the receiver
\* (result or error) - the receiver never hangs" (child-task-submission/spec.md:11),
\* whichever connection breaks.
EveryChildResolves == []<>(\A c \in Children : outcome[c] # "waiting")
==============================================================================
