-------------------------- MODULE ProbeLocalScheduler --------------------------
(***************************************************************************)
(* A node agent's probe scheduler                                          *)
(* (src/src/nodeagent/extensions/schedulers/probe/), with the admission    *)
(* controller it reserves from and the task handlers it hands a granted    *)
(* task to.                                                                *)
(*                                                                         *)
(* A probe that fits is pulled at once and its reservation held in         *)
(* pull_pending_ until the gateway grants or cancels it. One that does not *)
(* fit now waits in a bounded queue; walk() retries the queue on every     *)
(* probe and on every CAPACITY_RELEASED or DEP_COMPLETED command. The loop *)
(* of walk() is unrolled: between BeginWalk and EndWalk the event loop of  *)
(* the node does nothing else.                                             *)
(***************************************************************************)
EXTENDS AdmissionController, TlvNet

CONSTANTS Caps,              \* node |-> capability record
          Handlers,          \* node |-> task types with a task handler
          QueueCapacity,     \* queue_capacity
          MaxPreallocations, \* max_concurrent_preallocations
          Deps,              \* task |-> refs whose source has a fetcher
          Refs

ASSUME NodeConfigAssumption ==
  /\ QueueCapacity \in Nat \ {0} /\ MaxPreallocations \in Nat \ {0}
  /\ \A n \in Nodes : IsCapabilities(Caps[n])
  /\ Deps \in [Tasks -> SUBSET Refs]

VARIABLES queue,         \* node |-> queue_, the probes awaiting capacity
          pull_pending,  \* node |-> tasks pulled, their reservation held
          running,       \* node |-> tasks handed to a task handler
          adm,           \* node |-> the admission controller's usage maps
          walk,          \* node |-> the walk in progress
          wake,          \* node |-> queued CAPACITY_RELEASED/DEP_COMPLETED
          mbox,          \* node |-> the gateway connection's mailbox is active
          cached,        \* node |-> refs in the object cache
          fetching,      \* node |-> <<task, ref>> fetches under way
          ran            \* node |-> tasks ever handed to a handler (history)

nodeVars == <<queue, pull_pending, running, adm, walk, wake, mbox, cached, fetching, ran>>

Idle == [on |-> FALSE, deferred |-> <<>>, arriving |-> NoTask]

NodeTypeOK ==
  /\ queue \in [Nodes -> Seq(Tasks)]
  /\ pull_pending \in [Nodes -> SUBSET Tasks]
  /\ running \in [Nodes -> SUBSET Tasks]
  /\ adm \in [Nodes -> AdmissionStates]
  /\ walk \in [Nodes -> [on : BOOLEAN, deferred : Seq(Tasks), arriving : Tasks \cup {NoTask}]]
  /\ wake \in [Nodes -> Nat]
  /\ mbox \in [Nodes -> BOOLEAN]
  /\ cached \in [Nodes -> SUBSET Refs]
  /\ fetching \in [Nodes -> SUBSET (Tasks \X Refs)]
  /\ ran \in [Nodes -> SUBSET Tasks]

NodeInit ==
  /\ queue = [n \in Nodes |-> <<>>]
  /\ pull_pending = [n \in Nodes |-> {}]
  /\ running = [n \in Nodes |-> {}]
  /\ adm = [n \in Nodes |-> NoUsage]
  /\ walk = [n \in Nodes |-> Idle]
  /\ wake = [n \in Nodes |-> 0]
  /\ mbox = [n \in Nodes |-> TRUE]
  /\ cached = [n \in Nodes |-> {}]
  /\ fetching = [n \in Nodes |-> {}]
  /\ ran = [n \in Nodes |-> {}]

\* OutboundMailbox::Enqueue: a no-op once the connection closed.
Enqueue(n, type, t) ==
  toGw' = [toGw EXCEPT ![n] = IF mbox[n] THEN Carry(n, @, Frame(type, t)) ELSE @]

\* Admit succeeded: hold the reservation and claim the task.
Preallocate(n, t) ==
  /\ adm' = [adm EXCEPT ![n] = Reserve(@, t)]
  /\ pull_pending' = [pull_pending EXCEPT ![n] = @ \cup {t}]
  /\ Enqueue(n, "pull", t)

\* Faulty variant: the wakeup goes out but the capacity stays booked.
ReleaseScopeForgets(n, t) ==
  /\ wake' = [wake EXCEPT ![n] = @ + 1]
  /\ UNCHANGED adm

\* An AdmissionScope of t is released: CAPACITY_RELEASED is queued for walk().
ReleaseScope(n, t) ==
  /\ adm' = [adm EXCEPT ![n] = Release(@, t)]
  /\ wake' = [wake EXCEPT ![n] = @ + (IF NotifiesCapacityReleased(adm[n], t) THEN 1 ELSE 0)]

AllCached(n, t) == Deps[t] \subseteq cached[n]

startPrefetch(n, t) ==
  fetching' = [fetching EXCEPT ![n] = IF AllCached(n, t) THEN @ ELSE @ \cup ({t} \X Deps[t])]

Receive(n, type, t) ==
  /\ mbox[n] /\ ~walk[n].on
  /\ Arrives(toNode[n], type, t)
  /\ toNode' = [toNode EXCEPT ![n] = Tail(@)]

CapReached(n) == Cardinality(pull_pending[n]) >= MaxPreallocations

------------------------------------------------------------------------------
\* HandleFrame(kTaskProbe) calls walk() before it looks at the probe.
ReceiveProbe(n, t) ==
  /\ Receive(n, "probe", t)
  /\ walk' = [walk EXCEPT ![n] = [Idle EXCEPT !.on = TRUE, !.arriving = t]]
  /\ UNCHANGED <<queue, pull_pending, running, adm, wake, mbox, cached, fetching, ran, toGw, wire>>

\* ProcessCommand(CAPACITY_RELEASED) and ProcessCommand(DEP_COMPLETED).
ProcessCommand(n) ==
  /\ ~walk[n].on /\ wake[n] > 0
  /\ wake' = [wake EXCEPT ![n] = @ - 1]
  /\ walk' = [walk EXCEPT ![n] = [Idle EXCEPT !.on = TRUE]]
  /\ UNCHANGED <<queue, pull_pending, running, adm, mbox, cached, fetching, ran, netVars>>

\* Faulty variant: the walk looks at the front without taking it.
WalkPeek(n) ==
  /\ walk[n].on /\ ~CapReached(n) /\ queue[n] # <<>>
  /\ UNCHANGED queue

\* TryPop, below the cap.
WalkPop(n) ==
  /\ walk[n].on /\ ~CapReached(n) /\ queue[n] # <<>>
  /\ queue' = [queue EXCEPT ![n] = Tail(@)]

\* The popped probe is kept for later: its data is not there yet, or it still
\* does not fit.
WalkDefer(n) ==
  /\ WalkPop(n)
  /\ LET t == Head(queue[n]) IN
       /\ \/ ~AllCached(n, t)
          \/ "ResourceExhausted" \in AdmitStatuses(Caps[n], adm[n], t)
       /\ walk' = [walk EXCEPT ![n].deferred = Append(@, t)]
  /\ UNCHANGED <<pull_pending, running, adm, wake, mbox, cached, fetching, ran, netVars>>

WalkPull(n) ==
  /\ WalkPop(n)
  /\ LET t == Head(queue[n]) IN
       /\ AllCached(n, t)
       /\ "OK" \in AdmitStatuses(Caps[n], adm[n], t)
       /\ Preallocate(n, t)
  /\ UNCHANGED <<running, walk, wake, mbox, cached, fetching, ran, toNode, wire>>

WalkDecline(n) ==
  /\ WalkPop(n)
  /\ LET t == Head(queue[n]) IN
       /\ AllCached(n, t)
       /\ "FailedPrecondition" \in AdmitStatuses(Caps[n], adm[n], t)
       /\ Enqueue(n, "decline", t)
  /\ UNCHANGED <<pull_pending, running, adm, walk, wake, mbox, cached, fetching, ran, toNode, wire>>

\* Faulty variant: the deferred probes are dropped when the loop ends.
RequeuedWithoutDeferred(n) == queue[n]

\* The loop ends at the cap or at the end of the queue; the deferred probes are
\* pushed back, behind whatever was not visited.
Requeued(n) == queue[n] \o walk[n].deferred

\* BoundedQueue::Push refuses.
QueueFull(n) == Len(Requeued(n)) >= QueueCapacity

WalkEnds(n) ==
  /\ walk[n].on /\ (CapReached(n) \/ queue[n] = <<>>)
  /\ walk' = [walk EXCEPT ![n] = Idle]

EndWalk(n) ==
  /\ WalkEnds(n) /\ walk[n].arriving = NoTask
  /\ queue' = [queue EXCEPT ![n] = Requeued(n)]
  /\ UNCHANGED <<pull_pending, running, adm, wake, mbox, cached, fetching, ran, netVars>>

\* handleProbe, after the walk: pull, queue or decline the arriving probe.
ProbePull(n) ==
  /\ WalkEnds(n) /\ walk[n].arriving # NoTask
  /\ queue' = [queue EXCEPT ![n] = Requeued(n)]
  /\ LET t == walk[n].arriving IN
       /\ "OK" \in AdmitStatuses(Caps[n], adm[n], t)
       /\ Preallocate(n, t)
       /\ startPrefetch(n, t)
  /\ UNCHANGED <<running, wake, mbox, cached, ran, toNode, wire>>

ProbeEnqueue(n) ==
  /\ WalkEnds(n) /\ walk[n].arriving # NoTask
  /\ ~QueueFull(n)
  /\ queue' = [queue EXCEPT ![n] = Append(Requeued(n), walk[n].arriving)]
  /\ "ResourceExhausted" \in AdmitStatuses(Caps[n], adm[n], walk[n].arriving)
  /\ startPrefetch(n, walk[n].arriving)
  /\ UNCHANGED <<pull_pending, running, adm, wake, mbox, cached, ran, netVars>>

ProbeDecline(n) ==
  /\ WalkEnds(n) /\ walk[n].arriving # NoTask
  /\ queue' = [queue EXCEPT ![n] = Requeued(n)]
  /\ LET statuses == AdmitStatuses(Caps[n], adm[n], walk[n].arriving) IN
       \/ "FailedPrecondition" \in statuses
       \/ "ResourceExhausted" \in statuses /\ QueueFull(n)
  /\ Enqueue(n, "decline", walk[n].arriving)
  /\ UNCHANGED <<pull_pending, running, adm, wake, mbox, cached, fetching, ran, toNode, wire>>

\* HandleFrame(kTaskGrant): the reservation moves to the result sender. A type
\* without a handler is dropped by RunTask, which releases the reservation and
\* answers nothing.
ReceiveGrant(n, t) ==
  /\ Receive(n, "grant", t)
  /\ pull_pending' = [pull_pending EXCEPT ![n] = @ \ {t}]
  /\ \/ /\ t \in pull_pending[n] /\ TypeOf[t] \in Handlers[n]
        /\ running' = [running EXCEPT ![n] = @ \cup {t}]
        /\ ran' = [ran EXCEPT ![n] = @ \cup {t}]
        /\ UNCHANGED <<adm, wake>>
     \/ /\ t \in pull_pending[n] /\ TypeOf[t] \notin Handlers[n]
        /\ ReleaseScope(n, t)
        /\ UNCHANGED <<running, ran>>
     \/ /\ t \notin pull_pending[n]
        /\ UNCHANGED <<running, adm, wake, ran>>
  /\ UNCHANGED <<queue, walk, mbox, cached, fetching, toGw, wire>>

\* Faulty variant: a cancelled probe stays queued.
removeNothing(q, t) == q

\* HandleFrame(kTaskProbeCancel) drops the queued probe, keeping the others'
\* order, and the held reservation: kept[i] is what is left of the first i.
keptUpTo(q, t) ==
  LET kept[i \in 0..Len(q)] ==
        IF i = 0 THEN <<>>
        ELSE IF q[i] # t THEN Append(kept[i - 1], q[i]) ELSE kept[i - 1]
  IN  kept

removeQueued(q, t) == keptUpTo(q, t)[Len(q)]

ReceiveCancel(n, t) ==
  /\ Receive(n, "cancel", t)
  /\ pull_pending' = [pull_pending EXCEPT ![n] = @ \ {t}]
  /\ IF t \in pull_pending[n] THEN ReleaseScope(n, t) ELSE UNCHANGED <<adm, wake>>
  /\ queue' = [queue EXCEPT ![n] = removeQueued(@, t)]
  /\ UNCHANGED <<running, walk, mbox, cached, fetching, ran, toGw, wire>>

\* The task's handler sends its terminal result through the tracking sender,
\* or abandons the task when the connection closed (the result goes nowhere).
HandlerFinish(n, t) ==
  /\ ~walk[n].on /\ t \in running[n]
  /\ running' = [running EXCEPT ![n] = @ \ {t}]
  /\ \E type \in {"result", "failure"} : Enqueue(n, type, t)
  /\ ReleaseScope(n, t)
  /\ UNCHANGED <<queue, pull_pending, walk, mbox, cached, fetching, ran, toNode, wire>>

\* A fetcher populates the object cache and submits DEP_COMPLETED.
FetchCompletes(n, t, r) ==
  /\ ~walk[n].on /\ <<t, r>> \in fetching[n]
  /\ fetching' = [fetching EXCEPT ![n] = @ \ {<<t, r>>}]
  /\ cached' = [cached EXCEPT ![n] = @ \cup {r}]
  /\ wake' = [wake EXCEPT ![n] = @ + 1]
  /\ UNCHANGED <<queue, pull_pending, running, adm, walk, mbox, ran, netVars>>

\* The node reads the end of its gateway connection: the mailbox closes.
NodeEndOfStream(n) ==
  /\ mbox[n] /\ ~walk[n].on /\ wire[n] = "cut" /\ toNode[n] = <<>>
  /\ mbox' = [mbox EXCEPT ![n] = FALSE]
  /\ UNCHANGED <<queue, pull_pending, running, adm, walk, wake, cached, fetching, ran, netVars>>

Walking(n) ==
  \/ WalkDefer(n) \/ WalkPull(n) \/ WalkDecline(n) \/ EndWalk(n)
  \/ ProbePull(n) \/ ProbeEnqueue(n) \/ ProbeDecline(n)

\* Steps the node takes without the connection breaking.
NodeStep(n) ==
  \/ \E t \in Tasks : \/ ReceiveProbe(n, t) \/ ReceiveGrant(n, t) \/ ReceiveCancel(n, t)
                      \/ HandlerFinish(n, t)
                      \/ \E r \in Refs : FetchCompletes(n, t, r)
  \/ ProcessCommand(n)
  \/ Walking(n)

------------------------------------------------------------------------------
\* The tasks a node holds a reservation for.
Held(n) == pull_pending[n] \cup running[n]

\* The reservations a node accounts for are those of its pulls and its runs, each
\* once, and they fit: no interleaving of walks, grants, cancels and results
\* leaks a reservation, books one twice or overcommits a pool (Preallocate,
\* AdmissionScope::Release).
ReservationsExact ==
  \A n \in Nodes : /\ pull_pending[n] \cap running[n] = {}
                   /\ AccountsFor(adm[n], Held(n))
                   /\ WithinCapacity(Caps[n], adm[n])
==============================================================================
