---------------------- MODULE ProbeLocalScheduler_proofs ----------------------
(***************************************************************************)
(* A node's probe scheduler by itself, whatever the gateway does: what one *)
(* step does to the channels, the queue and the reservations, that every   *)
(* step keeps the state well typed, and that a probe goes its way through  *)
(* a node once, whatever the walk defers, requeues, declines or pulls.     *)
(***************************************************************************)
EXTENDS ProbeLocalScheduler, SchedulerLemmas

\* The context of a step is large: SMT gets more than its 5 seconds, and a leaf
\* whose translation runs out of time is tried again.
USE SMTT(60), Z3T(60), ZenonT(60)

\* One round of the loop of removeQueued.
KeepNext(q, t, k, i) ==
  IF i = 0 THEN <<>> ELSE IF q[i] # t THEN Append(k[i - 1], q[i]) ELSE k[i - 1]

\* The loop of removeQueued is well defined.
LEMMA KeptExists ==
  ASSUME NEW q \in Seq(Tasks), NEW t
  PROVE  \E k \in [0..Len(q) -> Seq(Tasks)] :
           \A i \in 0..Len(q) : k[i] = KeepNext(q, t, k, i)
<1> DEFINE Good(n) == \E k \in [0..n -> Seq(Tasks)] :
                        \A i \in 0..n : k[i] = KeepNext(q, t, k, i)
           Bad == {n \in 0..Len(q) : ~Good(n)}
<1>1. Len(q) \in Nat /\ \A i \in 1..Len(q) : q[i] \in Tasks
  OBVIOUS
<1>2. Good(0)
  <2> DEFINE k == [i \in 0..0 |-> <<>>]
  <2>1. k \in [0..0 -> Seq(Tasks)]
    OBVIOUS
  <2>2. \A i \in 0..0 : k[i] = KeepNext(q, t, k, i)
    BY DEF KeepNext
  <2> QED
    BY <2>1, <2>2, ZenonT(60)
<1>3. ASSUME NEW n \in 1..Len(q), Good(n - 1)
      PROVE  Good(n)
  <2>1. PICK k \in [0..(n - 1) -> Seq(Tasks)] :
               \A i \in 0..(n - 1) : k[i] = KeepNext(q, t, k, i)
    BY <1>3
  <2> DEFINE last == KeepNext(q, t, k, n)
             g == [i \in 0..n |-> IF i = n THEN last ELSE k[i]]
  <2>2. n \in Nat \ {0} /\ n - 1 \in 0..(n - 1) /\ q[n] \in Tasks
    BY <1>1
  <2>3. k[n - 1] \in Seq(Tasks)
    BY <2>2
  <2>4. last \in Seq(Tasks)
    BY <2>2, <2>3 DEF KeepNext
  <2> HIDE DEF last
  <2>5. g \in [0..n -> Seq(Tasks)]
    BY <2>2, <2>4
  <2>6. ASSUME NEW i \in 0..n
        PROVE  g[i] = KeepNext(q, t, g, i)
    <3>1. i # 0 => g[i - 1] = k[i - 1]
      BY <2>2
    <3>2. CASE i = n
      BY <2>2, <3>1, <3>2 DEF last, KeepNext
    <3>3. CASE i # n
      <4>1. i \in 0..(n - 1) /\ g[i] = k[i]
        BY <2>2, <3>3
      <4> QED
        BY <2>1, <3>1, <4>1, ZenonT(60) DEF KeepNext
    <3> QED
      BY <3>2, <3>3
  <2> HIDE DEF g
  <2> QED
    BY <2>5, <2>6, ZenonT(60)
<1> HIDE DEF Good
<1>4. Bad = {}
  <2> SUFFICES ASSUME Bad # {} PROVE FALSE
    OBVIOUS
  <2>1. PICK m \in Bad : \A k \in Bad : m <= k
    <3>1. Bad \in SUBSET Nat
      BY <1>1
    <3> HIDE DEF Bad
    <3> QED
      BY <3>1, LeastElement
  <2>2. m \in 1..Len(q) /\ m - 1 \in 0..Len(q) /\ ~(m <= m - 1)
    BY <1>1, <1>2
  <2>3. Good(m - 1)
    BY <2>1, <2>2
  <2> QED
    BY <1>3, <2>2, <2>3
<1>5. Good(Len(q))
  BY <1>1, <1>4
<1> QED
  BY <1>5 DEF Good

\* So it does for the function the source computes, entry by entry.
LEMMA KeptUpTo ==
  ASSUME NEW q \in Seq(Tasks), NEW t
  PROVE  \A i \in 0..Len(q) : keptUpTo(q, t)[i] = KeepNext(q, t, keptUpTo(q, t), i)
<1>1. PICK k \in [0..Len(q) -> Seq(Tasks)] :
             \A i \in 0..Len(q) : k[i] = KeepNext(q, t, k, i)
  BY KeptExists, ZenonT(60)
<1>2. k = [i \in 0..Len(q) |->
             IF i = 0 THEN <<>>
             ELSE IF q[i] # t THEN Append(k[i - 1], q[i]) ELSE k[i - 1]]
  BY <1>1 DEF KeepNext
<1>3. keptUpTo(q, t) =
        [i \in 0..Len(q) |->
           IF i = 0 THEN <<>>
           ELSE IF q[i] # t THEN Append(keptUpTo(q, t)[i - 1], q[i])
                            ELSE keptUpTo(q, t)[i - 1]]
  BY <1>2, ZenonT(60) DEF keptUpTo
<1> QED
  BY <1>3, ZenonT(60) DEF KeepNext

\* A cancel removes the task's probe from the queue; no other probe is lost,
\* gained or doubled.
LEMMA OccursRemoveQueued ==
  ASSUME NEW q \in Seq(Tasks), NEW t, NEW u
  PROVE  /\ removeQueued(q, t) \in Seq(Tasks)
         /\ Occurs(u, removeQueued(q, t)) => Occurs(u, q)
         /\ Unique(u, q) => Unique(u, removeQueued(q, t))
<1> DEFINE k == keptUpTo(q, t)
           Before(i) == \E j \in 1..i : q[j] = u
           Good(i) == /\ k[i] \in Seq(Tasks)
                      /\ Occurs(u, k[i]) => Before(i)
                      /\ Unique(u, q) => Unique(u, k[i])
           Bad == {i \in 0..Len(q) : ~Good(i)}
<1>1. Len(q) \in Nat /\ DOMAIN q = 1..Len(q) /\ \A i \in 1..Len(q) : q[i] \in Tasks
  OBVIOUS
<1>2. \A i \in 0..Len(q) : k[i] = KeepNext(q, t, k, i)
  BY KeptUpTo
<1> HIDE DEF k
<1>3. Good(0)
  <2>1. k[0] = <<>>
    BY <1>1, <1>2 DEF KeepNext
  <2> QED
    BY <2>1, OccursEmpty
<1>4. ASSUME NEW i \in 1..Len(q), Good(i - 1)
      PROVE  Good(i)
  <2>1. i \in Nat \ {0} /\ i - 1 \in 0..Len(q) /\ i \in 0..Len(q) /\ q[i] \in Tasks
    BY <1>1
  <2>2. k[i] = IF q[i] # t THEN Append(k[i - 1], q[i]) ELSE k[i - 1]
    BY <1>2, <2>1 DEF KeepNext
  <2>3. Before(i) <=> Before(i - 1) \/ q[i] = u
    BY <2>1
  <2>4. Unique(u, q) /\ q[i] = u => ~Before(i - 1)
    BY <1>1, <2>1 DEF Unique
  <2> HIDE DEF Before
  <2>5. CASE q[i] # t
    <3> DEFINE b == k[i - 1]
    <3>1. b \in Seq(Tasks) /\ (Occurs(u, b) => Before(i - 1)) /\ (Unique(u, q) => Unique(u, b))
      BY <1>4
    <3>2. k[i] = Append(b, q[i])
      BY <2>2, <2>5
    <3> HIDE DEF b
    <3>3. /\ Append(b, q[i]) \in Seq(Tasks)
          /\ Occurs(u, Append(b, q[i])) <=> Occurs(u, b) \/ u = q[i]
          /\ Unique(u, b) /\ (u = q[i] => ~Occurs(u, b)) => Unique(u, Append(b, q[i]))
      BY <2>1, <3>1, OccursAppend
    <3> QED
      BY <2>3, <2>4, <3>1, <3>2, <3>3
  <2>6. CASE q[i] = t
    BY <1>4, <2>2, <2>3, <2>6
  <2> QED
    BY <2>5, <2>6
<1> HIDE DEF Good
<1>5. Bad = {}
  <2> SUFFICES ASSUME Bad # {} PROVE FALSE
    OBVIOUS
  <2>1. PICK m \in Bad : \A i \in Bad : m <= i
    <3>1. Bad \in SUBSET Nat
      BY <1>1
    <3> HIDE DEF Bad
    <3> QED
      BY <3>1, LeastElement
  <2>2. m \in 1..Len(q) /\ m - 1 \in 0..Len(q) /\ ~(m <= m - 1)
    BY <1>1, <1>3
  <2>3. Good(m - 1)
    BY <2>1, <2>2
  <2> QED
    BY <1>4, <2>2, <2>3
<1>6. Good(Len(q))
  BY <1>1, <1>5
<1>7. Before(Len(q)) => Occurs(u, q)
  BY <1>1 DEF Occurs
<1> QED
  BY <1>6, <1>7 DEF Good, k, removeQueued

(* Types.                                                                  *)

\* A map to sets stays one when a set of it grows.
LEMMA SetGrows ==
  ASSUME NEW N, NEW E, NEW f \in [N -> SUBSET E], NEW n \in N, NEW D \in SUBSET E
  PROVE  [f EXCEPT ![n] = @ \cup D] \in [N -> SUBSET E]
<1>1. f[n] \cup D \in SUBSET E
  OBVIOUS
<1> QED
  BY <1>1

\* A frame is its type and its task.
LEMMA FrameEq ==
  ASSUME NEW a, NEW b, NEW t, NEW u
  PROVE  Frame(a, t) = Frame(b, u) <=> a = b /\ t = u
  BY DEF Frame

GwTypes == {"pull", "decline", "submission", "result", "failure", "rejected"}

NodeTypes == {"probe", "grant", "cancel", "submission", "result", "rejected"}

\* A frame enqueued by a node is appended to its channel or dropped.
LEMMA EnqueueEffect ==
  ASSUME NetTypeOK, NEW n \in Nodes, NEW type \in GwTypes, NEW t \in Tasks,
         Enqueue(n, type, t)
  PROVE  /\ toGw' \in [Nodes -> Seq(GwFrames)]
         /\ toGw'[n] = toGw[n] \/ toGw'[n] = Append(toGw[n], Frame(type, t))
         /\ \A m \in Nodes : m # n => toGw'[m] = toGw[m]
<1>1. toGw \in [Nodes -> Seq(GwFrames)] /\ toGw[n] \in Seq(GwFrames)
  BY DEF NetTypeOK
<1>2. Frame(type, t) \in GwFrames
  BY DEF Frame, GwFrames, GwTypes
<1>3. Append(toGw[n], Frame(type, t)) \in Seq(GwFrames)
  BY <1>1, <1>2
<1> QED
  BY <1>1, <1>3 DEF Enqueue, Carry

\* Receiving takes the first frame of the channel to a node.
LEMMA ReceiveEffect ==
  ASSUME NetTypeOK, NEW n \in Nodes, NEW type, NEW t, Receive(n, type, t)
  PROVE  /\ toNode' \in [Nodes -> Seq(NodeFrames)]
         /\ toNode[n] \in Seq(NodeFrames) /\ toNode[n] # <<>> /\ Head(toNode[n]) = Frame(type, t)
         /\ toNode'[n] = Tail(toNode[n])
         /\ \A m \in Nodes : m # n => toNode'[m] = toNode[m]
<1>1. toNode \in [Nodes -> Seq(NodeFrames)] /\ toNode[n] \in Seq(NodeFrames)
  BY DEF NetTypeOK
<1>2. /\ toNode[n] # <<>> /\ Head(toNode[n]) = Frame(type, t)
      /\ toNode' = [toNode EXCEPT ![n] = Tail(@)]
  BY DEF Receive, Arrives
<1>3. Tail(toNode[n]) \in Seq(NodeFrames)
  BY <1>1, <1>2
<1> QED
  BY <1>1, <1>2, <1>3

WalkStates == [on : BOOLEAN, deferred : Seq(Tasks), arriving : Tasks \cup {NoTask}]

AnyNodeStep(n) == NodeStep(n) \/ NodeEndOfStream(n)

\* The steps of a node keep every variable in its type.
LEMMA AgentType ==
  ASSUME NetTypeOK, NodeTypeOK, NEW n \in Nodes, AnyNodeStep(n)
  PROVE  NetTypeOK' /\ NodeTypeOK'
<1>1. /\ queue[n] \in Seq(Tasks) /\ walk[n] \in WalkStates /\ walk[n].deferred \in Seq(Tasks)
      /\ adm[n] \in AdmissionStates /\ wake[n] \in Nat /\ Requeued(n) \in Seq(Tasks)
  BY DEF NodeTypeOK, WalkStates, Requeued
<1>3. Idle \in WalkStates
  BY DEF Idle, WalkStates
<1>4. ASSUME NEW t \in Tasks, ReceiveProbe(n, t)
      PROVE  NetTypeOK' /\ NodeTypeOK'
  <2>1. toNode' \in [Nodes -> Seq(NodeFrames)]
    BY <1>4, ReceiveEffect DEF ReceiveProbe
  <2>2. [Idle EXCEPT !.on = TRUE, !.arriving = t] \in WalkStates
    BY <1>3, ZenonT(60) DEF Idle, WalkStates
  <2> QED
    BY <1>4, <2>1, <2>2, ZenonT(60) DEF ReceiveProbe, NetTypeOK, NodeTypeOK, WalkStates
<1>5. ASSUME NEW t \in Tasks, ReleaseScope(n, t)
      PROVE  adm' \in [Nodes -> AdmissionStates] /\ wake' \in [Nodes -> Nat]
  BY <1>1, <1>5, UsageType DEF ReleaseScope, NodeTypeOK
<1>6. ASSUME NEW t \in Tasks, ReceiveGrant(n, t)
      PROVE  NetTypeOK' /\ NodeTypeOK'
  <2>1. toNode' \in [Nodes -> Seq(NodeFrames)]
    BY <1>6, ReceiveEffect DEF ReceiveGrant
  <2>2. adm' \in [Nodes -> AdmissionStates] /\ wake' \in [Nodes -> Nat]
    BY <1>5, <1>6 DEF ReceiveGrant, NodeTypeOK
  <2>3. pull_pending' \in [Nodes -> SUBSET Tasks]
    BY <1>6 DEF ReceiveGrant, NodeTypeOK
  <2>4. running' \in [Nodes -> SUBSET Tasks] /\ ran' \in [Nodes -> SUBSET Tasks]
    <3>1. \/ UNCHANGED <<running, ran>>
          \/ /\ running' = [running EXCEPT ![n] = @ \cup {t}]
             /\ ran' = [ran EXCEPT ![n] = @ \cup {t}]
      BY <1>6 DEF ReceiveGrant
    <3>2. {t} \in SUBSET Tasks /\ running \in [Nodes -> SUBSET Tasks] /\ ran \in [Nodes -> SUBSET Tasks]
      BY DEF NodeTypeOK
    <3>3. /\ [running EXCEPT ![n] = @ \cup {t}] \in [Nodes -> SUBSET Tasks]
          /\ [ran EXCEPT ![n] = @ \cup {t}] \in [Nodes -> SUBSET Tasks]
      BY <3>2, SetGrows
    <3> QED
      BY <3>1, <3>2, <3>3
  <2>5. UNCHANGED <<queue, walk, mbox, cached, fetching, toGw, wire>>
    BY <1>6 DEF ReceiveGrant
  <2> QED
    BY <2>1, <2>2, <2>3, <2>4, <2>5 DEF NetTypeOK, NodeTypeOK
<1>7. ASSUME NEW t \in Tasks, ReceiveCancel(n, t)
      PROVE  NetTypeOK' /\ NodeTypeOK'
  <2>1. toNode' \in [Nodes -> Seq(NodeFrames)]
    BY <1>7, ReceiveEffect DEF ReceiveCancel
  <2>2. adm' \in [Nodes -> AdmissionStates] /\ wake' \in [Nodes -> Nat]
    BY <1>5, <1>7 DEF ReceiveCancel, NodeTypeOK
  <2>3. removeQueued(queue[n], t) \in Seq(Tasks)
    BY <1>1, OccursRemoveQueued, ZenonT(60)
  <2> QED
    BY <1>7, <2>1, <2>2, <2>3, ZenonT(60) DEF ReceiveCancel, NetTypeOK, NodeTypeOK
<1>8. ASSUME NEW t \in Tasks, HandlerFinish(n, t)
      PROVE  NetTypeOK' /\ NodeTypeOK'
  <2>1. toGw' \in [Nodes -> Seq(GwFrames)]
    BY <1>8, EnqueueEffect DEF HandlerFinish, GwTypes
  <2>2. adm' \in [Nodes -> AdmissionStates] /\ wake' \in [Nodes -> Nat]
    BY <1>5, <1>8 DEF HandlerFinish
  <2> QED
    BY <1>8, <2>1, <2>2, ZenonT(60) DEF HandlerFinish, NetTypeOK, NodeTypeOK
<1>9. ASSUME NEW t \in Tasks, NEW r \in Refs, FetchCompletes(n, t, r)
      PROVE  NetTypeOK' /\ NodeTypeOK'
  BY <1>1, <1>9 DEF FetchCompletes, NetTypeOK, NodeTypeOK, netVars
<1>10. ASSUME ProcessCommand(n)
       PROVE  NetTypeOK' /\ NodeTypeOK'
  <2>1. [Idle EXCEPT !.on = TRUE] \in WalkStates
    BY <1>3, ZenonT(60) DEF Idle, WalkStates
  <2>2. wake[n] - 1 \in Nat
    BY <1>1, <1>10 DEF ProcessCommand
  <2> QED
    BY <1>10, <2>1, <2>2 DEF ProcessCommand, NetTypeOK, NodeTypeOK, netVars, WalkStates
<1>11. ASSUME WalkPop(n)
       PROVE  queue' \in [Nodes -> Seq(Tasks)] /\ Head(queue[n]) \in Tasks
  <2>1. Tail(queue[n]) \in Seq(Tasks) /\ Head(queue[n]) \in Tasks
    BY <1>1, <1>11 DEF WalkPop
  <2> QED
    BY <1>11, <2>1 DEF WalkPop, NodeTypeOK
<1>12. ASSUME WalkDefer(n)
       PROVE  NetTypeOK' /\ NodeTypeOK'
  <2>1. queue' \in [Nodes -> Seq(Tasks)] /\ Head(queue[n]) \in Tasks
    BY <1>11, <1>12 DEF WalkDefer
  <2>2. Append(walk[n].deferred, Head(queue[n])) \in Seq(Tasks)
    BY <1>1, <2>1
  <2>3. walk' \in [Nodes -> WalkStates]
    BY <1>1, <1>12, <2>2, ZenonT(60) DEF WalkDefer, NodeTypeOK, WalkStates
  <2> QED
    BY <1>12, <2>1, <2>3 DEF WalkDefer, NetTypeOK, NodeTypeOK, netVars, WalkStates
<1>13. ASSUME NEW t \in Tasks, Preallocate(n, t)
       PROVE  /\ adm' \in [Nodes -> AdmissionStates] /\ toGw' \in [Nodes -> Seq(GwFrames)]
              /\ pull_pending' \in [Nodes -> SUBSET Tasks]
  <2>1. toGw' \in [Nodes -> Seq(GwFrames)]
    BY <1>13, EnqueueEffect DEF Preallocate, GwTypes
  <2> QED
    BY <1>1, <1>13, <2>1, UsageType, ZenonT(60) DEF Preallocate, NodeTypeOK
<1>14. ASSUME WalkPull(n)
       PROVE  NetTypeOK' /\ NodeTypeOK'
  <2>1. queue' \in [Nodes -> Seq(Tasks)] /\ Head(queue[n]) \in Tasks
    BY <1>11, <1>14, ZenonT(60) DEF WalkPull
  <2> QED
    BY <1>13, <1>14, <2>1 DEF WalkPull, NetTypeOK, NodeTypeOK
<1>15. ASSUME WalkDecline(n)
       PROVE  NetTypeOK' /\ NodeTypeOK'
  <2>1. queue' \in [Nodes -> Seq(Tasks)] /\ Head(queue[n]) \in Tasks
    BY <1>11, <1>15, ZenonT(60) DEF WalkDecline
  <2>2. toGw' \in [Nodes -> Seq(GwFrames)]
    BY <1>15, <2>1, EnqueueEffect DEF WalkDecline, GwTypes
  <2> QED
    BY <1>15, <2>1, <2>2 DEF WalkDecline, NetTypeOK, NodeTypeOK
<1>16. ASSUME WalkEnds(n)
       PROVE  walk' \in [Nodes -> WalkStates]
  BY <1>3, <1>16 DEF WalkEnds, NodeTypeOK, WalkStates
<1>17. ASSUME EndWalk(n)
       PROVE  NetTypeOK' /\ NodeTypeOK'
  BY <1>1, <1>16, <1>17 DEF EndWalk, NetTypeOK, NodeTypeOK, netVars, WalkStates
<1>18. ASSUME walk[n].arriving # NoTask
       PROVE  walk[n].arriving \in Tasks
  BY <1>1, <1>18 DEF WalkStates
<1>19. ASSUME NEW t \in Tasks, startPrefetch(n, t)
       PROVE  fetching' \in [Nodes -> SUBSET (Tasks \X Refs)]
  <2>1. {t} \X Deps[t] \in SUBSET (Tasks \X Refs)
    BY NodeConfigAssumption
  <2> QED
    BY <1>19, <2>1 DEF startPrefetch, NodeTypeOK
<1>20. ASSUME ProbePull(n)
       PROVE  NetTypeOK' /\ NodeTypeOK'
  BY <1>1, <1>13, <1>16, <1>18, <1>19, <1>20, ZenonT(60) DEF ProbePull, NetTypeOK, NodeTypeOK, WalkStates
<1>21. ASSUME ProbeEnqueue(n)
       PROVE  NetTypeOK' /\ NodeTypeOK'
  <2>1. Append(Requeued(n), walk[n].arriving) \in Seq(Tasks)
    BY <1>1, <1>18, <1>21 DEF ProbeEnqueue
  <2> QED
    BY <1>16, <1>18, <1>19, <1>21, <2>1 DEF ProbeEnqueue, NetTypeOK, NodeTypeOK, WalkStates, netVars
<1>22. ASSUME ProbeDecline(n)
       PROVE  NetTypeOK' /\ NodeTypeOK'
  <2>1. toGw' \in [Nodes -> Seq(GwFrames)]
    BY <1>18, <1>22, EnqueueEffect DEF ProbeDecline, GwTypes
  <2> QED
    BY <1>1, <1>16, <1>22, <2>1, ZenonT(60) DEF ProbeDecline, NetTypeOK, NodeTypeOK, WalkStates
<1>23. ASSUME NodeEndOfStream(n)
       PROVE  NetTypeOK' /\ NodeTypeOK'
  BY <1>23 DEF NodeEndOfStream, NetTypeOK, NodeTypeOK, netVars
<1> QED
  BY <1>4, <1>6, <1>7, <1>8, <1>9, <1>10, <1>12, <1>14, <1>15, <1>17, <1>20, <1>21, <1>22,
     <1>23 DEF AnyNodeStep, NodeStep, Walking

-------------------------------------------------------------------------------
(***************************************************************************)
(* The way of a probe: a frame to the node, the argument of handleProbe,   *)
(* an entry of the queue or of the deferred probes of a walk, and finally  *)
(* a pull on its way back. tn, w, q and tg are the channel to the node,    *)
(* its walk, its queue and the channel from it.                            *)
(***************************************************************************)
AwaitedIn(tn, w, q, t) ==
  \/ Occurs(Frame("probe", t), tn)
  \/ w.arriving = t
  \/ Occurs(t, q)
  \/ Occurs(t, w.deferred)

UnderwayIn(tn, w, q, tg, t) == AwaitedIn(tn, w, q, t) \/ Occurs(Frame("pull", t), tg)

\* The probe is at one of these places at most, once.
OnceIn(tn, w, q, tg, t) ==
  /\ Unique(Frame("probe", t), tn) /\ Unique(t, q)
  /\ Unique(t, w.deferred) /\ Unique(Frame("pull", t), tg)
  /\ Occurs(Frame("probe", t), tn) =>
       w.arriving # t /\ ~Occurs(t, q) /\ ~Occurs(t, w.deferred) /\ ~Occurs(Frame("pull", t), tg)
  /\ w.arriving = t => ~Occurs(t, q) /\ ~Occurs(t, w.deferred) /\ ~Occurs(Frame("pull", t), tg)
  /\ Occurs(t, q) => ~Occurs(t, w.deferred) /\ ~Occurs(Frame("pull", t), tg)
  /\ Occurs(t, w.deferred) => ~Occurs(Frame("pull", t), tg)

\* The node has not answered the probe of t yet.
Awaited(n, t) == AwaitedIn(toNode[n], walk[n], queue[n], t)

Underway(n, t) == UnderwayIn(toNode[n], walk[n], queue[n], toGw[n], t)

Once(n, t) == OnceIn(toNode[n], walk[n], queue[n], toGw[n], t)

\* Moving a probe along its way neither creates nor doubles one.
KeepsIn(tn, w, q, tg, tn2, w2, q2, tg2, t) ==
  /\ AwaitedIn(tn2, w2, q2, t) => AwaitedIn(tn, w, q, t)
  /\ UnderwayIn(tn2, w2, q2, tg2, t) => UnderwayIn(tn, w, q, tg, t)
  /\ OnceIn(tn, w, q, tg, t) => OnceIn(tn2, w2, q2, tg2, t)

Keeps(n, t) == KeepsIn(toNode[n], walk[n], queue[n], toGw[n],
                       toNode'[n], walk'[n], queue'[n], toGw'[n], t)

\* A frame that is neither a probe nor a pull is of no concern, received or sent.
LEMMA OtherFrames ==
  ASSUME NEW tn \in Seq(NodeFrames), tn # <<>>, NEW tg \in Seq(GwFrames),
         NEW f \in GwFrames, f.type # "pull", NEW w, NEW q, NEW t \in Tasks
  PROVE  /\ KeepsIn(tn, w, q, tg, Tail(tn), w, q, tg, t)
         /\ KeepsIn(tn, w, q, tg, tn, w, q, Append(tg, f), t)
<1>1. f # Frame("pull", t)
  BY DEF Frame
<1>2. /\ Occurs(Frame("probe", t), Tail(tn)) => Occurs(Frame("probe", t), tn)
      /\ Unique(Frame("probe", t), tn) => Unique(Frame("probe", t), Tail(tn))
  BY OccursTail
<1>3. /\ Occurs(Frame("pull", t), Append(tg, f)) <=> Occurs(Frame("pull", t), tg)
      /\ Unique(Frame("pull", t), tg) => Unique(Frame("pull", t), Append(tg, f))
  BY <1>1, OccursAppend
<1>4. KeepsIn(tn, w, q, tg, Tail(tn), w, q, tg, t)
  BY <1>2 DEF KeepsIn, AwaitedIn, UnderwayIn, OnceIn
<1>5. KeepsIn(tn, w, q, tg, tn, w, q, Append(tg, f), t)
  BY <1>3 DEF KeepsIn, AwaitedIn, UnderwayIn, OnceIn
<1> QED
  BY <1>4, <1>5

\* A probe is received and becomes the argument of handleProbe.
LEMMA ProbeArrives ==
  ASSUME NEW tn \in Seq(NodeFrames), tn # <<>>, NEW u \in Tasks, Head(tn) = Frame("probe", u),
         NEW w, NEW w2, w2.arriving = u, w2.deferred = <<>>,
         NEW q, NEW tg, NEW t \in Tasks
  PROVE  KeepsIn(tn, w, q, tg, Tail(tn), w2, q, tg, t)
<1>1. /\ Occurs(Frame("probe", t), Tail(tn)) => Occurs(Frame("probe", t), tn)
      /\ Unique(Frame("probe", t), tn) => Unique(Frame("probe", t), Tail(tn))
      /\ Unique(Frame("probe", t), tn) /\ Head(tn) = Frame("probe", t)
           => ~Occurs(Frame("probe", t), Tail(tn))
      /\ Occurs(Head(tn), tn)
  BY OccursTail
<1>2. ~Occurs(t, w2.deferred) /\ Unique(t, w2.deferred)
  BY OccursEmpty
<1>3. CASE t = u
  BY <1>1, <1>2, <1>3 DEF KeepsIn, AwaitedIn, UnderwayIn, OnceIn
<1>4. CASE t # u
  BY <1>1, <1>2, <1>4 DEF KeepsIn, AwaitedIn, UnderwayIn, OnceIn
<1> QED
  BY <1>3, <1>4

\* A queued probe is popped and dropped, deferred or pulled.
LEMMA ProbePopped ==
  ASSUME NEW tn, NEW w \in WalkStates, NEW q \in Seq(Tasks), q # <<>>,
         NEW tg \in Seq(GwFrames), NEW t \in Tasks
  PROVE  /\ KeepsIn(tn, w, q, tg, tn, w, Tail(q), tg, t)
         /\ KeepsIn(tn, w, q, tg, tn, [w EXCEPT !.deferred = Append(@, Head(q))], Tail(q), tg, t)
         /\ KeepsIn(tn, w, q, tg, tn, w, Tail(q), Append(tg, Frame("pull", Head(q))), t)
         /\ OnceIn(tn, w, q, tg, t) /\ t = Head(q) =>
              AwaitedIn(tn, w, q, t) /\ ~AwaitedIn(tn, w, Tail(q), t)
<1> DEFINE h == Head(q)
           d == w.deferred
           w2 == [w EXCEPT !.deferred = Append(@, Head(q))]
<1>1. /\ h \in Tasks /\ Occurs(h, q)
      /\ Occurs(t, Tail(q)) => Occurs(t, q)
      /\ Unique(t, q) => Unique(t, Tail(q))
      /\ Unique(t, q) /\ h = t => ~Occurs(t, Tail(q))
  BY OccursTail
<1>2. Frame("pull", h) \in GwFrames /\ (Frame("pull", t) = Frame("pull", h) <=> t = h)
  BY <1>1, FrameEq DEF GwFrames, Frame
<1>3. d \in Seq(Tasks)
  BY DEF WalkStates
<1>4. /\ Occurs(t, Append(d, h)) <=> Occurs(t, d) \/ t = h
      /\ Unique(t, d) /\ (t = h => ~Occurs(t, d)) => Unique(t, Append(d, h))
  BY <1>1, <1>3, OccursAppend
<1>5. /\ Occurs(Frame("pull", t), Append(tg, Frame("pull", h))) <=> Occurs(Frame("pull", t), tg) \/ t = h
      /\ Unique(Frame("pull", t), tg) /\ (t = h => ~Occurs(Frame("pull", t), tg))
           => Unique(Frame("pull", t), Append(tg, Frame("pull", h)))
  BY <1>2, OccursAppend
<1>6. w2.deferred = Append(d, h) /\ w2.arriving = w.arriving
  BY DEF WalkStates
<1> HIDE DEF h, w2, d
<1>7. KeepsIn(tn, w, q, tg, tn, w, Tail(q), tg, t)
  BY <1>1 DEF KeepsIn, AwaitedIn, UnderwayIn, OnceIn
<1>8. KeepsIn(tn, w, q, tg, tn, w2, Tail(q), tg, t)
  BY <1>1, <1>4, <1>6 DEF KeepsIn, AwaitedIn, UnderwayIn, OnceIn, d
<1>9. KeepsIn(tn, w, q, tg, tn, w, Tail(q), Append(tg, Frame("pull", h)), t)
  BY <1>1, <1>5 DEF KeepsIn, AwaitedIn, UnderwayIn, OnceIn
<1>10. OnceIn(tn, w, q, tg, t) /\ t = h => AwaitedIn(tn, w, q, t) /\ ~AwaitedIn(tn, w, Tail(q), t)
  BY <1>1 DEF AwaitedIn, OnceIn
<1> QED
  BY <1>7, <1>8, <1>9, <1>10 DEF h, w2

\* A walk ends: the deferred probes go back to the queue, and the arriving one
\* is dropped, queued behind them or pulled.
LEMMA WalkFinished ==
  ASSUME NEW tn, NEW w \in WalkStates, NEW q \in Seq(Tasks),
         NEW tg \in Seq(GwFrames), NEW t \in Tasks
  PROVE  LET a == w.arriving
             r == q \o w.deferred
         IN  /\ KeepsIn(tn, w, q, tg, tn, Idle, r, tg, t)
             /\ a \in Tasks => /\ KeepsIn(tn, w, q, tg, tn, Idle, Append(r, a), tg, t)
                               /\ KeepsIn(tn, w, q, tg, tn, Idle, r, Append(tg, Frame("pull", a)), t)
             /\ OnceIn(tn, w, q, tg, t) /\ t = a =>
                  AwaitedIn(tn, w, q, t) /\ ~AwaitedIn(tn, Idle, r, t)
<1> DEFINE a == w.arriving
           d == w.deferred
           r == q \o d
<1>1. d \in Seq(Tasks)
  BY DEF WalkStates
<1>2. /\ r \in Seq(Tasks)
      /\ Occurs(t, r) <=> Occurs(t, q) \/ Occurs(t, d)
      /\ Unique(t, q) /\ Unique(t, d) /\ ~(Occurs(t, q) /\ Occurs(t, d)) => Unique(t, r)
  BY <1>1, OccursConcat
<1>3. Idle.arriving # t /\ ~Occurs(t, Idle.deferred) /\ Unique(t, Idle.deferred)
  BY OccursEmpty, NoTaskAssumption DEF Idle
<1> HIDE DEF r, d
<1>4. KeepsIn(tn, w, q, tg, tn, Idle, r, tg, t)
  BY <1>2, <1>3 DEF KeepsIn, AwaitedIn, UnderwayIn, OnceIn, d
<1>5. ASSUME a \in Tasks
      PROVE  KeepsIn(tn, w, q, tg, tn, Idle, Append(r, a), tg, t)
  <2>1. /\ Occurs(t, Append(r, a)) <=> Occurs(t, r) \/ t = a
        /\ Unique(t, r) /\ (t = a => ~Occurs(t, r)) => Unique(t, Append(r, a))
    BY <1>2, <1>5, OccursAppend
  <2> QED
    BY <1>2, <1>3, <2>1 DEF KeepsIn, AwaitedIn, UnderwayIn, OnceIn, d
<1>6. ASSUME a \in Tasks
      PROVE  KeepsIn(tn, w, q, tg, tn, Idle, r, Append(tg, Frame("pull", a)), t)
  <2>1. Frame("pull", a) \in GwFrames /\ (Frame("pull", t) = Frame("pull", a) <=> t = a)
    BY <1>6, FrameEq DEF GwFrames, Frame
  <2>2. /\ Occurs(Frame("pull", t), Append(tg, Frame("pull", a)))
             <=> Occurs(Frame("pull", t), tg) \/ t = a
        /\ Unique(Frame("pull", t), tg) /\ (t = a => ~Occurs(Frame("pull", t), tg))
             => Unique(Frame("pull", t), Append(tg, Frame("pull", a)))
    BY <2>1, OccursAppend
  <2> QED
    BY <1>2, <1>3, <2>2 DEF KeepsIn, AwaitedIn, UnderwayIn, OnceIn, d
<1>7. OnceIn(tn, w, q, tg, t) /\ t = a => AwaitedIn(tn, w, q, t) /\ ~AwaitedIn(tn, Idle, r, t)
  BY <1>2, <1>3 DEF AwaitedIn, OnceIn, d
<1> QED
  BY <1>4, <1>5, <1>6, <1>7 DEF r, d

\* No step of a node creates or doubles a probe, on that node or another.
LEMMA AgentKeeps ==
  ASSUME NetTypeOK, NodeTypeOK, NEW n \in Nodes, AnyNodeStep(n), NEW m \in Nodes, NEW t \in Tasks
  PROVE  Keeps(m, t)
<1> DEFINE tn == toNode[n]
           w == walk[n]
           q == queue[n]
           tg == toGw[n]
<1>1. /\ tn \in Seq(NodeFrames) /\ w \in WalkStates /\ q \in Seq(Tasks) /\ tg \in Seq(GwFrames)
      /\ NetTypeOK /\ NodeTypeOK
  BY DEF NetTypeOK, NodeTypeOK, WalkStates
<1>2. KeepsIn(tn, w, q, tg, tn, w, q, tg, t)
  BY DEF KeepsIn
<1>3. ASSUME NEW f \in GwFrames, f.type # "pull", tn # <<>>
      PROVE  /\ KeepsIn(tn, w, q, tg, Tail(tn), w, q, tg, t)
             /\ KeepsIn(tn, w, q, tg, tn, w, q, Append(tg, f), t)
  BY <1>1, <1>3, OtherFrames
<1>4. ASSUME m # n,
             toNode'[m] = toNode[m], walk'[m] = walk[m], queue'[m] = queue[m], toGw'[m] = toGw[m]
      PROVE  Keeps(m, t)
  BY <1>4 DEF Keeps, KeepsIn
<1>5. ASSUME NEW u \in Tasks, ReceiveProbe(n, u)
      PROVE  Keeps(m, t)
  <2>1. /\ tn # <<>> /\ Head(tn) = Frame("probe", u)
        /\ toNode'[n] = Tail(tn) /\ \A k \in Nodes : k # n => toNode'[k] = toNode[k]
    BY <1>1, <1>5, ReceiveEffect DEF ReceiveProbe
  <2>2. /\ walk'[n].arriving = u /\ walk'[n].deferred = <<>>
        /\ \A k \in Nodes : k # n => walk'[k] = walk[k]
        /\ queue' = queue /\ toGw' = toGw
    BY <1>5 DEF ReceiveProbe, Idle, NodeTypeOK
  <2>3. KeepsIn(tn, w, q, tg, Tail(tn), walk'[n], q, tg, t)
    BY <1>1, <2>1, <2>2, ProbeArrives
  <2> QED
    BY <1>4, <2>1, <2>2, <2>3 DEF Keeps
<1>6. ASSUME NEW u \in Tasks, ReceiveGrant(n, u)
      PROVE  Keeps(m, t)
  <2>1. /\ tn # <<>> /\ toNode'[n] = Tail(tn) /\ \A k \in Nodes : k # n => toNode'[k] = toNode[k]
        /\ walk' = walk /\ queue' = queue /\ toGw' = toGw
    BY <1>1, <1>6, ReceiveEffect DEF ReceiveGrant
  <2>2. KeepsIn(tn, w, q, tg, Tail(tn), w, q, tg, t)
    <3>1. Frame("decline", t) \in GwFrames /\ Frame("decline", t).type # "pull"
      BY DEF Frame, GwFrames
    <3> QED
      BY <1>3, <2>1, <3>1
  <2> QED
    BY <1>4, <2>1, <2>2 DEF Keeps
<1>7. ASSUME NEW u \in Tasks, ReceiveCancel(n, u)
      PROVE  Keeps(m, t)
  <2> DEFINE r == removeQueued(q, u)
  <2>1. /\ tn # <<>> /\ toNode'[n] = Tail(tn) /\ \A k \in Nodes : k # n => toNode'[k] = toNode[k]
        /\ queue'[n] = r /\ \A k \in Nodes : k # n => queue'[k] = queue[k]
        /\ walk' = walk /\ toGw' = toGw
    BY <1>1, <1>7, ReceiveEffect DEF ReceiveCancel, NodeTypeOK
  <2>2. (Occurs(t, r) => Occurs(t, q)) /\ (Unique(t, q) => Unique(t, r))
    BY <1>1, OccursRemoveQueued
  <2>3. /\ Occurs(Frame("probe", t), Tail(tn)) => Occurs(Frame("probe", t), tn)
        /\ Unique(Frame("probe", t), tn) => Unique(Frame("probe", t), Tail(tn))
    BY <1>1, <2>1, OccursTail
  <2> HIDE DEF r, tn, w, q, tg
  <2>4. KeepsIn(tn, w, q, tg, Tail(tn), w, r, tg, t)
    BY <2>2, <2>3 DEF KeepsIn, AwaitedIn, UnderwayIn, OnceIn
  <2> QED
    BY <1>4, <2>1, <2>4, ZenonT(60) DEF Keeps, tn, w, q, tg
<1>8. ASSUME NEW u \in Tasks, HandlerFinish(n, u)
      PROVE  Keeps(m, t)
  <2>1. PICK type \in {"result", "failure"} : Enqueue(n, type, u)
    BY <1>8 DEF HandlerFinish
  <2>2. /\ toGw'[n] = tg \/ toGw'[n] = Append(tg, Frame(type, u))
        /\ \A k \in Nodes : k # n => toGw'[k] = toGw[k]
        /\ toNode' = toNode /\ walk' = walk /\ queue' = queue
    BY <1>1, <1>8, <2>1, EnqueueEffect DEF HandlerFinish, GwTypes
  <2>3. KeepsIn(tn, w, q, tg, tn, w, q, Append(tg, Frame(type, u)), t)
    <3>1. Frame(type, u) # Frame("pull", t) /\ Frame(type, u) \in GwFrames
      BY FrameEq DEF Frame, GwFrames
    <3>2. /\ Occurs(Frame("pull", t), Append(tg, Frame(type, u))) <=> Occurs(Frame("pull", t), tg)
          /\ Unique(Frame("pull", t), tg) => Unique(Frame("pull", t), Append(tg, Frame(type, u)))
      BY <1>1, <3>1, OccursAppend
    <3> QED
      BY <3>2, ZenonT(60) DEF KeepsIn, AwaitedIn, UnderwayIn, OnceIn
  <2> QED
    BY <1>2, <1>4, <2>2, <2>3, ZenonT(60) DEF Keeps
<1>9. ASSUME UNCHANGED <<toNode, walk, queue, toGw>>
      PROVE  Keeps(m, t)
  BY <1>9 DEF Keeps, KeepsIn
<1>10. ASSUME ProcessCommand(n)
       PROVE  Keeps(m, t)
  <2>1. /\ walk'[n].arriving = NoTask /\ walk'[n].deferred = <<>>
        /\ \A k \in Nodes : k # n => walk'[k] = walk[k]
        /\ toNode' = toNode /\ queue' = queue /\ toGw' = toGw
    BY <1>10 DEF ProcessCommand, Idle, NodeTypeOK, netVars
  <2>2. walk'[n].arriving # t /\ ~Occurs(t, walk'[n].deferred) /\ Unique(t, walk'[n].deferred)
    BY <2>1, OccursEmpty, NoTaskAssumption, ZenonT(60)
  <2>3. KeepsIn(tn, w, q, tg, tn, walk'[n], q, tg, t)
    BY <2>2 DEF KeepsIn, AwaitedIn, UnderwayIn, OnceIn
  <2> QED
    BY <1>4, <2>1, <2>3 DEF Keeps
<1>11. ASSUME WalkPop(n)
       PROVE  /\ q # <<>> /\ Head(q) \in Tasks
              /\ queue'[n] = Tail(q) /\ \A k \in Nodes : k # n => queue'[k] = queue[k]
              /\ KeepsIn(tn, w, q, tg, tn, w, Tail(q), tg, t)
              /\ KeepsIn(tn, w, q, tg, tn, [w EXCEPT !.deferred = Append(@, Head(q))], Tail(q), tg, t)
              /\ KeepsIn(tn, w, q, tg, tn, w, Tail(q), Append(tg, Frame("pull", Head(q))), t)
  <2>1. q # <<>> /\ queue' = [queue EXCEPT ![n] = Tail(@)] /\ queue \in [Nodes -> Seq(Tasks)]
    BY <1>1, <1>11 DEF WalkPop, NodeTypeOK
  <2>2. Head(q) \in Tasks
    BY <1>1, <2>1
  <2> HIDE DEF tn, w, tg
  <2> QED
    BY <1>1, <2>1, <2>2, ProbePopped, ZenonT(60)
<1>12. ASSUME WalkDefer(n)
       PROVE  Keeps(m, t)
  <2>1. /\ walk'[n] = [w EXCEPT !.deferred = Append(@, Head(q))]
        /\ \A k \in Nodes : k # n => walk'[k] = walk[k]
        /\ toNode' = toNode /\ toGw' = toGw
    BY <1>1, <1>12 DEF WalkDefer, NodeTypeOK, netVars
  <2> QED
    BY <1>4, <1>11, <1>12, <2>1 DEF Keeps, WalkDefer
<1>13. ASSUME WalkPull(n)
       PROVE  Keeps(m, t)
  <2>1. WalkPop(n) /\ Enqueue(n, "pull", Head(q)) /\ walk' = walk /\ toNode' = toNode
    BY <1>13 DEF WalkPull, Preallocate
  <2>2. /\ toGw'[n] = tg \/ toGw'[n] = Append(tg, Frame("pull", Head(q)))
        /\ \A k \in Nodes : k # n => toGw'[k] = toGw[k]
    BY <1>1, <1>11, <2>1, EnqueueEffect DEF GwTypes
  <2> QED
    BY <1>4, <1>11, <2>1, <2>2, ZenonT(60) DEF Keeps
<1>14. ASSUME WalkDecline(n)
       PROVE  Keeps(m, t)
  <2>1. WalkPop(n) /\ Enqueue(n, "decline", Head(q)) /\ walk' = walk /\ toNode' = toNode
    BY <1>14 DEF WalkDecline
  <2>2. /\ toGw'[n] = tg \/ toGw'[n] = Append(tg, Frame("decline", Head(q)))
        /\ \A k \in Nodes : k # n => toGw'[k] = toGw[k]
    BY <1>1, <1>11, <2>1, EnqueueEffect, ZenonT(60) DEF GwTypes
  <2>3. KeepsIn(tn, w, q, tg, tn, w, Tail(q), Append(tg, Frame("decline", Head(q))), t)
    <3>1. Frame("decline", Head(q)) # Frame("pull", t) /\ Frame("decline", Head(q)) \in GwFrames
      BY <1>11, <2>1, FrameEq DEF Frame, GwFrames
    <3>2. /\ Occurs(Frame("pull", t), Append(tg, Frame("decline", Head(q)))) <=> Occurs(Frame("pull", t), tg)
          /\ Unique(Frame("pull", t), tg) => Unique(Frame("pull", t), Append(tg, Frame("decline", Head(q))))
      BY <1>1, <3>1, OccursAppend
    <3>3. KeepsIn(tn, w, q, tg, tn, w, Tail(q), tg, t)
      BY <1>11, <2>1
    <3> HIDE DEF tn, w, q, tg
    <3> QED
      BY <3>2, <3>3 DEF KeepsIn, AwaitedIn, UnderwayIn, OnceIn
  <2> QED
    BY <1>4, <1>11, <2>1, <2>2, <2>3, ZenonT(60) DEF Keeps
<1>15. /\ KeepsIn(tn, w, q, tg, tn, Idle, Requeued(n), tg, t)
       /\ w.arriving \in Tasks =>
            /\ KeepsIn(tn, w, q, tg, tn, Idle, Append(Requeued(n), w.arriving), tg, t)
            /\ KeepsIn(tn, w, q, tg, tn, Idle, Requeued(n), Append(tg, Frame("pull", w.arriving)), t)
  BY <1>1, WalkFinished, ZenonT(60) DEF Requeued
<1>16. ASSUME WalkEnds(n)
       PROVE  walk'[n] = Idle /\ \A k \in Nodes : k # n => walk'[k] = walk[k]
  BY <1>1, <1>16, ZenonT(60) DEF WalkEnds, NodeTypeOK
<1>17. ASSUME EndWalk(n)
       PROVE  Keeps(m, t)
  <2>1. /\ WalkEnds(n) /\ toNode' = toNode /\ toGw' = toGw
        /\ queue'[n] = Requeued(n) /\ \A k \in Nodes : k # n => queue'[k] = queue[k]
    BY <1>1, <1>17 DEF EndWalk, NodeTypeOK, netVars
  <2> QED
    BY <1>4, <1>15, <1>16, <2>1, ZenonT(60) DEF Keeps
<1>18. w.arriving # NoTask => w.arriving \in Tasks
  BY <1>1 DEF WalkStates
<1>19. ASSUME ProbePull(n)
       PROVE  Keeps(m, t)
  <2>1. /\ WalkEnds(n) /\ toNode' = toNode /\ w.arriving \in Tasks
        /\ Enqueue(n, "pull", w.arriving)
        /\ queue'[n] = Requeued(n) /\ \A k \in Nodes : k # n => queue'[k] = queue[k]
    BY <1>1, <1>18, <1>19, ZenonT(60) DEF ProbePull, Preallocate, NodeTypeOK
  <2>2. /\ toGw'[n] = tg \/ toGw'[n] = Append(tg, Frame("pull", w.arriving))
        /\ \A k \in Nodes : k # n => toGw'[k] = toGw[k]
    BY <1>1, <2>1, EnqueueEffect, ZenonT(60) DEF GwTypes
  <2> QED
    BY <1>4, <1>15, <1>16, <2>1, <2>2, ZenonT(60) DEF Keeps
<1>20. ASSUME ProbeEnqueue(n)
       PROVE  Keeps(m, t)
  <2>1. /\ WalkEnds(n) /\ toNode' = toNode /\ toGw' = toGw /\ w.arriving \in Tasks
        /\ queue'[n] = Append(Requeued(n), w.arriving)
        /\ \A k \in Nodes : k # n => queue'[k] = queue[k]
    BY <1>1, <1>18, <1>20, ZenonT(60) DEF ProbeEnqueue, NodeTypeOK, netVars
  <2> QED
    BY <1>4, <1>15, <1>16, <2>1, ZenonT(60) DEF Keeps
<1>21. ASSUME ProbeDecline(n)
       PROVE  Keeps(m, t)
  <2> DEFINE f == Frame("decline", w.arriving)
  <2>1. /\ WalkEnds(n) /\ toNode' = toNode /\ w.arriving \in Tasks
        /\ Enqueue(n, "decline", w.arriving)
        /\ queue'[n] = Requeued(n) /\ \A k \in Nodes : k # n => queue'[k] = queue[k]
    BY <1>1, <1>18, <1>21, ZenonT(60) DEF ProbeDecline, NodeTypeOK
  <2>2. /\ toGw'[n] = tg \/ toGw'[n] = Append(tg, f)
        /\ \A k \in Nodes : k # n => toGw'[k] = toGw[k]
    BY <1>1, <2>1, EnqueueEffect DEF GwTypes
  <2>3. KeepsIn(tn, w, q, tg, tn, Idle, Requeued(n), Append(tg, f), t)
    <3>1. f # Frame("pull", t) /\ f \in GwFrames
      BY <2>1, FrameEq, ZenonT(60) DEF Frame, GwFrames
    <3>2. /\ Occurs(Frame("pull", t), Append(tg, f)) <=> Occurs(Frame("pull", t), tg)
          /\ Unique(Frame("pull", t), tg) => Unique(Frame("pull", t), Append(tg, f))
      BY <1>1, <3>1, OccursAppend
    <3>3. KeepsIn(tn, w, q, tg, tn, Idle, Requeued(n), tg, t)
      BY <1>15
    <3> HIDE DEF tn, w, q, tg, f
    <3> QED
      BY <3>2, <3>3, ZenonT(60) DEF KeepsIn, AwaitedIn, UnderwayIn, OnceIn
  <2> QED
    BY <1>4, <1>15, <1>16, <2>1, <2>2, <2>3, ZenonT(60) DEF Keeps
<1>22. ASSUME NEW u \in Tasks, NEW r \in Refs, FetchCompletes(n, u, r)
       PROVE  Keeps(m, t)
  BY <1>9, <1>22 DEF FetchCompletes, netVars
<1>23. ASSUME NodeEndOfStream(n)
       PROVE  Keeps(m, t)
  BY <1>9, <1>23 DEF NodeEndOfStream, netVars
<1> QED
  BY <1>5, <1>6, <1>7, <1>8, <1>10, <1>12, <1>13, <1>14, <1>17, <1>19, <1>20, <1>21, <1>22, <1>23
  DEF AnyNodeStep, NodeStep, Walking

\* Channels that lose their first frame or gain one of another task or kind
\* neither create nor double a probe.
LEMMA ChannelsKeep ==
  ASSUME NetTypeOK, NEW m \in Nodes, NEW t \in Tasks,
         walk'[m] = walk[m], queue'[m] = queue[m],
         \/ toNode'[m] = toNode[m]
         \/ \E f \in NodeFrames : f # Frame("probe", t) /\ toNode'[m] = Append(toNode[m], f),
         \/ toGw'[m] = toGw[m]
         \/ toGw[m] # <<>> /\ toGw'[m] = Tail(toGw[m])
         \/ toGw'[m] = <<Frame("advertisement", NoTask)>>
  PROVE  Keeps(m, t)
<1>1. toNode[m] \in Seq(NodeFrames) /\ toGw[m] \in Seq(GwFrames)
  BY DEF NetTypeOK
<1>2. /\ Occurs(Frame("probe", t), toNode'[m]) => Occurs(Frame("probe", t), toNode[m])
      /\ Unique(Frame("probe", t), toNode[m]) => Unique(Frame("probe", t), toNode'[m])
  <2>1. CASE toNode'[m] = toNode[m]
    BY <2>1
  <2>2. ASSUME NEW f \in NodeFrames, f # Frame("probe", t), toNode'[m] = Append(toNode[m], f)
        PROVE  /\ Occurs(Frame("probe", t), toNode'[m]) => Occurs(Frame("probe", t), toNode[m])
               /\ Unique(Frame("probe", t), toNode[m]) => Unique(Frame("probe", t), toNode'[m])
    BY <1>1, <2>2, OccursAppend
  <2> QED
    BY <2>1, <2>2
<1>3. /\ Occurs(Frame("pull", t), toGw'[m]) => Occurs(Frame("pull", t), toGw[m])
      /\ Unique(Frame("pull", t), toGw[m]) => Unique(Frame("pull", t), toGw'[m])
  <2>1. CASE toGw'[m] = toGw[m]
    BY <2>1
  <2>2. CASE toGw[m] # <<>> /\ toGw'[m] = Tail(toGw[m])
    BY <1>1, <2>2, OccursTail
  <2>3. CASE toGw'[m] = <<Frame("advertisement", NoTask)>>
    <3>1. Frame("pull", t) # Frame("advertisement", NoTask)
      BY FrameEq
    <3> QED
      BY <2>3, <3>1 DEF Occurs, Unique
  <2> QED
    BY <2>1, <2>2, <2>3
<1> QED
  BY <1>2, <1>3, ZenonT(60) DEF Keeps, KeepsIn, AwaitedIn, UnderwayIn, OnceIn

-------------------------------------------------------------------------------
(***************************************************************************)
(* What a node reserved: a, P and R are its usage maps, its pulls and its  *)
(* runs.                                                                   *)
(***************************************************************************)
ExactIn(cap, a, P, R) ==
  /\ IsFiniteSet(P \cup R) /\ P \cap R = {}
  /\ AccountsFor(a, P \cup R)
  /\ WithinCapacity(cap, a)

\* A task whose probe still waits for an answer holds nothing, so that pulling
\* it never books it twice.
ReservedAt(n) ==
  /\ ExactIn(Caps[n], adm[n], pull_pending[n], running[n])
  /\ \A t \in Held(n) : ~Awaited(n, t)

\* A pull reserves what Admit granted, a grant hands the reservation over, and
\* a release gives it back: each keeps the account exact.
LEMMA ExactSteps ==
  ASSUME NEW cap, IsCapabilities(cap), NEW a \in AdmissionStates,
         NEW P \in SUBSET Tasks, NEW R \in SUBSET Tasks, ExactIn(cap, a, P, R), NEW t \in Tasks
  PROVE  /\ t \notin P \cup R /\ "OK" \in AdmitStatuses(cap, a, t)
              => ExactIn(cap, Reserve(a, t), P \cup {t}, R)
         /\ t \in P => ExactIn(cap, a, P \ {t}, R \cup {t})
         /\ t \in P \cup R => ExactIn(cap, Release(a, t), P \ {t}, R \ {t})
<1>1. IsFiniteSet(P \cup R) /\ P \cap R = {} /\ AccountsFor(a, P \cup R) /\ WithinCapacity(cap, a)
  BY DEF ExactIn
<1>2. ASSUME t \notin P \cup R, "OK" \in AdmitStatuses(cap, a, t)
      PROVE  ExactIn(cap, Reserve(a, t), P \cup {t}, R)
  <2>1. (P \cup {t}) \cup R = (P \cup R) \cup {t} /\ (P \cup {t}) \cap R = {}
    BY <1>1, <1>2
  <2>2. IsFiniteSet((P \cup R) \cup {t})
    BY <1>1, FS_AddElement
  <2>3. AccountsFor(Reserve(a, t), (P \cup R) \cup {t})
    BY <1>1, <1>2, ReserveAccounts
  <2>4. WithinCapacity(cap, Reserve(a, t))
    BY <1>1, <1>2, ReserveExact
  <2> QED
    BY <2>1, <2>2, <2>3, <2>4 DEF ExactIn
<1>3. ASSUME t \in P
      PROVE  ExactIn(cap, a, P \ {t}, R \cup {t})
  <2>1. (P \ {t}) \cup (R \cup {t}) = P \cup R /\ (P \ {t}) \cap (R \cup {t}) = {}
    BY <1>1, <1>3
  <2> QED
    BY <1>1, <2>1 DEF ExactIn
<1>4. ASSUME t \in P \cup R
      PROVE  ExactIn(cap, Release(a, t), P \ {t}, R \ {t})
  <2>1. (P \ {t}) \cup (R \ {t}) = (P \cup R) \ {t} /\ (P \ {t}) \cap (R \ {t}) = {}
    BY <1>1
  <2>2. IsFiniteSet((P \cup R) \ {t})
    BY <1>1, FS_RemoveElement
  <2>3. AccountsFor(Release(a, t), (P \cup R) \ {t})
    BY <1>1, <1>4, ReleaseAccounts
  <2>4. WithinCapacity(cap, Release(a, t))
    BY <1>1, ReleaseWithin, ZenonT(60)
  <2> QED
    BY <2>1, <2>2, <2>3, <2>4 DEF ExactIn
<1> QED
  BY <1>2, <1>3, <1>4

\* A pull books the task of a probe that waited for its answer.
Books(n, t) ==
  /\ Awaited(n, t) /\ ~Awaited(n, t)'
  /\ "OK" \in AdmitStatuses(Caps[n], adm[n], t)
  /\ adm'[n] = Reserve(adm[n], t)
  /\ pull_pending'[n] = pull_pending[n] \cup {t} /\ running'[n] = running[n]

\* What a step may do to the reservations of a node.
Reserves(n) ==
  \/ adm'[n] = adm[n] /\ pull_pending'[n] = pull_pending[n] /\ running'[n] = running[n]
  \/ \E t \in Tasks : Books(n, t)
  \/ \E t \in pull_pending[n] : /\ adm'[n] = adm[n] /\ pull_pending'[n] = pull_pending[n] \ {t}
                                /\ running'[n] = running[n] \cup {t}
  \/ \E t \in Held(n) : /\ adm'[n] = Release(adm[n], t)
                        /\ pull_pending'[n] = pull_pending[n] \ {t}
                        /\ running'[n] = running[n] \ {t}

\* Such a step keeps the account exact, and books only probes that waited.
LEMMA ReservesExactly ==
  ASSUME NodeTypeOK, NEW n \in Nodes, ReservedAt(n), Reserves(n),
         \A t \in Tasks : Awaited(n, t)' => Awaited(n, t)
  PROVE  ReservedAt(n)' /\ \A t \in Held(n)' : t \in Held(n) \/ Awaited(n, t)
<1> DEFINE P == pull_pending[n]
           R == running[n]
<1>1. /\ P \in SUBSET Tasks /\ R \in SUBSET Tasks /\ adm[n] \in AdmissionStates
      /\ IsCapabilities(Caps[n])
  BY NodeConfigAssumption DEF NodeTypeOK
<1>2. ExactIn(Caps[n], adm[n], P, R) /\ \A t \in P \cup R : ~Awaited(n, t)
  BY ZenonT(60) DEF ReservedAt, Held
<1>0. ASSUME NEW t \in Tasks
      PROVE  /\ t \notin P \cup R /\ "OK" \in AdmitStatuses(Caps[n], adm[n], t)
                  => ExactIn(Caps[n], Reserve(adm[n], t), P \cup {t}, R)
             /\ t \in P => ExactIn(Caps[n], adm[n], P \ {t}, R \cup {t})
             /\ t \in P \cup R => ExactIn(Caps[n], Release(adm[n], t), P \ {t}, R \ {t})
  BY <1>1, <1>2, <1>0, ExactSteps, ZenonT(60)
<1>3. ASSUME ExactIn(Caps[n], adm'[n], pull_pending'[n], running'[n]),
             pull_pending'[n] \cup running'[n] \subseteq P \cup R
      PROVE  ReservedAt(n)' /\ \A t \in Held(n)' : t \in Held(n) \/ Awaited(n, t)
  BY <1>1, <1>2, <1>3 DEF ReservedAt, Held
<1>4. CASE adm'[n] = adm[n] /\ pull_pending'[n] = P /\ running'[n] = R
  BY <1>2, <1>3, <1>4, ZenonT(60)
<1>5. ASSUME NEW t \in Tasks, Books(n, t)
      PROVE  ReservedAt(n)' /\ \A u \in Held(n)' : u \in Held(n) \/ Awaited(n, u)
  <2>1. t \notin P \cup R
    BY <1>2, <1>5, ZenonT(60) DEF Books
  <2>2. ExactIn(Caps[n], adm'[n], pull_pending'[n], running'[n])
    BY <1>0, <1>5, <2>1, ZenonT(60) DEF Books
  <2> QED
    BY <1>1, <1>2, <1>5, <2>2, ZenonT(60) DEF Books, ReservedAt, Held
<1>6. ASSUME NEW t \in P, adm'[n] = adm[n], pull_pending'[n] = P \ {t}, running'[n] = R \cup {t}
      PROVE  ReservedAt(n)' /\ \A u \in Held(n)' : u \in Held(n) \/ Awaited(n, u)
  <2>1. ExactIn(Caps[n], adm'[n], pull_pending'[n], running'[n])
    BY <1>0, <1>1, <1>6, ZenonT(60)
  <2> QED
    BY <1>3, <1>6, <2>1, ZenonT(60)
<1>7. ASSUME NEW t \in P \cup R, adm'[n] = Release(adm[n], t),
             pull_pending'[n] = P \ {t}, running'[n] = R \ {t}
      PROVE  ReservedAt(n)' /\ \A u \in Held(n)' : u \in Held(n) \/ Awaited(n, u)
  <2>1. ExactIn(Caps[n], adm'[n], pull_pending'[n], running'[n])
    BY <1>0, <1>1, <1>7, ZenonT(60)
  <2> QED
    BY <1>3, <1>7, <2>1, ZenonT(60)
<1> QED
  BY <1>4, <1>5, <1>6, <1>7 DEF Reserves, Held

\* Every step of a node does one of these to its own reservations, and nothing
\* to those of another node.
LEMMA AgentReserves ==
  ASSUME NetTypeOK, NodeTypeOK, NEW n \in Nodes, AnyNodeStep(n), NEW m \in Nodes,
         ReservedAt(m), \A t \in Tasks : Once(m, t)
  PROVE  Reserves(m)
<1>1. /\ pull_pending \in [Nodes -> SUBSET Tasks] /\ running \in [Nodes -> SUBSET Tasks]
      /\ adm \in [Nodes -> AdmissionStates] /\ pull_pending[m] \cap running[m] = {}
  BY DEF NodeTypeOK, ReservedAt, ExactIn
<1>2. ASSUME adm'[m] = adm[m], pull_pending'[m] = pull_pending[m], running'[m] = running[m]
      PROVE  Reserves(m)
  BY <1>2 DEF Reserves
<1>3. ASSUME NEW t \in Tasks, ReceiveGrant(n, t)
      PROVE  Reserves(m)
  <2>1. CASE m # n
    BY <1>1, <1>2, <1>3, <2>1, ZenonT(60) DEF ReceiveGrant, ReleaseScope
  <2>2. CASE m = n /\ t \in pull_pending[n]
    <3>1. pull_pending'[n] = pull_pending[n] \ {t} /\ running[n] \ {t} = running[n]
      BY <1>1, <1>3, <2>2, ZenonT(60) DEF ReceiveGrant
    <3>2. CASE TypeOf[t] \in Handlers[n]
      <4>1. adm'[n] = adm[n] /\ running'[n] = running[n] \cup {t}
        BY <1>1, <1>3, <2>2, <3>2 DEF ReceiveGrant
      <4> QED
        BY <2>2, <3>1, <4>1 DEF Reserves
    <3>3. CASE TypeOf[t] \notin Handlers[n]
      <4>1. adm'[n] = Release(adm[n], t) /\ running'[n] = running[n]
        BY <1>1, <1>3, <2>2, <3>3 DEF ReceiveGrant, ReleaseScope
      <4> QED
        BY <2>2, <3>1, <4>1, ZenonT(60) DEF Reserves, Held
    <3> QED
      BY <3>2, <3>3
  <2>3. CASE m = n /\ t \notin pull_pending[n]
    <3>1. pull_pending'[n] = pull_pending[n] /\ adm' = adm /\ running' = running
      BY <1>1, <1>3, <2>3 DEF ReceiveGrant
    <3> QED
      BY <1>2, <2>3, <3>1
  <2> QED
    BY <2>1, <2>2, <2>3
<1>4. ASSUME NEW t \in Tasks, ReceiveCancel(n, t)
      PROVE  Reserves(m)
  <2>1. running' = running /\ pull_pending' = [pull_pending EXCEPT ![n] = @ \ {t}]
    BY <1>4 DEF ReceiveCancel
  <2>2. CASE m # n
    <3>1. adm'[m] = adm[m]
      BY <1>1, <1>4, <2>2 DEF ReceiveCancel, ReleaseScope
    <3> QED
      BY <1>1, <1>2, <2>1, <2>2, <3>1
  <2>3. CASE m = n /\ t \in pull_pending[n]
    <3>1. adm'[n] = Release(adm[n], t) /\ running[n] \ {t} = running[n]
      BY <1>1, <1>4, <2>3 DEF ReceiveCancel, ReleaseScope
    <3> QED
      BY <1>1, <2>1, <2>3, <3>1 DEF Reserves, Held
  <2>4. CASE m = n /\ t \notin pull_pending[n]
    <3>1. adm' = adm /\ pull_pending'[n] = pull_pending[n]
      BY <1>1, <1>4, <2>1, <2>4 DEF ReceiveCancel
    <3> QED
      BY <1>2, <2>1, <2>4, <3>1
  <2> QED
    BY <2>2, <2>3, <2>4
<1>5. ASSUME NEW t \in Tasks, HandlerFinish(n, t)
      PROVE  Reserves(m)
  <2>1. /\ t \in running[n] /\ running' = [running EXCEPT ![n] = @ \ {t}]
        /\ pull_pending' = pull_pending /\ adm' = [adm EXCEPT ![n] = Release(@, t)]
    BY <1>5 DEF HandlerFinish, ReleaseScope
  <2>2. CASE m # n
    BY <1>1, <1>2, <2>1, <2>2
  <2>3. CASE m = n
    <3>1. /\ adm'[n] = Release(adm[n], t) /\ running'[n] = running[n] \ {t}
          /\ pull_pending'[n] = pull_pending[n] \ {t}
      BY <1>1, <2>1, <2>3
    <3> QED
      BY <2>1, <2>3, <3>1 DEF Reserves, Held
  <2> QED
    BY <2>2, <2>3
<1>6. ASSUME NEW t \in Tasks, Preallocate(n, t), running' = running,
             "OK" \in AdmitStatuses(Caps[n], adm[n], t),
             m = n => Awaited(n, t) /\ ~Awaited(n, t)'
      PROVE  Reserves(m)
  <2>1. /\ adm' = [adm EXCEPT ![n] = Reserve(@, t)]
        /\ pull_pending' = [pull_pending EXCEPT ![n] = @ \cup {t}]
    BY <1>6 DEF Preallocate
  <2>2. CASE m # n
    BY <1>1, <1>2, <1>6, <2>1, <2>2, ZenonT(60)
  <2>3. CASE m = n
    <3>1. adm'[n] = Reserve(adm[n], t) /\ pull_pending'[n] = pull_pending[n] \cup {t}
      BY <1>1, <2>1
    <3>2. Books(n, t)
      BY <1>6, <2>3, <3>1, ZenonT(60) DEF Books
    <3> QED
      BY <2>3, <3>2 DEF Reserves
  <2> QED
    BY <2>2, <2>3
<1>7. /\ walk[n] \in WalkStates /\ queue[n] \in Seq(Tasks) /\ toGw[n] \in Seq(GwFrames)
      /\ walk \in [Nodes -> WalkStates] /\ queue \in [Nodes -> Seq(Tasks)]
  BY ZenonT(60) DEF NetTypeOK, NodeTypeOK, WalkStates
<1>8. ASSUME WalkPull(n)
      PROVE  Reserves(m)
  <2>1. queue[n] # <<>> /\ queue'[n] = Tail(queue[n])
    BY <1>7, <1>8, ZenonT(60) DEF WalkPull, WalkPop
  <2>2. PICK t \in Tasks : t = Head(queue[n])
    BY <1>7, <2>1
  <2>3. /\ "OK" \in AdmitStatuses(Caps[n], adm[n], t) /\ Preallocate(n, t)
        /\ running' = running /\ walk' = walk /\ toNode' = toNode
    BY <1>8, <2>2, ZenonT(60) DEF WalkPull
  <2>4. ASSUME m = n
        PROVE  Awaited(n, t) /\ ~Awaited(n, t)'
    <3>1. OnceIn(toNode[n], walk[n], queue[n], toGw[n], t)
      BY <2>4 DEF Once
    <3>2. AwaitedIn(toNode[n], walk[n], queue[n], t) /\ ~AwaitedIn(toNode[n], walk[n], Tail(queue[n]), t)
      BY <1>7, <2>1, <2>2, <3>1, ProbePopped, ZenonT(60)
    <3> QED
      BY <2>1, <2>3, <3>2 DEF Awaited
  <2> QED
    BY <1>6, <2>3, <2>4
<1>9. ASSUME ProbePull(n)
      PROVE  Reserves(m)
  <2>1. PICK t \in Tasks : t = walk[n].arriving
    BY <1>7, <1>9, ZenonT(60) DEF ProbePull, WalkStates
  <2>2. /\ "OK" \in AdmitStatuses(Caps[n], adm[n], t) /\ Preallocate(n, t)
        /\ running' = running /\ toNode' = toNode
    BY <1>9, <2>1, ZenonT(60) DEF ProbePull
  <2>3. walk'[n] = Idle /\ queue'[n] = queue[n] \o walk[n].deferred
    BY <1>7, <1>9 DEF ProbePull, WalkEnds, Requeued
  <2>4. ASSUME m = n
        PROVE  Awaited(n, t) /\ ~Awaited(n, t)'
    <3>1. OnceIn(toNode[n], walk[n], queue[n], toGw[n], t)
      BY <2>4 DEF Once
    <3>2. /\ AwaitedIn(toNode[n], walk[n], queue[n], t)
          /\ ~AwaitedIn(toNode[n], Idle, queue[n] \o walk[n].deferred, t)
      BY <1>7, <2>1, <3>1, WalkFinished, ZenonT(60)
    <3> QED
      BY <2>2, <2>3, <3>2 DEF Awaited
  <2> QED
    BY <1>6, <2>2, <2>4
<1>10. ASSUME \/ \E t \in Tasks : ReceiveProbe(n, t) \/ \E r \in Refs : FetchCompletes(n, t, r)
              \/ ProcessCommand(n) \/ WalkDefer(n) \/ WalkDecline(n) \/ EndWalk(n)
              \/ ProbeEnqueue(n) \/ ProbeDecline(n) \/ NodeEndOfStream(n)
       PROVE  Reserves(m)
  <2>1. adm' = adm /\ pull_pending' = pull_pending /\ running' = running
    BY <1>10, ZenonT(60) DEF ReceiveProbe, FetchCompletes, ProcessCommand, WalkDefer, WalkDecline,
                             EndWalk, ProbeEnqueue, ProbeDecline, NodeEndOfStream
  <2> QED
    BY <1>2, <2>1
<1> QED
  BY <1>3, <1>4, <1>5, <1>8, <1>9, <1>10, ZenonT(60) DEF AnyNodeStep, NodeStep, Walking
==============================================================================
