----------------------- MODULE ProbeScheduling_proofs -----------------------
(***************************************************************************)
(* The main results about probe scheduling, for any number of tasks, nodes *)
(* and resources and any bounds: one runner at most, receivers held once,  *)
(* rounds that are never empty, reservations that match what is held, and  *)
(* the refinement of TaskResolution.                                       *)
(***************************************************************************)
EXTENDS ProbeRounds_proofs

\* The context of a step is large: SMT gets more than its 5 seconds, and a leaf
\* whose translation runs out of time is tried again.
USE SMTT(60), Z3T(60), ZenonT(60)

\* A grant is on its way to its node once, before the task runs there; results
\* come from nodes where it ran.
RunAt(n, t) ==
  /\ Unique(Frame("grant", t), toNode[n])
  /\ Occurs(Frame("grant", t), toNode[n]) => n \in granted[t] /\ t \notin ran[n]
  /\ t \in running[n] => t \in ran[n]
  /\ t \in ran[n] => n \in granted[t]
  /\ Occurs(Frame("result", t), toGw[n]) \/ Occurs(Frame("failure", t), toGw[n]) => t \in ran[n]

RunInv == \A t \in Tasks, n \in Nodes : RunAt(n, t)

\* No grant of t on its way to m appears.
FewerGrants(m, t) ==
  /\ Occurs(Frame("grant", t), toNode'[m]) => Occurs(Frame("grant", t), toNode[m])
  /\ Unique(Frame("grant", t), toNode[m]) => Unique(Frame("grant", t), toNode'[m])

\* No result of t on its way from m appears.
FewerResults(m, t) ==
  \A type \in {"result", "failure"} :
    Occurs(Frame(type, t), toGw'[m]) => Occurs(Frame(type, t), toGw[m])

\* A node and a task that no grant, run or result touches.
LEMMA RunUntouched ==
  ASSUME NEW m \in Nodes, NEW t \in Tasks, RunAt(m, t), FewerGrants(m, t), FewerResults(m, t),
         t \in running'[m] => t \in running[m], t \in ran'[m] <=> t \in ran[m],
         granted[t] \subseteq granted'[t]
  PROVE  RunAt(m, t)'
  BY DEF RunAt, FewerGrants, FewerResults

\* Frames but grants may be added to the channel to a node, and frames removed.
LEMMA GrantsFewer ==
  ASSUME TypeOK, NEW m \in Nodes, NEW t \in Tasks,
         \/ toNode'[m] = toNode[m]
         \/ toNode[m] # <<>> /\ toNode'[m] = Tail(toNode[m])
         \/ \E i \in 0..Len(toNode[m]) : toNode'[m] = SubSeq(toNode[m], 1, i)
         \/ \E f \in NodeFrames : f # Frame("grant", t) /\ toNode'[m] = Append(toNode[m], f)
  PROVE  FewerGrants(m, t)
<1>1. toNode[m] \in Seq(NodeFrames)
  BY DEF TypeOK, NetTypeOK
<1>2. CASE toNode'[m] = toNode[m]
  BY <1>2 DEF FewerGrants
<1>3. CASE toNode[m] # <<>> /\ toNode'[m] = Tail(toNode[m])
  BY <1>1, <1>3, OccursTail DEF FewerGrants
<1>4. ASSUME NEW i \in 0..Len(toNode[m]), toNode'[m] = SubSeq(toNode[m], 1, i)
      PROVE  FewerGrants(m, t)
  BY <1>1, <1>4, OccursPrefix DEF FewerGrants
<1>5. ASSUME NEW f \in NodeFrames, f # Frame("grant", t), toNode'[m] = Append(toNode[m], f)
      PROVE  FewerGrants(m, t)
  BY <1>1, <1>5, OccursAppend DEF FewerGrants
<1> QED
  BY <1>2, <1>3, <1>4, <1>5

\* Likewise for the results on the channel from a node.
LEMMA ResultsFewer ==
  ASSUME TypeOK, NEW m \in Nodes, NEW t \in Tasks,
         \/ NoNewPull(m)
         \/ \E i \in 0..Len(toGw[m]) : toGw'[m] = SubSeq(toGw[m], 1, i)
         \/ \E f \in GwFrames : /\ f # Frame("result", t) /\ f # Frame("failure", t)
                                /\ toGw'[m] = Append(toGw[m], f)
  PROVE  FewerResults(m, t)
<1> SUFFICES ASSUME NEW type \in {"result", "failure"}
             PROVE  Occurs(Frame(type, t), toGw'[m]) => Occurs(Frame(type, t), toGw[m])
  BY DEF FewerResults
<1>1. toGw[m] \in Seq(GwFrames)
  BY DEF TypeOK, NetTypeOK
<1>2. CASE toGw'[m] = toGw[m]
  BY <1>2
<1>3. CASE toGw[m] # <<>> /\ toGw'[m] = Tail(toGw[m])
  BY <1>1, <1>3, OccursTail
<1>4. CASE toGw'[m] = <<Frame("advertisement", NoTask)>>
  <2>1. Frame(type, t) # Frame("advertisement", NoTask)
    BY FrameEq
  <2> QED
    BY <1>4, <2>1 DEF Occurs
<1>5. ASSUME NEW i \in 0..Len(toGw[m]), toGw'[m] = SubSeq(toGw[m], 1, i)
      PROVE  Occurs(Frame(type, t), toGw'[m]) => Occurs(Frame(type, t), toGw[m])
  BY <1>1, <1>5, OccursPrefix
<1>6. ASSUME NEW f \in GwFrames, f # Frame(type, t), toGw'[m] = Append(toGw[m], f)
      PROVE  Occurs(Frame(type, t), toGw'[m]) => Occurs(Frame(type, t), toGw[m])
  BY <1>1, <1>6, OccursAppend
<1> QED
  BY <1>2, <1>3, <1>4, <1>5, <1>6 DEF NoNewPull

\* The gateway reads the channels from its nodes and writes none of them.
LEMMA GatewayOnlyReads ==
  ASSUME TypeOK, GwStep, NEW m \in Nodes
  PROVE  NoNewPull(m)
<1>1. ASSUME NEW n \in Nodes, NEW type, NEW u, ReadFrame(n, type, u)
      PROVE  NoNewPull(m)
  BY <1>1, ReadEffect DEF NoNewPull, TypeOK
<1>2. ASSUME toGw' = toGw
      PROVE  NoNewPull(m)
  BY <1>2 DEF NoNewPull
<1>3. ASSUME NEW t \in Tasks, GwTask(t)
      PROVE  NoNewPull(m)
  BY <1>2, <1>3 DEF GwTask, ScheduleRefused, Schedule, SweepExpired, netVars
<1>4. ASSUME NEW n \in Nodes, ConnectOk(n)
      PROVE  NoNewPull(m)
  BY <1>4 DEF ConnectOk, NoNewPull, TypeOK, NetTypeOK
<1>5. ASSUME NEW n \in Nodes, ConnectFail(n) \/ EndOfStream(n) \/ DeferredDelete(n)
      PROVE  NoNewPull(m)
  BY <1>2, <1>5 DEF ConnectFail, EndOfStream, DeferredDelete, netVars
<1>6. ASSUME NEW n \in Nodes, GwReads(n)
      PROVE  NoNewPull(m)
  BY <1>1, <1>6
  DEF GwReads, HandleAdvertisement, RevokePull, GrantPull, HandleDecline, HandleResult
<1> QED
  BY <1>3, <1>4, <1>5, <1>6 DEF GwStep

\* A grant is written to a node that was granted the task, once.
LEMMA GatewayRun ==
  ASSUME TypeOK, RoundInv, RunInv, GwStep
  PROVE  RunInv'
<1>1. running' = running /\ ran' = ran /\ NetTypeOK
  BY DEF GwStep, nodeVars, TypeOK
<1>2. \A m \in Nodes, t \in Tasks : RunAt(m, t) /\ FewerResults(m, t)
  BY GatewayOnlyReads, ResultsFewer DEF RunInv
<1>3. ASSUME NEW m \in Nodes, NEW t \in Tasks, FewerGrants(m, t), granted[t] \subseteq granted'[t]
      PROVE  RunAt(m, t)'
  BY <1>1, <1>2, <1>3, RunUntouched
<1>4. ASSUME NEW m \in Nodes, NEW t \in Tasks, NEW u \in Tasks, NEW type \in NodeTypes,
             type # "grant" \/ t # u, toNode'[m] = toNode[m] \/ toNode'[m] = Written(m, type, u)
      PROVE  FewerGrants(m, t)
  <2>1. toNode'[m] = toNode[m] \/ toNode'[m] = Append(toNode[m], Frame(type, u))
    BY <1>1, <1>4, WrittenEffect
  <2>2. Frame(type, u) \in NodeFrames /\ Frame(type, u) # Frame("grant", t)
    BY <1>4, FrameEq DEF NodeFrames, Frame, NodeTypes
  <2> QED
    BY <2>1, <2>2, GrantsFewer
<1>5. ASSUME granted' = granted, NEW u \in Tasks, NEW type \in {"probe", "cancel"},
             \A m \in Nodes : toNode'[m] = toNode[m] \/ toNode'[m] = Written(m, type, u)
      PROVE  RunInv'
  <2>1. \A m \in Nodes, t \in Tasks : FewerGrants(m, t)
    BY <1>4, <1>5 DEF NodeTypes
  <2> QED
    BY <1>3, <1>5, <2>1 DEF RunInv
<1>6. ASSUME granted' = granted, toNode' = toNode
      PROVE  RunInv'
  <2>1. \A m \in Nodes, t \in Tasks : FewerGrants(m, t)
    BY <1>6, GrantsFewer
  <2> QED
    BY <1>3, <1>6, <2>1 DEF RunInv
<1>7. ASSUME NEW t \in Tasks, GwTask(t)
      PROVE  RunInv'
  <2>1. CASE ScheduleRefused(t)
    BY <1>6, <2>1 DEF ScheduleRefused, netVars
  <2>2. ASSUME NEW S \in SUBSET Nodes, Schedule(t, S)
        PROVE  RunInv'
    BY <1>5, <2>2 DEF Schedule
  <2>3. CASE SweepExpired(t)
    <3>1. CASE NullConnection(Listed(probed[t]))
      BY <1>6, <2>3, <3>1 DEF SweepExpired, Crash
    <3>2. CASE ~NullConnection(Listed(probed[t]))
      BY <1>5, <2>3, <3>2 DEF SweepExpired
    <3> QED
      BY <3>1, <3>2
  <2> QED
    BY <1>7, <2>1, <2>2, <2>3 DEF GwTask
<1>8. ASSUME NEW n \in Nodes, \/ ConnectOk(n) \/ ConnectFail(n) \/ EndOfStream(n)
                              \/ DeferredDelete(n) \/ HandleAdvertisement(n)
                              \/ \E t \in Tasks : HandleDecline(n, t) \/ HandleResult(n, t)
      PROVE  RunInv'
  BY <1>6, <1>8 DEF ConnectOk, ConnectFail, EndOfStream, DeferredDelete, HandleAdvertisement,
                    HandleDecline, HandleResult, netVars
<1>9. ASSUME NEW n \in Nodes, NEW t \in Tasks, RevokePull(n, t)
      PROVE  RunInv'
  <2>1. /\ granted' = granted
        /\ \A m \in Nodes : toNode'[m] = toNode[m] \/ toNode'[m] = Written(m, "cancel", t)
    BY <1>1, <1>9 DEF RevokePull, NetTypeOK
  <2> QED
    BY <1>5, <2>1
<1>10. ASSUME NEW n \in Nodes, NEW t \in Tasks, GrantPull(n, t)
       PROVE  RunInv'
  <2> DEFINE L == Losers(n, t)
  <2>1. CASE NullConnection(L)
    BY <1>6, <1>10, <2>1 DEF GrantPull, Crash
  <2>2. CASE ~NullConnection(L)
    <3>1. /\ toNode' = Answer(n, t, L) /\ t \in pending
          /\ granted' = [granted EXCEPT ![t] = @ \cup {n}]
      BY <1>10, <2>2 DEF GrantPull
    <3>2. granted[t] = {} /\ n \in granted'[t] /\ \A u \in Tasks : granted[u] \subseteq granted'[u]
      BY <3>1 DEF RoundInv, RoundAt, TypeOK, GwTypeOK
    <3> HIDE DEF L
    <3>3. /\ toNode'[n] = Written(n, "grant", t)
          /\ \A m \in Nodes : m # n => toNode'[m] = toNode[m] \/ toNode'[m] = Written(m, "cancel", t)
      BY <3>1 DEF Answer
    <3>4. ASSUME NEW m \in Nodes, NEW u \in Tasks, m # n \/ u # t
          PROVE  FewerGrants(m, u)
      BY <1>4, <3>3, <3>4 DEF NodeTypes
    <3>5. RunAt(n, t)'
      <4>1. ~Occurs(Frame("grant", t), toNode[n]) /\ t \notin ran[n]
        BY <1>2, <3>2 DEF RunAt
      <4>2. toNode'[n] = toNode[n] \/ toNode'[n] = Append(toNode[n], Frame("grant", t))
        BY <1>1, <3>3, WrittenEffect DEF NodeTypes
      <4>3. toNode[n] \in Seq(NodeFrames) /\ Frame("grant", t) \in NodeFrames
        BY <1>1, ZenonT(60) DEF NetTypeOK, NodeFrames, Frame
      <4>4. Unique(Frame("grant", t), toNode[n])
        BY <1>2 DEF RunAt
      <4>5. Unique(Frame("grant", t), Append(toNode[n], Frame("grant", t)))
        BY <4>1, <4>3, <4>4, OccursAppend
      <4>6. Unique(Frame("grant", t), toNode'[n])
        BY <4>2, <4>4, <4>5, ZenonT(60)
      <4> QED
        BY <1>1, <1>2, <3>2, <4>1, <4>6 DEF RunAt, FewerResults
    <3> QED
      BY <1>3, <3>2, <3>4, <3>5 DEF RunInv
  <2> QED
    BY <2>1, <2>2
<1> QED
  BY <1>7, <1>8, <1>9, <1>10 DEF GwStep, GwReads

\* A node takes a grant off its channel before the task runs, and sends results
\* of tasks it was running.
LEMMA AgentRun ==
  ASSUME TypeOK, RunInv, NEW n \in Nodes, AgentStep(n)
  PROVE  RunInv'
<1>1. NetTypeOK /\ NodeTypeOK /\ granted' = granted
  BY DEF TypeOK, AgentStep, gwVars
<1>2. \A m \in Nodes, t \in Tasks : RunAt(m, t)
  BY DEF RunInv
<1>3. ASSUME NEW m \in Nodes, NEW t \in Tasks, FewerGrants(m, t), FewerResults(m, t),
             running'[m] \subseteq running[m], ran' = ran
      PROVE  RunAt(m, t)'
  BY <1>1, <1>2, <1>3, RunUntouched
<1>4. ASSUME NEW type, NEW u, Receive(n, type, u), NEW m \in Nodes, NEW t \in Tasks
      PROVE  FewerGrants(m, t)
  <2>1. \/ toNode'[m] = toNode[m]
        \/ toNode[m] # <<>> /\ toNode'[m] = Tail(toNode[m])
    BY <1>1, <1>4, ReceiveEffect
  <2> QED
    BY <2>1, GrantsFewer
<1>5. ASSUME toNode' = toNode, NEW m \in Nodes, NEW t \in Tasks
      PROVE  FewerGrants(m, t)
  BY <1>5, GrantsFewer
<1>6. ASSUME toGw' = toGw, NEW m \in Nodes, NEW t \in Tasks
      PROVE  FewerResults(m, t)
  BY <1>6, ResultsFewer DEF NoNewPull
<1>7. ASSUME NEW type \in GwTypes, NEW u \in Tasks, Enqueue(n, type, u),
             NEW m \in Nodes, NEW t \in Tasks, t # u \/ type \in {"pull", "decline"}
      PROVE  FewerResults(m, t)
  <2>1. toGw'[m] = toGw[m] \/ toGw'[m] = Append(toGw[m], Frame(type, u))
    BY <1>1, <1>7, EnqueueEffect
  <2>2. /\ Frame(type, u) \in GwFrames
        /\ Frame(type, u) # Frame("result", t) /\ Frame(type, u) # Frame("failure", t)
    BY <1>7, FrameEq DEF GwFrames, Frame, GwTypes
  <2> QED
    BY <2>1, <2>2, ResultsFewer DEF NoNewPull
<1>8. ASSUME running' = running, ran' = ran,
             \A m \in Nodes, t \in Tasks : FewerGrants(m, t) /\ FewerResults(m, t)
      PROVE  RunInv'
  BY <1>3, <1>8 DEF RunInv
<1>9. ASSUME NEW u \in Tasks, ReceiveProbe(n, u) \/ ReceiveCancel(n, u)
      PROVE  RunInv'
  <2>1. /\ \A m \in Nodes, t \in Tasks : FewerGrants(m, t)
        /\ toGw' = toGw /\ running' = running /\ ran' = ran
    BY <1>4, <1>9 DEF ReceiveProbe, ReceiveCancel
  <2> QED
    BY <1>6, <1>8, <2>1
<1>10. ASSUME NEW u \in Tasks, ReceiveGrant(n, u)
       PROVE  RunInv'
  <2>1. /\ \A m \in Nodes, t \in Tasks : FewerGrants(m, t)
        /\ toGw' = toGw
    BY <1>4, <1>10 DEF ReceiveGrant
  <2>2. \A m \in Nodes, t \in Tasks : FewerResults(m, t)
    BY <1>6, <2>1
  <2>3. CASE running' = running /\ ran' = ran
    BY <1>8, <2>1, <2>2, <2>3
  <2>4. CASE /\ running' = [running EXCEPT ![n] = @ \cup {u}]
             /\ ran' = [ran EXCEPT ![n] = @ \cup {u}]
    <3>1. /\ toNode[n] # <<>> /\ Head(toNode[n]) = Frame("grant", u)
          /\ toNode'[n] = Tail(toNode[n]) /\ toNode[n] \in Seq(NodeFrames)
      BY <1>1, <1>10, ReceiveEffect DEF ReceiveGrant, NetTypeOK
    <3>2. Occurs(Frame("grant", u), toNode[n]) /\ ~Occurs(Frame("grant", u), toNode'[n])
      <4>1. Unique(Frame("grant", u), toNode[n])
        BY <1>2 DEF RunAt
      <4> QED
        BY <3>1, <4>1, OccursTail
    <3>3. RunAt(n, u)'
      BY <1>1, <1>2, <2>1, <2>2, <2>4, <3>2 DEF RunAt, FewerGrants, FewerResults, NodeTypeOK
    <3>4. ASSUME NEW m \in Nodes, NEW t \in Tasks, m # n \/ t # u
          PROVE  RunAt(m, t)'
      <4>1. (t \in running'[m] => t \in running[m]) /\ (t \in ran'[m] <=> t \in ran[m])
        BY <1>1, <2>4, <3>4 DEF NodeTypeOK
      <4> QED
        BY <1>1, <1>2, <2>1, <2>2, <4>1, RunUntouched
    <3> QED
      BY <3>3, <3>4 DEF RunInv
  <2> QED
    BY <1>10, <2>3, <2>4 DEF ReceiveGrant
<1>11. ASSUME NEW u \in Tasks, HandlerFinish(n, u)
       PROVE  RunInv'
  <2>1. PICK type \in {"result", "failure"} : Enqueue(n, type, u)
    BY <1>11 DEF HandlerFinish
  <2>2. /\ u \in running[n] /\ running' = [running EXCEPT ![n] = @ \ {u}]
        /\ ran' = ran /\ toNode' = toNode
    BY <1>11 DEF HandlerFinish
  <2>3. \A m \in Nodes, t \in Tasks : FewerGrants(m, t) /\ running'[m] \subseteq running[m]
    BY <1>1, <1>5, <2>2 DEF NodeTypeOK
  <2>4. ASSUME NEW m \in Nodes, NEW t \in Tasks, t # u
        PROVE  RunAt(m, t)'
    <3>1. FewerResults(m, t)
      BY <1>7, <2>1, <2>4 DEF GwTypes
    <3> QED
      BY <1>3, <2>2, <2>3, <3>1
  <2>5. ASSUME NEW m \in Nodes, m # n
        PROVE  RunAt(m, u)'
    <3>1. toGw'[m] = toGw[m]
      BY <1>1, <2>1, <2>5, EnqueueEffect DEF GwTypes
    <3>2. FewerResults(m, u)
      BY <3>1, ResultsFewer DEF NoNewPull
    <3> QED
      BY <1>3, <2>2, <2>3, <3>2
  <2>6. RunAt(n, u)'
    BY <1>1, <1>2, <2>2, <2>3 DEF RunAt, FewerGrants
  <2> QED
    BY <2>4, <2>5, <2>6 DEF RunInv
<1>12. ASSUME UNCHANGED <<toNode, toGw, running, ran>>
       PROVE  RunInv'
  BY <1>5, <1>6, <1>8, <1>12
<1>13. ASSUME toNode' = toNode, running' = running, ran' = ran,
              NEW type \in {"pull", "decline"}, NEW u \in Tasks, Enqueue(n, type, u)
       PROVE  RunInv'
  <2>1. \A m \in Nodes, t \in Tasks : FewerResults(m, t)
    BY <1>7, <1>13 DEF GwTypes
  <2> QED
    BY <1>5, <1>8, <1>13, <2>1
<1>14. queue[n] # <<>> => Head(queue[n]) \in Tasks
  BY <1>1 DEF NodeTypeOK
<1>15. walk[n].arriving # NoTask => walk[n].arriving \in Tasks
  BY <1>1 DEF NodeTypeOK
<1>16. CASE Walking(n)
  <2>1. CASE WalkDefer(n) \/ EndWalk(n) \/ ProbeEnqueue(n)
    BY <1>12, <2>1 DEF WalkDefer, EndWalk, ProbeEnqueue, netVars
  <2>2. CASE WalkPull(n) \/ WalkDecline(n)
    BY <1>13, <1>14, <2>2 DEF WalkPull, WalkDecline, WalkPop, Preallocate
  <2>3. CASE ProbePull(n) \/ ProbeDecline(n)
    BY <1>13, <1>15, <2>3 DEF ProbePull, ProbeDecline, Preallocate
  <2> QED
    BY <1>16, <2>1, <2>2, <2>3 DEF Walking
<1>17. CASE ProcessCommand(n) \/ NodeEndOfStream(n)
            \/ \E t \in Tasks, r \in Refs : FetchCompletes(n, t, r)
  BY <1>12, <1>17, ZenonT(60) DEF ProcessCommand, NodeEndOfStream, FetchCompletes, netVars
<1> QED
  BY <1>9, <1>10, <1>11, <1>16, <1>17 DEF AgentStep, NodeStep

\* Every step preserves the invariant of grants, runs and results.
LEMMA NextRun ==
  ASSUME TypeOK, RoundInv, RunInv, [Next]_vars
  PROVE  RunInv'
<1>1. ASSUME NEW n \in Nodes, Break(n)
      PROVE  RunInv'
  <2>1. running' = running /\ ran' = ran /\ granted' = granted
    BY <1>1 DEF Break, nodeVars, gwVars
  <2>2. PICK i \in 0..Len(toNode[n]) : toNode' = [toNode EXCEPT ![n] = SubSeq(@, 1, i)]
    BY <1>1, ZenonT(60) DEF Break, Cut
  <2>3. PICK j \in 0..Len(toGw[n]) : toGw' = [toGw EXCEPT ![n] = SubSeq(@, 1, j)]
    BY <1>1, ZenonT(60) DEF Break, Cut
  <2>4. ASSUME NEW m \in Nodes, NEW t \in Tasks
        PROVE  FewerGrants(m, t) /\ FewerResults(m, t)
    <3>1. /\ m # n => toNode'[m] = toNode[m] /\ toGw'[m] = toGw[m]
          /\ m = n => toNode'[m] = SubSeq(toNode[m], 1, i) /\ toGw'[m] = SubSeq(toGw[m], 1, j)
      BY <2>2, <2>3 DEF TypeOK, NetTypeOK
    <3>2. FewerGrants(m, t)
      BY <3>1, GrantsFewer, ZenonT(60)
    <3>3. FewerResults(m, t)
      BY <3>1, ResultsFewer, ZenonT(60) DEF NoNewPull
    <3> QED
      BY <3>2, <3>3
  <2> QED
    BY <2>1, <2>4, RunUntouched DEF RunInv
<1>2. CASE UNCHANGED vars
  BY <1>2, ZenonT(60) DEF vars, gwVars, nodeVars, netVars, RunInv, RunAt
<1> QED
  BY <1>1, <1>2, GatewayRun, AgentRun, BreakableAssumption DEF Next

\* What every node reserved is exact, for tasks that were submitted.
ReserveInv ==
  \A n \in Nodes : ReservedAt(n) /\ \A t \in Held(n) : outcome[t] # "new"

\* The gateway probes new tasks only: of any other, no probe appears.
LEMMA GatewayProbesNew ==
  ASSUME TypeOK, GwStep, NEW t \in Tasks, outcome[t] # "new", NEW m \in Nodes
  PROVE  Keeps(m, t) /\ outcome'[t] # "new"
<1>1. /\ NetTypeOK /\ outcome \in [Tasks -> {"new", "waiting", "ok", "failed", "refused", "deadline"}]
      /\ walk' = walk /\ queue' = queue /\ toNode \in [Nodes -> Seq(NodeFrames)]
  BY DEF TypeOK, GwTypeOK, NetTypeOK, GwStep, nodeVars
<1>2. ASSUME NEW type \in {"probe", "grant", "cancel"}, NEW u \in Tasks, type # "probe" \/ t # u,
             toNode'[m] = toNode[m] \/ toNode'[m] = Written(m, type, u)
      PROVE  NoNewProbe(m, t)
  BY <1>1, <1>2, WrittenNoProbe DEF NodeTypes
<1>3. ASSUME toNode'[m] = toNode[m]
      PROVE  NoNewProbe(m, t)
  BY <1>3 DEF NoNewProbe
<1>4. ASSUME NoNewProbe(m, t), outcome'[t] # "new"
      PROVE  Keeps(m, t) /\ outcome'[t] # "new"
  BY <1>1, <1>4, GatewayOnlyReads, ChannelsKeep DEF NoNewProbe, NoNewPull
<1>5. ASSUME NEW u \in Tasks, NEW how \in {"waiting", "ok", "failed", "refused", "deadline"},
             Resolve(u, how)
      PROVE  outcome'[t] # "new"
  BY <1>1, <1>5 DEF Resolve
<1>6. ASSUME NEW u \in Tasks, GwTask(u)
      PROVE  Keeps(m, t) /\ outcome'[t] # "new"
  <2>1. CASE ScheduleRefused(u)
    BY <1>3, <1>4, <1>5, <2>1 DEF ScheduleRefused, netVars
  <2>2. ASSUME NEW S \in SUBSET Nodes, Schedule(u, S)
        PROVE  Keeps(m, t) /\ outcome'[t] # "new"
    <3>1. /\ toNode'[m] = toNode[m] \/ toNode'[m] = Written(m, "probe", u)
          /\ t # u /\ Resolve(u, "waiting")
      BY <2>2 DEF Schedule
    <3> QED
      BY <1>2, <1>4, <1>5, <3>1
  <2>3. CASE SweepExpired(u)
    <3>1. \/ toNode' = toNode /\ outcome' = outcome
          \/ /\ toNode'[m] = toNode[m] \/ toNode'[m] = Written(m, "cancel", u)
             /\ Resolve(u, "deadline")
      BY <2>3, ZenonT(60) DEF SweepExpired, Crash
    <3> QED
      BY <1>2, <1>3, <1>4, <1>5, <3>1
  <2> QED
    BY <1>6, <2>1, <2>2, <2>3 DEF GwTask
<1>7. ASSUME NEW n \in Nodes, ConnectOk(n) \/ ConnectFail(n) \/ DeferredDelete(n) \/ HandleAdvertisement(n)
      PROVE  Keeps(m, t) /\ outcome'[t] # "new"
  <2>1. toNode' = toNode /\ outcome' = outcome
    BY <1>7, ZenonT(60) DEF ConnectOk, ConnectFail, DeferredDelete, HandleAdvertisement, netVars
  <2> QED
    BY <1>3, <1>4, <2>1
<1>8. ASSUME NEW n \in Nodes, EndOfStream(n)
      PROVE  Keeps(m, t) /\ outcome'[t] # "new"
  <2>1. toNode' = toNode /\ outcome'[t] # "new"
    BY <1>8 DEF EndOfStream, netVars
  <2> QED
    BY <1>3, <1>4, <2>1
<1>9. ASSUME NEW n \in Nodes, NEW u \in Tasks, HandleDecline(n, u) \/ HandleResult(n, u)
      PROVE  Keeps(m, t) /\ outcome'[t] # "new"
  <2>1. /\ toNode' = toNode
        /\ \/ outcome' = outcome
           \/ \E how \in {"waiting", "ok", "failed", "refused", "deadline"} : Resolve(u, how)
    BY <1>9 DEF HandleDecline, HandleResult
  <2> QED
    BY <1>3, <1>4, <1>5, <2>1
<1>10. ASSUME NEW n \in Nodes, NEW u \in Tasks, RevokePull(n, u) \/ GrantPull(n, u)
       PROVE  Keeps(m, t) /\ outcome'[t] # "new"
  <2>1. CASE RevokePull(n, u)
    <3>1. outcome' = outcome /\ (toNode'[m] = toNode[m] \/ toNode'[m] = Written(m, "cancel", u))
      BY <1>1, <2>1 DEF RevokePull
    <3> QED
      BY <1>2, <1>4, <3>1
  <2>2. CASE GrantPull(n, u)
    <3>1. /\ outcome' = outcome
          /\ \/ toNode'[m] = toNode[m] \/ toNode'[m] = Written(m, "cancel", u)
             \/ toNode'[m] = Written(m, "grant", u)
      BY <2>2 DEF GrantPull, Crash, Answer
    <3> QED
      BY <1>2, <1>4, <3>1
  <2> QED
    BY <1>10, <2>1, <2>2
<1> QED
  BY <1>6, <1>7, <1>8, <1>9, <1>10 DEF GwStep, GwReads

\* Every step keeps the reservations exact: a node books the task of a probe it
\* had not answered, which no pull or run of it holds yet.
LEMMA NextReserves ==
  ASSUME TypeOK, RoundInv, ReserveInv, [Next]_vars
  PROVE  ReserveInv'
<1>1. ASSUME adm' = adm, pull_pending' = pull_pending, running' = running,
             \A m \in Nodes : \A t \in Held(m) : Keeps(m, t) /\ outcome'[t] # "new"
      PROVE  ReserveInv'
  <2> SUFFICES ASSUME NEW m \in Nodes
               PROVE  ReservedAt(m)' /\ \A t \in Held(m)' : outcome'[t] # "new"
    BY DEF ReserveInv
  <2>1. ReservedAt(m) /\ Held(m)' = Held(m)
    BY <1>1 DEF ReserveInv, Held
  <2>2. \A t \in Held(m) : Awaited(m, t)' => Awaited(m, t)
    BY <1>1, ZenonT(60) DEF Keeps, KeepsIn, Awaited
  <2> QED
    BY <1>1, <2>1, <2>2 DEF ReservedAt
<1>2. ASSUME NEW n \in Nodes, AgentStep(n)
      PROVE  ReserveInv'
  <2> SUFFICES ASSUME NEW m \in Nodes
               PROVE  ReservedAt(m)' /\ \A t \in Held(m)' : outcome'[t] # "new"
    BY DEF ReserveInv
  <2>1. AnyNodeStep(n) /\ outcome' = outcome /\ NetTypeOK /\ NodeTypeOK
    BY <1>2, ZenonT(60) DEF AgentStep, AnyNodeStep, gwVars, TypeOK
  <2>2. \A t \in Tasks : Once(m, t) /\ (Awaited(m, t)' => Awaited(m, t))
    BY <2>1, AgentKeeps, ZenonT(60) DEF RoundInv, RoundAt, Keeps, KeepsIn, Awaited
  <2>3. ReservedAt(m) /\ Reserves(m)
    BY <2>1, <2>2, AgentReserves DEF ReserveInv
  <2>4. ReservedAt(m)' /\ \A t \in Held(m)' : t \in Held(m) \/ Awaited(m, t)
    BY <2>1, <2>2, <2>3, ReservesExactly
  <2>5. \A t \in Tasks : Awaited(m, t) => outcome[t] # "new"
    BY DEF RoundInv, RoundAt, Awaited, Underway, UnderwayIn
  <2>6. Held(m)' \subseteq Tasks
    BY <2>1, AgentType, ZenonT(60) DEF NodeTypeOK, Held
  <2> QED
    BY <2>1, <2>4, <2>5, <2>6 DEF ReserveInv
<1>3. ASSUME GwStep
      PROVE  ReserveInv'
  <2>1. \A m \in Nodes : \A t \in Held(m) : t \in Tasks /\ outcome[t] # "new"
    BY DEF ReserveInv, Held, TypeOK, NodeTypeOK
  <2> QED
    BY <1>1, <1>3, <2>1, GatewayProbesNew, ZenonT(60) DEF GwStep, nodeVars
<1>4. ASSUME NEW n \in Nodes, Break(n)
      PROVE  ReserveInv'
  <2>1. \A m \in Nodes : \A t \in Held(m) : t \in Tasks /\ outcome[t] # "new"
    BY DEF ReserveInv, Held, TypeOK, NodeTypeOK
  <2> QED
    BY <1>1, <1>4, <2>1, BreakKeeps DEF Break, nodeVars, gwVars
<1>5. CASE UNCHANGED vars
  BY <1>1, <1>5, ZenonT(60) DEF vars, gwVars, nodeVars, netVars, Keeps, KeepsIn, ReserveInv
<1> QED
  BY <1>2, <1>3, <1>4, <1>5, BreakableAssumption DEF Next

\* The inductive invariant: two of the checked properties, the way of the probes
\* of every round, the way of every grant and its results, and what is reserved.
IInv == TypeOK /\ ReceiverHeldOnce /\ NoEmptyRound /\ RoundInv /\ RunInv /\ ReserveInv

\* The inductive invariant holds initially: nothing is underway.
LEMMA InitInvariant ==
  ASSUME Init
  PROVE  IInv
<1>1. ReceiverHeldOnce /\ NoEmptyRound
  BY DEF Init, GwInit, ReceiverHeldOnce, NoEmptyRound
<1>2. \A n \in Nodes : toNode[n] = <<>> /\ toGw[n] = <<>> /\ queue[n] = <<>> /\ walk[n] = Idle
  BY DEF Init, NetInit, NodeInit
<1>3. \A x : ~Occurs(x, <<>>) /\ Unique(x, <<>>)
  BY OccursEmpty
<1>4. ASSUME NEW n \in Nodes, NEW t \in Tasks
      PROVE  Once(n, t) /\ ~Underway(n, t)
  <2>1. Idle.deferred = <<>> /\ Idle.arriving # t
    BY NoTaskAssumption DEF Idle
  <2> QED
    BY <1>2, <1>3, <2>1, ZenonT(60) DEF Once, OnceIn, Underway, AwaitedIn, UnderwayIn
<1>5. RoundInv
  BY <1>4, ZenonT(60) DEF RoundInv, RoundAt, Init, GwInit
<1>6. RunInv
  BY <1>2, <1>3 DEF RunInv, RunAt, Init, NodeInit
<1>7. ASSUME NEW n \in Nodes
      PROVE  ReservedAt(n) /\ Held(n) = {}
  <2>1. /\ Held(n) = {} /\ pull_pending[n] = {} /\ running[n] = {} /\ adm[n] = NoUsage
        /\ IsCapabilities(Caps[n])
    BY NodeConfigAssumption DEF Init, NodeInit, Held
  <2> QED
    BY <2>1, NoUsageExact, FS_EmptySet DEF ReservedAt, ExactIn
<1>8. ReserveInv
  BY <1>7 DEF ReserveInv
<1> QED
  BY <1>1, <1>5, <1>6, <1>8, InitType DEF IInv

\* The invariant above is inductive: it holds in every state the gateway and its
\* nodes reach, for any tasks, nodes, resources, queue bounds and probe ratio.
THEOREM Invariance == Spec => []IInv
<1>1. Init => IInv
  BY InitInvariant
<1>2. IInv /\ [Next]_vars => IInv'
  BY NextType, NextHeld, NextRound, NextRun, NextReserves DEF IInv
<1> QED
  BY <1>1, <1>2, PTL DEF Spec

\* Whatever pulls, cancels, declines, deadlines and broken connections overlap,
\* a task runs on one node at most, the one it was granted to, and no node is
\* sent both a grant and a cancel of it (handleTaskPullFrame).
THEOREM OneRunner == Spec => []AtMostOneRunner
<1>1. ASSUME IInv
      PROVE  AtMostOneRunner
  <2>1. \A t \in Tasks, n \in Nodes : t \in ran[n] => n \in granted[t]
    BY <1>1 DEF IInv, RunInv, RunAt
  <2>2. \A t \in Tasks : granted[t] \cap cancelled[t] = {} /\ \A n, m \in granted[t] : n = m
    BY <1>1 DEF IInv, RoundInv, RoundAt
  <2> QED
    BY <2>1, <2>2 DEF AtMostOneRunner
<1> QED
  BY <1>1, Invariance, PTL

\* A receiver that waits is held by the pending round or by the receiver storage,
\* never by both, and one that was told its outcome by neither.
THEOREM ReceiversHeldOnce == Spec => []ReceiverHeldOnce
<1>1. IInv => ReceiverHeldOnce
  BY DEF IInv
<1> QED
  BY <1>1, Invariance, PTL

\* A pending round always has a node that may still win it.
THEOREM RoundsNeverEmpty == Spec => []NoEmptyRound
<1>1. IInv => NoEmptyRound
  BY DEF IInv
<1> QED
  BY <1>1, Invariance, PTL

\* What a node accounts for is what its pulls and its runs hold, each task once,
\* and never more than its pools: however probes, cancels, grants, results and
\* broken connections interleave, no reservation leaks or is booked twice.
THEOREM ReservationsAreExact == Spec => []ReservationsExact
<1>1. IInv => ReservationsExact
  BY ZenonT(60) DEF IInv, ReserveInv, ReservedAt, ExactIn, ReservationsExact, Held
<1> QED
  BY <1>1, Invariance, PTL

\* The abstract state of ProbeScheduling's refinement mapping.
RunnerOf == [t \in Tasks |-> {n \in Nodes : t \in ran[n]}]

\* A step that hands no task over and changes outcomes as the promise allows.
LEMMA ResolvesOnly ==
  ASSUME ran' = ran, outcome' \in [Tasks -> {"new", "waiting", "ok", "failed", "refused", "deadline"}],
         \A t \in Tasks :
           \/ outcome'[t] = outcome[t]
           \/ outcome[t] = "new" /\ outcome'[t] = "refused"
           \/ outcome[t] = "waiting" /\ outcome'[t] \in {"refused", "deadline"}
           \/ /\ outcome[t] = "waiting" /\ outcome'[t] \in {"ok", "failed"}
              /\ \E n \in Nodes : t \in ran[n]
  PROVE  Promise!Resolve
<1>1. UNCHANGED RunnerOf
  BY DEF RunnerOf
<1>2. \A t \in Tasks : (\E n \in Nodes : t \in ran[n]) => RunnerOf[t] # {}
  BY DEF RunnerOf
<1> QED
  BY <1>1, <1>2 DEF Promise!Resolve, RunnerOf

\* A step of the gateway submits a task, resolves tasks or does not show.
LEMMA GatewayPromise ==
  ASSUME IInv, GwStep
  PROVE  Promise!Resolve \/ \E t \in Tasks : Promise!Submit(t)
<1>1. ran' = ran /\ GwTypeOK /\ GwTypeOK' /\ NetTypeOK
  BY NextType DEF GwStep, nodeVars, IInv, TypeOK, Next
<1>2. outcome' \in [Tasks -> {"new", "waiting", "ok", "failed", "refused", "deadline"}]
  BY <1>1 DEF GwTypeOK
<1>3. /\ \A t \in pending : outcome[t] = "waiting"
      /\ \A t \in Tasks : store[t] # NoOwner => outcome[t] = "waiting"
  BY <1>1 DEF IInv, ReceiverHeldOnce, GwTypeOK
<1>4. ASSUME outcome' = outcome
      PROVE  Promise!Resolve
  BY <1>1, <1>2, <1>4, ResolvesOnly
<1>5. ASSUME NEW t \in pending, NEW how \in {"refused", "deadline"}, Resolve(t, how)
      PROVE  Promise!Resolve
  <2>1. outcome'[t] = how /\ \A u \in Tasks : u # t => outcome'[u] = outcome[u]
    BY <1>1, <1>5 DEF Resolve, GwTypeOK
  <2> QED
    BY <1>1, <1>2, <1>3, <2>1, ResolvesOnly
<1>6. ASSUME NEW t \in Tasks, ScheduleRefused(t)
      PROVE  Promise!Resolve
  <2>1. /\ outcome[t] = "new" /\ outcome'[t] = "refused"
        /\ \A u \in Tasks : u # t => outcome'[u] = outcome[u]
    BY <1>1, <1>6 DEF ScheduleRefused, Resolve, GwTypeOK
  <2> QED
    BY <1>1, <1>2, <2>1, ResolvesOnly
<1>7. ASSUME NEW t \in Tasks, NEW S \in SUBSET Nodes, Schedule(t, S)
      PROVE  Promise!Submit(t)
  <2>1. UNCHANGED RunnerOf
    BY <1>1 DEF RunnerOf
  <2> QED
    BY <1>7, <2>1 DEF Schedule, Resolve, Promise!Submit, RunnerOf
<1>8. ASSUME NEW t \in Tasks, SweepExpired(t)
      PROVE  Promise!Resolve
  <2>1. CASE NullConnection(Listed(probed[t]))
    BY <1>4, <1>8, <2>1 DEF SweepExpired, Crash
  <2>2. CASE ~NullConnection(Listed(probed[t]))
    BY <1>5, <1>8, <2>2 DEF SweepExpired
  <2> QED
    BY <2>1, <2>2
<1>9. ASSUME NEW n \in Nodes, NEW t \in Tasks, GrantPull(n, t)
      PROVE  Promise!Resolve
  <2>1. CASE NullConnection(Losers(n, t))
    BY <1>4, <1>9, <2>1, ZenonT(60) DEF GrantPull, Crash
  <2>2. CASE ~NullConnection(Losers(n, t))
    BY <1>4, <1>9, <2>2, ZenonT(60) DEF GrantPull
  <2> QED
    BY <2>1, <2>2
<1>10. ASSUME NEW n \in Nodes, NEW t \in Tasks, HandleDecline(n, t)
       PROVE  Promise!Resolve
  <2>1. CASE outcome' = outcome
    BY <1>4, <2>1
  <2>2. CASE t \in pending /\ Resolve(t, "refused")
    BY <1>5, <2>2
  <2> QED
    BY <1>10, <2>1, <2>2 DEF HandleDecline
<1>11. ASSUME NEW n \in Nodes, NEW t \in Tasks, HandleResult(n, t)
       PROVE  Promise!Resolve
  <2>1. PICK r \in {<<"result", "ok">>, <<"failure", "failed">>} :
               /\ ReadFrame(n, r[1], t)
               /\ IF store[t] # NoOwner
                    THEN store' = [store EXCEPT ![t] = NoOwner] /\ Resolve(t, r[2])
                    ELSE UNCHANGED <<store, outcome>>
    BY <1>11 DEF HandleResult
  <2>2. CASE store[t] = NoOwner
    BY <1>4, <2>1, <2>2
  <2>3. CASE store[t] # NoOwner
    <3>1. /\ outcome[t] = "waiting" /\ outcome'[t] \in {"ok", "failed"}
          /\ \A u \in Tasks : u # t => outcome'[u] = outcome[u]
      BY <1>1, <1>3, <2>1, <2>3 DEF Resolve, GwTypeOK
    <3>2. /\ toGw[n] # <<>> /\ Head(toGw[n]) = Frame(r[1], t) /\ toGw[n] \in Seq(GwFrames)
          /\ r[1] \in {"result", "failure"}
      BY <1>1, <2>1, ReadEffect DEF NetTypeOK
    <3>3. Occurs(Frame(r[1], t), toGw[n])
      BY <3>2, OccursTail, ZenonT(60)
    <3>4. t \in ran[n]
      BY <3>2, <3>3 DEF IInv, RunInv, RunAt
    <3> QED
      BY <1>1, <1>2, <3>1, <3>4, ResolvesOnly
  <2> QED
    BY <2>2, <2>3
<1>12. ASSUME NEW n \in Nodes, EndOfStream(n)
       PROVE  Promise!Resolve
  <2>1. Key(n) # NoOwner
    BY DEF Key, NoOwner
  <2>2. ASSUME NEW t \in Tasks
        PROVE  outcome'[t] = outcome[t] \/ (outcome[t] = "waiting" /\ outcome'[t] = "refused")
    BY <1>3, <1>12, <2>1 DEF EndOfStream
  <2> QED
    BY <1>1, <1>2, <2>2, ResolvesOnly
<1>13. ASSUME NEW n \in Nodes,
              \/ ConnectOk(n) \/ ConnectFail(n) \/ DeferredDelete(n) \/ HandleAdvertisement(n)
              \/ \E t \in Tasks : RevokePull(n, t)
       PROVE  Promise!Resolve
  BY <1>4, <1>13, ZenonT(60) DEF ConnectOk, ConnectFail, DeferredDelete, HandleAdvertisement, RevokePull
<1> QED
  BY <1>6, <1>7, <1>8, <1>9, <1>10, <1>11, <1>12, <1>13 DEF GwStep, GwTask, GwReads

\* A step of a node runs a task nobody ran before, or does not show.
LEMMA AgentPromise ==
  ASSUME IInv, NEW n \in Nodes, AgentStep(n)
  PROVE  UNCHANGED Promise!vars \/ \E t \in Tasks : Promise!Run(t, n)
<1>1. outcome' = outcome /\ GwTypeOK /\ NodeTypeOK /\ NetTypeOK
  BY DEF AgentStep, gwVars, IInv, TypeOK
<1>2. ASSUME ran' = ran
      PROVE  UNCHANGED Promise!vars
  BY <1>1, <1>2 DEF Promise!vars
<1>3. ASSUME NEW t \in Tasks, ReceiveGrant(n, t), ran' # ran
      PROVE  Promise!Run(t, n)
  <2>1. ran' = [ran EXCEPT ![n] = @ \cup {t}]
    BY <1>3, ZenonT(60) DEF ReceiveGrant
  <2>2. /\ toNode[n] # <<>> /\ Head(toNode[n]) = Frame("grant", t)
        /\ toNode[n] \in Seq(NodeFrames)
    <3>1. Receive(n, "grant", t)
      BY <1>3, ZenonT(60) DEF ReceiveGrant
    <3> QED
      BY <1>1, <3>1, ReceiveEffect
  <2>3. Occurs(Frame("grant", t), toNode[n])
    BY <2>2, OccursTail
  <2>4. n \in granted[t] /\ t \notin ran[n]
    BY <2>3 DEF IInv, RunInv, RunAt
  <2>5. \A m \in Nodes : t \notin ran[m]
    BY <2>4, ZenonT(60) DEF IInv, RunInv, RunAt, RoundInv, RoundAt
  <2>6. outcome[t] # "new"
    BY <2>4 DEF IInv, RoundInv, RoundAt
  <2>7. RunnerOf[t] = {}
    BY <2>5 DEF RunnerOf
  <2>8. RunnerOf' = [RunnerOf EXCEPT ![t] = {n}]
    <3>1. \A u \in Tasks : u # t => {m \in Nodes : u \in ran'[m]} = {m \in Nodes : u \in ran[m]}
      BY <1>1, <2>1 DEF NodeTypeOK
    <3>2. {m \in Nodes : t \in ran'[m]} = {n}
      BY <1>1, <2>1, <2>5 DEF NodeTypeOK
    <3> QED
      BY <3>1, <3>2, ZenonT(60) DEF RunnerOf
  <2>9. outcome' = [outcome EXCEPT ![t] = IF @ = "new" THEN "waiting" ELSE @]
    BY <1>1, <2>6 DEF GwTypeOK
  <2> QED
    BY <2>7, <2>8, <2>9 DEF Promise!Run, RunnerOf
<1>4. ASSUME NEW t \in Tasks, \/ ReceiveProbe(n, t) \/ ReceiveCancel(n, t) \/ HandlerFinish(n, t)
                              \/ \E r \in Refs : FetchCompletes(n, t, r)
      PROVE  ran' = ran
  BY <1>4, ZenonT(60) DEF ReceiveProbe, ReceiveCancel, HandlerFinish, FetchCompletes
<1>5. ASSUME ProcessCommand(n) \/ Walking(n) \/ NodeEndOfStream(n)
      PROVE  ran' = ran
  BY <1>5 DEF ProcessCommand, Walking, NodeEndOfStream, WalkDefer, WalkPull, WalkDecline,
              EndWalk, ProbePull, ProbeEnqueue, ProbeDecline
<1> QED
  BY <1>2, <1>3, <1>4, <1>5 DEF AgentStep, NodeStep

\* The two schedulers together keep the promise of TaskResolution: a task runs
\* on one node at most, and its receiver is told one outcome, a success only if
\* the task ran.
THEOREM KeepsPromise == Spec => ImplementsPromise
<1>1. Init => Promise!Init
  <2>1. ASSUME Init
        PROVE  Promise!Init
    BY <2>1 DEF Init, GwInit, NodeInit, Promise!Init
  <2> QED
    BY <2>1
<1>2. IInv /\ [Next]_vars => [Promise!Next]_(Promise!vars)
  <2> SUFFICES ASSUME IInv, [Next]_vars
               PROVE  Promise!Next \/ UNCHANGED Promise!vars
    OBVIOUS
  <2>1. CASE GwStep
    BY <2>1, GatewayPromise DEF Promise!Next
  <2>2. ASSUME NEW n \in Nodes, AgentStep(n)
        PROVE  Promise!Next \/ UNCHANGED Promise!vars
    BY <2>2, AgentPromise DEF Promise!Next
  <2>3. ASSUME ran' = ran, outcome' = outcome
        PROVE  UNCHANGED Promise!vars
    BY <2>3 DEF Promise!vars
  <2>4. ASSUME NEW n \in Breakable, Break(n)
        PROVE  UNCHANGED Promise!vars
    BY <2>3, <2>4 DEF Break, gwVars, nodeVars
  <2>5. CASE UNCHANGED vars
    BY <2>3, <2>5 DEF vars, gwVars, nodeVars
  <2> QED
    BY <2>1, <2>2, <2>4, <2>5 DEF Next
<1> QED
  BY <1>1, <1>2, Invariance, PTL DEF Spec, ImplementsPromise, Promise!Spec
==============================================================================
