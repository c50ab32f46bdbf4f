------------------------- MODULE ProbeRounds_proofs -------------------------
(***************************************************************************)
(* Every round of the gateway stays consistent: with the probes that are   *)
(* still under way it has at most one winner, and its receiver is held in  *)
(* one place.                                                              *)
(***************************************************************************)
EXTENDS ProbeScheduling, ProbeLocalScheduler_proofs

\* The context of a step is large: SMT gets more than its 5 seconds, and a leaf
\* whose translation runs out of time is tried again.
USE SMTT(60), Z3T(60), ZenonT(60)

\* A frame written by the gateway is appended to the node's channel or dropped.
LEMMA WrittenEffect ==
  ASSUME NetTypeOK, NEW n \in Nodes, NEW type \in NodeTypes, NEW t \in Tasks
  PROVE  /\ Written(n, type, t) \in Seq(NodeFrames)
         /\ \/ Written(n, type, t) = toNode[n]
            \/ Written(n, type, t) = Append(toNode[n], Frame(type, t))
<1>1. toNode[n] \in Seq(NodeFrames)
  BY DEF NetTypeOK
<1>2. Frame(type, t) \in NodeFrames
  BY DEF Frame, NodeFrames, NodeTypes
<1>3. Append(toNode[n], Frame(type, t)) \in Seq(NodeFrames)
  BY <1>1, <1>2
<1> QED
  BY <1>1, <1>3 DEF Written, Carry

\* Reading takes the first frame of a node's channel to the gateway.
LEMMA ReadEffect ==
  ASSUME NetTypeOK, NEW n \in Nodes, NEW type, NEW t, ReadFrame(n, type, t)
  PROVE  /\ toGw' \in [Nodes -> Seq(GwFrames)]
         /\ toGw[n] \in Seq(GwFrames) /\ toGw[n] # <<>> /\ Head(toGw[n]) = Frame(type, t)
         /\ toGw'[n] = Tail(toGw[n])
         /\ \A m \in Nodes : m # n => toGw'[m] = toGw[m]
<1>1. toGw \in [Nodes -> Seq(GwFrames)] /\ toGw[n] \in Seq(GwFrames)
  BY DEF NetTypeOK
<1>2. toGw[n] # <<>> /\ Head(toGw[n]) = Frame(type, t) /\ toGw' = [toGw EXCEPT ![n] = Tail(@)]
  BY DEF ReadFrame, Arrives
<1>3. Tail(toGw[n]) \in Seq(GwFrames)
  BY <1>1, <1>2
<1> QED
  BY <1>1, <1>2, <1>3

\* So do the steps of the gateway.
LEMMA GatewayType ==
  ASSUME TypeOK, GwStep
  PROVE  TypeOK'
<1> USE DEF TypeOK
<1>1. NodeTypeOK'
  BY ZenonT(60) DEF GwStep, nodeVars, NodeTypeOK
<1>2. \A n \in Nodes : Key(n) \in Keys
  BY DEF Key, Keys, GwTypeOK
<1>3. ASSUME NEW t \in Tasks, Forget(t)
      PROVE  pending' \in SUBSET Tasks /\ probed' \in [Tasks -> SUBSET Keys]
  BY <1>3 DEF Forget, GwTypeOK
<1>4. ASSUME NEW t \in Tasks, ScheduleRefused(t)
      PROVE  NetTypeOK' /\ GwTypeOK'
  BY <1>4 DEF ScheduleRefused, Resolve, NetTypeOK, GwTypeOK, netVars
<1>5. ASSUME NEW t \in Tasks, NEW S \in SUBSET Nodes, Schedule(t, S)
      PROVE  NetTypeOK' /\ GwTypeOK'
  <2>1. toNode' \in [Nodes -> Seq(NodeFrames)]
    BY <1>5, WrittenEffect DEF Schedule, NodeTypes, NetTypeOK
  <2>2. {Key(n) : n \in S} \in SUBSET Keys
    BY DEF Key, Keys, GwTypeOK
  <2> QED
    BY <1>5, <2>1, <2>2 DEF Schedule, Resolve, NetTypeOK, GwTypeOK
<1>6. ASSUME NEW t \in Tasks, SweepExpired(t)
      PROVE  NetTypeOK' /\ GwTypeOK'
  <2>1. CASE NullConnection(Listed(probed[t]))
    BY <1>6, <2>1, ZenonT(60) DEF SweepExpired, Crash, NetTypeOK, GwTypeOK
  <2>2. CASE ~NullConnection(Listed(probed[t]))
    <3>1. toNode' \in [Nodes -> Seq(NodeFrames)]
      <4>1. toNode' = [n \in Nodes |-> IF n \in Listed(probed[t]) THEN Written(n, "cancel", t)
                                       ELSE toNode[n]]
        BY <1>6, <2>2 DEF SweepExpired
      <4> QED
        BY <4>1, WrittenEffect DEF NodeTypes, NetTypeOK
    <3>2. Listed(probed[t]) \in SUBSET Nodes /\ cancelled \in [Tasks -> SUBSET Nodes]
      BY DEF Listed, GwTypeOK
    <3>3. cancelled' = [cancelled EXCEPT ![t] = @ \cup Listed(probed[t])]
      BY <1>6, <2>2 DEF SweepExpired
    <3>4. cancelled' \in [Tasks -> SUBSET Nodes]
      BY <3>2, <3>3, SetGrows
    <3>5. /\ Forget(t) /\ Resolve(t, "deadline")
          /\ UNCHANGED <<gwUp, link, key, store, granted, toGw, wire>>
      BY <1>6, <2>2 DEF SweepExpired
    <3> QED
      BY <1>3, <3>1, <3>4, <3>5 DEF Resolve, NetTypeOK, GwTypeOK
  <2> QED
    BY <2>1, <2>2
<1>7. ASSUME NEW n \in Nodes, ConnectOk(n) \/ ConnectFail(n) \/ DeferredDelete(n)
      PROVE  NetTypeOK' /\ GwTypeOK'
  <2>1. Frame("advertisement", NoTask) \in GwFrames
    BY DEF GwFrames
  <2>2. <<Frame("advertisement", NoTask)>> \in Seq(GwFrames)
    BY <2>1
  <2>3. CASE ConnectOk(n)
    BY <2>2, <2>3 DEF ConnectOk, NetTypeOK, GwTypeOK
  <2>4. CASE ConnectFail(n) \/ DeferredDelete(n)
    BY <2>4, ZenonT(60) DEF ConnectFail, DeferredDelete, NetTypeOK, GwTypeOK, netVars
  <2> QED
    BY <1>7, <2>3, <2>4
<1>8. ASSUME NEW n \in Nodes, EndOfStream(n)
      PROVE  NetTypeOK' /\ GwTypeOK'
  BY <1>8 DEF EndOfStream, NetTypeOK, GwTypeOK, netVars
<1>9. ASSUME NEW n \in Nodes, NEW type, NEW t, ReadFrame(n, type, t), toNode' \in [Nodes -> Seq(NodeFrames)]
      PROVE  NetTypeOK'
  BY <1>9, ReadEffect, ZenonT(60) DEF NetTypeOK, ReadFrame
<1>10. ASSUME NEW n \in Nodes, HandleAdvertisement(n)
       PROVE  NetTypeOK' /\ GwTypeOK'
  BY <1>9, <1>10 DEF HandleAdvertisement, NetTypeOK, GwTypeOK
<1>11. ASSUME NEW n \in Nodes, NEW t \in Tasks, RevokePull(n, t)
       PROVE  NetTypeOK' /\ GwTypeOK'
  <2>1. toNode' \in [Nodes -> Seq(NodeFrames)]
    BY <1>11, WrittenEffect DEF RevokePull, NodeTypes, NetTypeOK
  <2> QED
    BY <1>9, <1>11, <2>1 DEF RevokePull, GwTypeOK
<1>12. ASSUME NEW n \in Nodes, NEW t \in Tasks, GrantPull(n, t)
       PROVE  NetTypeOK' /\ GwTypeOK'
  <2>1. CASE NullConnection(Losers(n, t))
    BY <1>9, <1>12, <2>1, ZenonT(60) DEF GrantPull, Crash, NetTypeOK, GwTypeOK
  <2>2. CASE ~NullConnection(Losers(n, t))
    <3>1. toNode' = Answer(n, t, Losers(n, t))
      BY <1>12, <2>2 DEF GrantPull
    <3>2. toNode' \in [Nodes -> Seq(NodeFrames)]
      BY <3>1, WrittenEffect DEF Answer, NodeTypes, NetTypeOK
    <3>3. Losers(n, t) \in SUBSET Nodes /\ Key(n) \in Keys
      BY DEF Losers, Listed, Key, Keys, GwTypeOK
    <3>4. /\ ReadFrame(n, "pull", t) /\ Forget(t)
          /\ granted' = [granted EXCEPT ![t] = @ \cup {n}]
          /\ cancelled' = [cancelled EXCEPT ![t] = @ \cup Losers(n, t)]
          /\ store' = [store EXCEPT ![t] = Key(n)]
          /\ UNCHANGED <<gwUp, link, key, outcome>>
      BY <1>12, <2>2 DEF GrantPull
    <3>5. granted' \in [Tasks -> SUBSET Nodes] /\ cancelled' \in [Tasks -> SUBSET Nodes]
      <4>1. granted \in [Tasks -> SUBSET Nodes] /\ cancelled \in [Tasks -> SUBSET Nodes]
        BY DEF GwTypeOK
      <4> QED
        BY <3>3, <3>4, <4>1, SetGrows
    <3> QED
      BY <1>3, <1>9, <3>2, <3>3, <3>4, <3>5 DEF GwTypeOK
  <2> QED
    BY <2>1, <2>2
<1>13. ASSUME NEW n \in Nodes, NEW t \in Tasks, HandleDecline(n, t)
       PROVE  NetTypeOK' /\ GwTypeOK'
  <2>1. NetTypeOK'
    BY <1>9, <1>13 DEF HandleDecline, NetTypeOK
  <2>2. pending' \in SUBSET Tasks /\ probed' \in [Tasks -> SUBSET Keys]
    BY <1>3, <1>13 DEF HandleDecline, GwTypeOK
  <2> QED
    BY <1>13, <2>1, <2>2 DEF HandleDecline, Resolve, GwTypeOK
<1>14. ASSUME NEW n \in Nodes, NEW t \in Tasks, HandleResult(n, t)
       PROVE  NetTypeOK' /\ GwTypeOK'
  <2>1. PICK r \in {<<"result", "ok">>, <<"failure", "failed">>} :
               /\ ReadFrame(n, r[1], t)
               /\ IF store[t] # NoOwner
                    THEN store' = [store EXCEPT ![t] = NoOwner] /\ Resolve(t, r[2])
                    ELSE UNCHANGED <<store, outcome>>
    BY <1>14 DEF HandleResult
  <2>2. r[2] \in {"ok", "failed"}
    OBVIOUS
  <2>3. NetTypeOK'
    BY <1>9, <1>14, <2>1 DEF HandleResult, NetTypeOK
  <2> QED
    BY <1>14, <2>1, <2>2, <2>3 DEF HandleResult, Resolve, GwTypeOK
<1> QED
  BY <1>1, <1>4, <1>5, <1>6, <1>7, <1>8, <1>10, <1>11, <1>12, <1>13, <1>14 DEF GwStep, GwTask, GwReads

\* TypeOK is inductive.
LEMMA NextType ==
  ASSUME TypeOK, [Next]_vars
  PROVE  TypeOK'
<1>1. ASSUME NEW n \in Nodes, Break(n)
      PROVE  TypeOK'
  <2>1. toNode' \in [Nodes -> Seq(NodeFrames)]
    BY <1>1, OccursPrefix DEF Break, Cut, TypeOK, NetTypeOK
  <2>2. toGw' \in [Nodes -> Seq(GwFrames)]
    BY <1>1, OccursPrefix DEF Break, Cut, TypeOK, NetTypeOK
  <2> QED
    BY <1>1, <2>1, <2>2, ZenonT(60)
    DEF Break, Cut, TypeOK, NetTypeOK, GwTypeOK, NodeTypeOK, gwVars, nodeVars, Keys
<1>2. CASE UNCHANGED vars
  BY <1>2, ZenonT(60) DEF vars, gwVars, nodeVars, netVars, TypeOK, NetTypeOK, GwTypeOK, NodeTypeOK, Keys
<1>3. ASSUME NEW n \in Nodes, AgentStep(n)
      PROVE  TypeOK'
  <2>1. AnyNodeStep(n) /\ UNCHANGED gwVars
    BY <1>3, ZenonT(60) DEF AgentStep, AnyNodeStep
  <2>2. NetTypeOK' /\ NodeTypeOK'
    BY <2>1, AgentType DEF TypeOK
  <2>3. GwTypeOK'
    BY <2>1, ZenonT(60) DEF gwVars, TypeOK, GwTypeOK, Keys
  <2> QED
    BY <2>2, <2>3 DEF TypeOK
<1> QED
  BY <1>1, <1>2, <1>3, GatewayType, BreakableAssumption DEF Next

\* The initial state of the schedulers and the connections is well typed.
LEMMA InitType ==
  ASSUME Init
  PROVE  TypeOK
<1>1. NetTypeOK
  BY DEF Init, NetInit, GwInit, NetTypeOK
<1>2. GwTypeOK
  BY DEF Init, GwInit, GwTypeOK
<1>3. NoUsage \in AdmissionStates
  BY DEF NoUsage, AdmissionStates
<1>4. NodeTypeOK
  BY <1>3 DEF Init, NodeInit, NodeTypeOK, Idle
<1> QED
  BY <1>1, <1>2, <1>4 DEF TypeOK

\* A broken connection loses probes and pulls, and creates none.
LEMMA BreakKeeps ==
  ASSUME TypeOK, NEW n \in Nodes, Break(n), NEW m \in Nodes, NEW t \in Tasks
  PROVE  Keeps(m, t)
<1>1. /\ walk' = walk /\ queue' = queue
      /\ toNode[m] \in Seq(NodeFrames) /\ toGw[m] \in Seq(GwFrames)
  BY DEF Break, nodeVars, TypeOK, NetTypeOK
<1>2. PICK i \in 0..Len(toNode[n]) : toNode' = [toNode EXCEPT ![n] = SubSeq(@, 1, i)]
  BY ZenonT(60) DEF Break, Cut
<1>3. PICK j \in 0..Len(toGw[n]) : toGw' = [toGw EXCEPT ![n] = SubSeq(@, 1, j)]
  BY ZenonT(60) DEF Break, Cut
<1>4. CASE m = n
  <2>1. toNode'[m] = SubSeq(toNode[m], 1, i) /\ toGw'[m] = SubSeq(toGw[m], 1, j)
    BY <1>2, <1>3, <1>4 DEF TypeOK, NetTypeOK
  <2>2. /\ Occurs(Frame("probe", t), toNode'[m]) => Occurs(Frame("probe", t), toNode[m])
        /\ Unique(Frame("probe", t), toNode[m]) => Unique(Frame("probe", t), toNode'[m])
    BY <1>1, <1>4, <2>1, OccursPrefix
  <2>3. /\ Occurs(Frame("pull", t), toGw'[m]) => Occurs(Frame("pull", t), toGw[m])
        /\ Unique(Frame("pull", t), toGw[m]) => Unique(Frame("pull", t), toGw'[m])
    BY <1>1, <1>4, <2>1, OccursPrefix
  <2> QED
    BY <1>1, <2>2, <2>3, ZenonT(60) DEF Keeps, KeepsIn, AwaitedIn, UnderwayIn, OnceIn
<1>5. CASE m # n
  <2>1. toNode'[m] = toNode[m] /\ toGw'[m] = toGw[m]
    BY <1>2, <1>3, <1>5 DEF TypeOK, NetTypeOK
  <2> QED
    BY <1>1, <2>1 DEF Keeps, KeepsIn
<1> QED
  BY <1>4, <1>5

\* A probe goes its way once per round: a node that was granted or refused the
\* task has no probe or pull of it left, as long as somebody may still win.
RoundAt(t) ==
  /\ outcome[t] = "new" => granted[t] = {} /\ cancelled[t] = {} /\ t \notin pending
  /\ t \in pending => granted[t] = {}
  /\ granted[t] \cap cancelled[t] = {}
  /\ \A n, m \in granted[t] : n = m
  /\ \A n \in Nodes :
       /\ Once(n, t)
       /\ Underway(n, t) => /\ outcome[t] # "new"
                            /\ n \notin granted[t]
                            /\ t \in pending => n \notin cancelled[t]

RoundInv == \A t \in Tasks : RoundAt(t)

\* A round of which nothing changed but that probes moved on.
LEMMA RoundUntouched ==
  ASSUME NEW t \in Tasks, RoundAt(t), \A m \in Nodes : Keeps(m, t),
         granted'[t] = granted[t], cancelled'[t] = cancelled[t],
         t \in pending' => t \in pending, outcome'[t] = "new" => outcome[t] = "new"
  PROVE  RoundAt(t)'
<1>1. \A m \in Nodes : /\ Once(m, t) => Once(m, t)'
                       /\ Underway(m, t)' => Underway(m, t)
  BY DEF Keeps, KeepsIn, Once, Underway
<1>2. ASSUME NEW m \in Nodes
      PROVE  /\ Once(m, t)'
             /\ Underway(m, t)' => /\ outcome'[t] # "new"
                                   /\ m \notin granted'[t]
                                   /\ t \in pending' => m \notin cancelled'[t]
  <2>1. Once(m, t)'
    BY <1>1 DEF RoundAt
  <2>2. ASSUME Underway(m, t)'
        PROVE  /\ outcome'[t] # "new" /\ m \notin granted'[t]
               /\ t \in pending' => m \notin cancelled'[t]
    BY <1>1, <2>2, ZenonT(60) DEF RoundAt
  <2> QED
    BY <2>1, <2>2
<1> QED
  BY <1>2 DEF RoundAt

\* The pull that is answered was all there was of the probe at that node.
LEMMA PullTaken ==
  ASSUME TypeOK, NEW n \in Nodes, NEW t \in Tasks, Once(n, t), ReadFrame(n, "pull", t),
         walk'[n] = walk[n], queue'[n] = queue[n],
         NEW type \in {"grant", "cancel"}, toNode'[n] = Written(n, type, t)
  PROVE  Underway(n, t) /\ ~Underway(n, t)' /\ Once(n, t)'
<1>1. /\ toGw[n] \in Seq(GwFrames) /\ toGw[n] # <<>> /\ Head(toGw[n]) = Frame("pull", t)
      /\ toGw'[n] = Tail(toGw[n])
  BY ReadEffect DEF TypeOK
<1>2. /\ Occurs(Frame("pull", t), toGw[n])
      /\ Unique(Frame("pull", t), toGw[n]) => ~Occurs(Frame("pull", t), toGw'[n])
      /\ Unique(Frame("pull", t), toGw[n]) => Unique(Frame("pull", t), toGw'[n])
  BY <1>1, OccursTail
<1>3. toNode[n] \in Seq(NodeFrames)
  BY DEF TypeOK, NetTypeOK
<1>4. toNode'[n] = toNode[n] \/ toNode'[n] = Append(toNode[n], Frame(type, t))
  BY WrittenEffect DEF TypeOK, NodeTypes
<1>5. Frame(type, t) \in NodeFrames /\ Frame(type, t) # Frame("probe", t)
  BY FrameEq DEF NodeFrames, Frame
<1>6. /\ Occurs(Frame("probe", t), toNode'[n]) => Occurs(Frame("probe", t), toNode[n])
      /\ Unique(Frame("probe", t), toNode[n]) => Unique(Frame("probe", t), toNode'[n])
  <2>1. CASE toNode'[n] = toNode[n]
    BY <2>1
  <2>2. CASE toNode'[n] = Append(toNode[n], Frame(type, t))
    BY <1>3, <1>5, <2>2, OccursAppend
  <2> QED
    BY <1>4, <2>1, <2>2
<1>7. ~Occurs(Frame("pull", t), toGw'[n]) /\ ~Occurs(Frame("probe", t), toNode'[n])
  BY <1>2, <1>6, ZenonT(60) DEF Once, OnceIn
<1>8. walk'[n].arriving # t /\ ~Occurs(t, queue'[n]) /\ ~Occurs(t, walk'[n].deferred)
  <2>1. walk[n].arriving # t /\ ~Occurs(t, queue[n]) /\ ~Occurs(t, walk[n].deferred)
    BY <1>2, ZenonT(60) DEF Once, OnceIn
  <2> QED
    BY <2>1
<1>9. Underway(n, t) /\ ~Underway(n, t)'
  BY <1>2, <1>7, <1>8, ZenonT(60) DEF Underway, UnderwayIn, AwaitedIn
<1>10. Once(n, t)'
  BY <1>2, <1>6, <1>7, <1>8, ZenonT(60) DEF Once, OnceIn
<1> QED
  BY <1>9, <1>10

\* What may have become of the channel to m as far as a probe of t goes.
NoNewProbe(m, t) ==
  \/ toNode'[m] = toNode[m]
  \/ \E f \in NodeFrames : f # Frame("probe", t) /\ toNode'[m] = Append(toNode[m], f)

\* And of the channel from m.
NoNewPull(m) ==
  \/ toGw'[m] = toGw[m]
  \/ toGw[m] # <<>> /\ toGw'[m] = Tail(toGw[m])
  \/ toGw'[m] = <<Frame("advertisement", NoTask)>>

\* Answers are no probes, and a probe of another task is none of this one.
LEMMA WrittenNoProbe ==
  ASSUME NetTypeOK, NEW m \in Nodes, NEW type \in NodeTypes, NEW u \in Tasks, NEW t \in Tasks,
         type # "probe" \/ t # u, toNode'[m] = toNode[m] \/ toNode'[m] = Written(m, type, u)
  PROVE  NoNewProbe(m, t)
<1>1. toNode'[m] = toNode[m] \/ toNode'[m] = Append(toNode[m], Frame(type, u))
  BY WrittenEffect
<1>2. Frame(type, u) \in NodeFrames /\ Frame(type, u) # Frame("probe", t)
  BY FrameEq DEF NodeFrames, Frame, NodeTypes
<1> QED
  BY <1>1, <1>2 DEF NoNewProbe

\* The gateway's steps preserve the invariant of every round.
LEMMA GatewayRound ==
  ASSUME TypeOK, RoundInv, GwStep
  PROVE  RoundInv'
<1>1. walk' = walk /\ queue' = queue
  BY DEF GwStep, nodeVars
<1>2. NetTypeOK /\ \A t \in Tasks : RoundAt(t)
  BY DEF TypeOK, RoundInv
<1>3. ASSUME NEW t \in Tasks, \A m \in Nodes : NoNewProbe(m, t) /\ NoNewPull(m)
      PROVE  \A m \in Nodes : Keeps(m, t)
  BY <1>1, <1>2, <1>3, ChannelsKeep DEF NoNewProbe, NoNewPull
<1>4. ASSUME NEW n \in Nodes, NEW type, NEW u, ReadFrame(n, type, u)
      PROVE  \A m \in Nodes : NoNewPull(m)
  BY <1>2, <1>4, ReadEffect DEF NoNewPull
<1>5. ASSUME toNode' = toNode, \A m \in Nodes : NoNewPull(m),
             granted' = granted, cancelled' = cancelled,
             \A t \in Tasks : /\ t \in pending' => t \in pending
                              /\ outcome'[t] = "new" => outcome[t] = "new"
      PROVE  RoundInv'
  <2> SUFFICES ASSUME NEW t \in Tasks PROVE RoundAt(t)'
    BY DEF RoundInv
  <2>1. \A m \in Nodes : Keeps(m, t)
    BY <1>3, <1>5 DEF NoNewProbe
  <2> QED
    BY <1>2, <1>5, <2>1, RoundUntouched
<1>6. ASSUME NEW t \in Tasks, ScheduleRefused(t)
      PROVE  RoundInv'
  BY <1>5, <1>6 DEF ScheduleRefused, Resolve, netVars, NoNewPull, TypeOK, GwTypeOK
<1>7. ASSUME NEW n \in Nodes, ConnectOk(n) \/ ConnectFail(n) \/ DeferredDelete(n)
      PROVE  RoundInv'
  <2>1. \A m \in Nodes : NoNewPull(m)
    BY <1>7 DEF ConnectOk, ConnectFail, DeferredDelete, netVars, NoNewPull, TypeOK, NetTypeOK
  <2> QED
    BY <1>5, <1>7, <2>1 DEF ConnectOk, ConnectFail, DeferredDelete, netVars
<1>8. ASSUME NEW n \in Nodes, EndOfStream(n)
      PROVE  RoundInv'
  <2>1. \A m \in Nodes : NoNewPull(m)
    BY <1>8 DEF EndOfStream, netVars, NoNewPull
  <2> QED
    BY <1>5, <1>8, <2>1 DEF EndOfStream, netVars
<1>9. ASSUME NEW n \in Nodes, HandleAdvertisement(n)
      PROVE  RoundInv'
  BY <1>4, <1>5, <1>9 DEF HandleAdvertisement
<1>10. ASSUME NEW n \in Nodes, NEW t \in Tasks, HandleDecline(n, t)
       PROVE  RoundInv'
  <2>1. /\ toNode' = toNode /\ granted' = granted /\ cancelled' = cancelled
        /\ \A m \in Nodes : NoNewPull(m)
    BY <1>4, <1>10 DEF HandleDecline
  <2>2. \A u \in Tasks : /\ u \in pending' => u \in pending
                         /\ outcome'[u] = "new" => outcome[u] = "new"
    BY <1>10 DEF HandleDecline, Forget, Resolve, TypeOK, GwTypeOK
  <2> QED
    BY <1>5, <2>1, <2>2
<1>11. ASSUME NEW n \in Nodes, NEW t \in Tasks, HandleResult(n, t)
       PROVE  RoundInv'
  <2>1. PICK r \in {<<"result", "ok">>, <<"failure", "failed">>} :
               /\ ReadFrame(n, r[1], t)
               /\ IF store[t] # NoOwner
                    THEN store' = [store EXCEPT ![t] = NoOwner] /\ Resolve(t, r[2])
                    ELSE UNCHANGED <<store, outcome>>
    BY <1>11 DEF HandleResult
  <2>2. r[2] # "new"
    OBVIOUS
  <2>3. \A m \in Nodes : NoNewPull(m)
    BY <1>4, <2>1
  <2>4. \A u \in Tasks : outcome'[u] = "new" => outcome[u] = "new"
    BY <2>1, <2>2 DEF Resolve, TypeOK, GwTypeOK
  <2> QED
    BY <1>5, <1>11, <2>3, <2>4 DEF HandleResult
<1>12. ASSUME NEW t \in Tasks, NEW S \in SUBSET Nodes, Schedule(t, S)
       PROVE  RoundInv'
  <2>1. /\ outcome[t] = "new" /\ outcome' = [outcome EXCEPT ![t] = "waiting"]
        /\ pending' = pending \cup {t}
        /\ toGw' = toGw /\ granted' = granted /\ cancelled' = cancelled
        /\ toNode' = [n \in Nodes |-> IF n \in S THEN Written(n, "probe", t) ELSE toNode[n]]
    BY <1>12 DEF Schedule, Resolve
  <2>2. \A m \in Nodes : NoNewPull(m)
    BY <2>1 DEF NoNewPull
  <2>3. ASSUME NEW u \in Tasks, u # t
        PROVE  RoundAt(u)'
    <3>1. \A m \in Nodes : NoNewProbe(m, u)
      BY <1>2, <2>1, <2>3, WrittenNoProbe DEF NodeTypes
    <3>2. \A m \in Nodes : Keeps(m, u)
      BY <1>3, <2>2, <3>1
    <3>3. outcome'[u] = outcome[u] /\ (u \in pending' => u \in pending)
      BY <2>1, <2>3 DEF TypeOK, GwTypeOK
    <3> QED
      BY <1>2, <2>1, <3>2, <3>3, RoundUntouched
  <2>4. RoundAt(t)'
    <3>1. /\ granted'[t] = {} /\ cancelled'[t] = {} /\ outcome'[t] = "waiting"
          /\ \A m \in Nodes : Once(m, t) /\ ~Underway(m, t)
      BY <1>2, <2>1, ZenonT(60) DEF RoundAt, TypeOK, GwTypeOK
    <3>2. ASSUME NEW m \in Nodes
          PROVE  Once(m, t)'
      <4>1. toNode[m] \in Seq(NodeFrames) /\ Frame("probe", t) \in NodeFrames
        BY ZenonT(60) DEF TypeOK, NetTypeOK, NodeFrames, Frame
      <4>2. toNode'[m] = toNode[m] \/ toNode'[m] = Append(toNode[m], Frame("probe", t))
        BY <1>2, <2>1, WrittenEffect DEF NodeTypes
      <4>3. Unique(Frame("probe", t), toNode[m]) /\ ~Occurs(Frame("probe", t), toNode[m])
        BY <3>1 DEF Once, OnceIn, Underway, AwaitedIn, UnderwayIn
      <4>4. Unique(Frame("probe", t), Append(toNode[m], Frame("probe", t)))
        BY <4>1, <4>3, OccursAppend
      <4>5. Unique(Frame("probe", t), toNode'[m])
        BY <4>2, <4>3, <4>4, ZenonT(60)
      <4> QED
        BY <1>1, <2>1, <3>1, <4>5 DEF Once, OnceIn, Underway, AwaitedIn, UnderwayIn
    <3> QED
      BY <3>1, <3>2 DEF RoundAt
  <2> QED
    BY <2>3, <2>4 DEF RoundInv
<1>13. ASSUME NEW t \in Tasks, SweepExpired(t)
       PROVE  RoundInv'
  <2> DEFINE L == Listed(probed[t])
  <2>1. CASE NullConnection(L)
    <3>1. Crash /\ toGw' = toGw
      BY <1>13, <2>1 DEF SweepExpired
    <3> QED
      BY <1>5, <3>1 DEF Crash, NoNewPull
  <2>2. CASE ~NullConnection(L)
    <3>1. /\ t \in pending
          /\ toNode' = [n \in Nodes |-> IF n \in L THEN Written(n, "cancel", t) ELSE toNode[n]]
          /\ cancelled' = [cancelled EXCEPT ![t] = @ \cup L]
          /\ Forget(t) /\ Resolve(t, "deadline")
          /\ granted' = granted /\ toGw' = toGw
      BY <1>13, <2>2 DEF SweepExpired
    <3> HIDE DEF L
    <3>2. ASSUME NEW u \in Tasks
          PROVE  \A m \in Nodes : Keeps(m, u)
      <4>1. \A m \in Nodes : NoNewProbe(m, u)
        BY <1>2, <3>1, WrittenNoProbe DEF NodeTypes
      <4>2. \A m \in Nodes : NoNewPull(m)
        BY <3>1 DEF NoNewPull
      <4> QED
        BY <1>3, <4>1, <4>2
    <3>3. ASSUME NEW u \in Tasks, u # t
          PROVE  RoundAt(u)'
      <4>1. /\ cancelled'[u] = cancelled[u] /\ outcome'[u] = outcome[u]
            /\ u \in pending' => u \in pending
        BY <3>1, <3>3 DEF Forget, Resolve, TypeOK, GwTypeOK
      <4> QED
        BY <1>2, <3>1, <3>2, <4>1, RoundUntouched
    <3>4. RoundAt(t)'
      <4>1. /\ t \notin pending' /\ outcome'[t] = "deadline"
            /\ granted'[t] = {} /\ cancelled'[t] = cancelled[t] \cup L
        BY <1>2, <3>1 DEF RoundAt, Forget, Resolve, TypeOK, GwTypeOK
      <4>2. \A m \in Nodes : Once(m, t)'
        BY <1>2, <3>2, ZenonT(60) DEF RoundAt, Keeps, KeepsIn, Once
      <4> QED
        BY <4>1, <4>2 DEF RoundAt
    <3> QED
      BY <3>3, <3>4 DEF RoundInv
  <2> QED
    BY <2>1, <2>2
<1>14. ASSUME NEW n \in Nodes, NEW t \in Tasks, RevokePull(n, t)
       PROVE  RoundInv'
  <2>1. /\ ReadFrame(n, "pull", t)
        /\ toNode' = [toNode EXCEPT ![n] = Written(n, "cancel", t)]
        /\ cancelled' = [cancelled EXCEPT ![t] = @ \cup {n}]
        /\ pending' = pending /\ outcome' = outcome /\ granted' = granted
    BY <1>14, ZenonT(60) DEF RevokePull
  <2>2. /\ toNode'[n] = Written(n, "cancel", t)
        /\ \A m \in Nodes : toNode'[m] = toNode[m] \/ toNode'[m] = Written(m, "cancel", t)
    BY <2>1 DEF TypeOK, NetTypeOK
  <2>3. ASSUME NEW u \in Tasks
        PROVE  \A m \in Nodes : Keeps(m, u)
    <3>1. \A m \in Nodes : NoNewProbe(m, u)
      BY <1>2, <2>2, WrittenNoProbe DEF NodeTypes
    <3> QED
      BY <1>3, <1>4, <2>1, <3>1
  <2>4. ASSUME NEW u \in Tasks, u # t
        PROVE  RoundAt(u)'
    <3>1. cancelled'[u] = cancelled[u]
      BY <2>1, <2>4 DEF TypeOK, GwTypeOK
    <3> QED
      BY <1>2, <2>1, <2>3, <3>1, RoundUntouched
  <2>5. RoundAt(t)'
    <3>1. Underway(n, t) /\ ~Underway(n, t)'
      BY <1>1, <1>2, <2>1, <2>2, PullTaken DEF RoundAt
    <3>2. cancelled'[t] = cancelled[t] \cup {n} /\ n \notin granted[t] /\ outcome[t] # "new"
      BY <1>2, <2>1, <3>1 DEF RoundAt, TypeOK, GwTypeOK
    <3>3. ASSUME NEW m \in Nodes
          PROVE  Once(m, t)' /\ (Underway(m, t)' => Underway(m, t) /\ m # n)
      BY <1>2, <2>3, <3>1, ZenonT(60) DEF RoundAt, Keeps, KeepsIn, Once, Underway
    <3>4. /\ outcome'[t] # "new" /\ (t \in pending' => granted'[t] = {})
          /\ granted'[t] \cap cancelled'[t] = {} /\ \A k, m \in granted'[t] : k = m
      BY <1>2, <2>1, <3>2 DEF RoundAt
    <3>5. ASSUME NEW m \in Nodes, Underway(m, t)'
          PROVE  m \notin granted'[t] /\ (t \in pending' => m \notin cancelled'[t])
      BY <1>2, <2>1, <3>2, <3>3, <3>5, ZenonT(60) DEF RoundAt
    <3> QED
      BY <3>3, <3>4, <3>5, ZenonT(60) DEF RoundAt
  <2> QED
    BY <2>4, <2>5 DEF RoundInv
<1>15. ASSUME NEW n \in Nodes, NEW t \in Tasks, GrantPull(n, t)
       PROVE  RoundInv'
  <2> DEFINE L == Losers(n, t)
  <2>1. ReadFrame(n, "pull", t) /\ t \in pending
    BY <1>15 DEF GrantPull
  <2>2. CASE NullConnection(L)
    <3>1. Crash
      BY <1>15, <2>2 DEF GrantPull
    <3> QED
      BY <1>4, <1>5, <2>1, <3>1 DEF Crash
  <2>3. CASE ~NullConnection(L)
    <3>1. /\ toNode' = Answer(n, t, L)
          /\ granted' = [granted EXCEPT ![t] = @ \cup {n}]
          /\ cancelled' = [cancelled EXCEPT ![t] = @ \cup L]
          /\ Forget(t) /\ outcome' = outcome
      BY <1>15, <2>3 DEF GrantPull
    <3>2. n \notin L
      BY DEF Losers
    <3> HIDE DEF L
    <3>3. /\ toNode'[n] = Written(n, "grant", t)
          /\ \A m \in Nodes : \/ toNode'[m] = toNode[m]
                              \/ toNode'[m] = Written(m, "grant", t)
                              \/ toNode'[m] = Written(m, "cancel", t)
      BY <3>1 DEF Answer
    <3>4. ASSUME NEW u \in Tasks
          PROVE  \A m \in Nodes : Keeps(m, u)
      <4>1. \A m \in Nodes : NoNewProbe(m, u)
        BY <1>2, <3>3, WrittenNoProbe DEF NodeTypes
      <4> QED
        BY <1>3, <1>4, <2>1, <4>1
    <3>5. ASSUME NEW u \in Tasks, u # t
          PROVE  RoundAt(u)'
      <4>1. /\ cancelled'[u] = cancelled[u] /\ granted'[u] = granted[u]
            /\ u \in pending' => u \in pending
        BY <3>1, <3>5 DEF Forget, TypeOK, GwTypeOK
      <4> QED
        BY <1>2, <3>1, <3>4, <4>1, RoundUntouched, ZenonT(60)
    <3>6. RoundAt(t)'
      <4>1. Underway(n, t) /\ ~Underway(n, t)'
        BY <1>1, <1>2, <2>1, <3>3, PullTaken, ZenonT(60) DEF RoundAt
      <4>2. /\ granted[t] = {} /\ n \notin cancelled[t] /\ outcome[t] # "new"
            /\ granted'[t] = {n} /\ cancelled'[t] = cancelled[t] \cup L
            /\ t \notin pending'
        BY <1>2, <2>1, <3>1, <4>1 DEF RoundAt, Forget, TypeOK, GwTypeOK
      <4>3. ASSUME NEW m \in Nodes
            PROVE  Once(m, t)' /\ (Underway(m, t)' => Underway(m, t) /\ m # n)
        BY <1>2, <3>4, <4>1, ZenonT(60) DEF RoundAt, Keeps, KeepsIn, Once, Underway
      <4> QED
        BY <3>1, <3>2, <4>2, <4>3 DEF RoundAt
    <3> QED
      BY <3>5, <3>6 DEF RoundInv
  <2> QED
    BY <2>2, <2>3, ZenonT(60)
<1> QED
  BY <1>6, <1>7, <1>8, <1>9, <1>10, <1>11, <1>12, <1>13, <1>14, <1>15 DEF GwStep, GwTask, GwReads

\* Every step preserves the invariant of the rounds.
LEMMA NextRound ==
  ASSUME TypeOK, RoundInv, [Next]_vars
  PROVE  RoundInv'
<1>1. ASSUME UNCHANGED gwVars, \A m \in Nodes, t \in Tasks : Keeps(m, t)
      PROVE  RoundInv'
  BY <1>1, RoundUntouched, ZenonT(60) DEF RoundInv, gwVars
<1>2. ASSUME NEW n \in Nodes, AgentStep(n)
      PROVE  RoundInv'
  <2>1. AnyNodeStep(n) /\ UNCHANGED gwVars
    BY <1>2, ZenonT(60) DEF AgentStep, AnyNodeStep
  <2>2. \A m \in Nodes, t \in Tasks : Keeps(m, t)
    BY <2>1, AgentKeeps DEF TypeOK
  <2> QED
    BY <1>1, <2>1, <2>2
<1>3. ASSUME NEW n \in Nodes, Break(n)
      PROVE  RoundInv'
  BY <1>1, <1>3, BreakKeeps DEF Break
<1>4. CASE UNCHANGED vars
  <2>1. UNCHANGED gwVars /\ UNCHANGED <<toNode, walk, queue, toGw>>
    BY <1>4 DEF vars, nodeVars, netVars
  <2> QED
    BY <1>1, <2>1 DEF Keeps, KeepsIn
<1> QED
  BY <1>2, <1>3, <1>4, GatewayRound, BreakableAssumption DEF Next

\* The empty set has no elements to count.
LEMMA CardinalityEmpty == Cardinality({}) = 0
<1> DEFINE CS(cs) == cs = [T \in SUBSET {} |-> IF T = {} THEN 0
                                             ELSE 1 + cs[T \ {CHOOSE x : x \in T}]]
           count == CHOOSE cs : CS(cs)
<1>1. Cardinality({}) = count[{}]
  BY ZenonT(60) DEF Cardinality
<1>2. CS([T \in SUBSET {} |-> 0])
  <2>1. \A T \in SUBSET {} : T = {}
    OBVIOUS
  <2> QED
    BY <2>1
<1>3. CS(count)
  BY <1>2, ZenonT(60)
<1> QED
  BY <1>1, <1>3, ZenonT(60)

\* A sample of candidates is not empty: the probe ratio is at least one.
LEMMA SampleNonempty ==
  ASSUME Candidates # {}, NEW S \in Samples
  PROVE  S # {}
<1>1. CandidateCount # 0
  BY GatewayConfigAssumption
<1> QED
  BY <1>1, CardinalityEmpty DEF Samples

\* Every step leaves a waiting receiver held once, and no round empty.
LEMMA NextHeld ==
  ASSUME TypeOK, ReceiverHeldOnce, NoEmptyRound, [Next]_vars
  PROVE  ReceiverHeldOnce' /\ NoEmptyRound'
<1> USE DEF NoOwner
<1>1. ASSUME UNCHANGED <<pending, probed, store, outcome>>
      PROVE  ReceiverHeldOnce' /\ NoEmptyRound'
  BY <1>1 DEF ReceiverHeldOnce, NoEmptyRound
<1>2. ASSUME NEW t \in Tasks, ScheduleRefused(t)
      PROVE  ReceiverHeldOnce' /\ NoEmptyRound'
  BY <1>2 DEF ScheduleRefused, Resolve, ReceiverHeldOnce, NoEmptyRound, TypeOK, GwTypeOK
<1>3. ASSUME NEW t \in Tasks, NEW S \in SUBSET Nodes, Schedule(t, S)
      PROVE  ReceiverHeldOnce' /\ NoEmptyRound'
  <2>1. S # {}
    BY <1>3, SampleNonempty DEF Schedule
  <2>2. /\ pending' = pending \cup {t} /\ store' = store /\ outcome[t] = "new"
        /\ outcome' = [outcome EXCEPT ![t] = "waiting"]
        /\ probed' = [probed EXCEPT ![t] = {Key(n) : n \in S}]
    BY <1>3 DEF Schedule, Resolve
  <2>3. {Key(n) : n \in S} # {}
    BY <2>1
  <2>4. NoEmptyRound'
    BY <2>2, <2>3 DEF NoEmptyRound, TypeOK, GwTypeOK
  <2>5. ReceiverHeldOnce'
    BY <2>2 DEF ReceiverHeldOnce, TypeOK, GwTypeOK
  <2> QED
    BY <2>4, <2>5
<1>4. ASSUME NEW t \in Tasks, t \in pending, Forget(t), store' = store,
             NEW how \in {"refused", "deadline"}, Resolve(t, how)
      PROVE  ReceiverHeldOnce' /\ NoEmptyRound'
  <2>1. NoEmptyRound'
    BY <1>4 DEF Forget, NoEmptyRound, TypeOK, GwTypeOK
  <2>2. ReceiverHeldOnce'
    BY <1>4 DEF Forget, Resolve, ReceiverHeldOnce, TypeOK, GwTypeOK
  <2> QED
    BY <2>1, <2>2
<1>5. ASSUME NEW t \in Tasks, SweepExpired(t)
      PROVE  ReceiverHeldOnce' /\ NoEmptyRound'
  <2>1. CASE NullConnection(Listed(probed[t]))
    BY <1>1, <1>5, <2>1 DEF SweepExpired, Crash
  <2>2. CASE ~NullConnection(Listed(probed[t]))
    BY <1>4, <1>5, <2>2 DEF SweepExpired
  <2> QED
    BY <2>1, <2>2
<1>6. ASSUME NEW n \in Nodes, NEW t \in Tasks, GrantPull(n, t)
      PROVE  ReceiverHeldOnce' /\ NoEmptyRound'
  <2>1. CASE NullConnection(Losers(n, t))
    BY <1>1, <1>6, <2>1 DEF GrantPull, Crash
  <2>2. CASE ~NullConnection(Losers(n, t))
    <3>1. /\ t \in pending /\ Forget(t) /\ outcome' = outcome
          /\ store' = [store EXCEPT ![t] = Key(n)]
      BY <1>6, <2>2, ZenonT(60) DEF GrantPull
    <3>2. Key(n) # <<>>
      BY DEF Key
    <3>3. NoEmptyRound'
      BY <3>1 DEF Forget, NoEmptyRound, TypeOK, GwTypeOK
    <3>4. ReceiverHeldOnce'
      BY <3>1, <3>2 DEF Forget, ReceiverHeldOnce, TypeOK, GwTypeOK
    <3> QED
      BY <3>3, <3>4, ZenonT(60)
  <2> QED
    BY <2>1, <2>2
<1>7. ASSUME NEW n \in Nodes, NEW t \in Tasks, HandleDecline(n, t)
      PROVE  ReceiverHeldOnce' /\ NoEmptyRound'
  <2> DEFINE left == probed[t] \ {Key(n)}
  <2>1. CASE t \notin pending
    BY <1>1, <1>7, <2>1 DEF HandleDecline
  <2>2. CASE t \in pending /\ left = {}
    BY <1>4, <1>7, <2>2 DEF HandleDecline
  <2>3. CASE t \in pending /\ left # {}
    <3>1. /\ probed' = [probed EXCEPT ![t] = left]
          /\ UNCHANGED <<pending, outcome, store>>
      BY <1>7, <2>3 DEF HandleDecline
    <3> HIDE DEF left
    <3>2. NoEmptyRound'
      BY <2>3, <3>1 DEF NoEmptyRound, TypeOK, GwTypeOK
    <3>3. ReceiverHeldOnce'
      BY <3>1 DEF ReceiverHeldOnce
    <3> QED
      BY <3>2, <3>3
  <2> QED
    BY <2>1, <2>2, <2>3
<1>8. ASSUME NEW n \in Nodes, NEW t \in Tasks, HandleResult(n, t)
      PROVE  ReceiverHeldOnce' /\ NoEmptyRound'
  <2>1. UNCHANGED <<pending, probed>>
    BY <1>8 DEF HandleResult
  <2>2. CASE UNCHANGED <<store, outcome>>
    BY <1>1, <2>1, <2>2
  <2>3. ASSUME NEW how \in {"ok", "failed"}, Resolve(t, how), store[t] # NoOwner,
               store' = [store EXCEPT ![t] = NoOwner]
        PROVE  ReceiverHeldOnce' /\ NoEmptyRound'
    BY <2>1, <2>3 DEF Resolve, ReceiverHeldOnce, NoEmptyRound, TypeOK, GwTypeOK
  <2> QED
    BY <1>8, <2>2, <2>3 DEF HandleResult
<1>9. ASSUME NEW n \in Nodes, EndOfStream(n)
      PROVE  ReceiverHeldOnce' /\ NoEmptyRound'
  <2>1. Key(n) # <<>>
    BY ZenonT(60) DEF Key
  <2>2. /\ UNCHANGED <<pending, probed>>
        /\ \A t \in Tasks : store[t] = Key(n) => outcome'[t] = "refused" /\ store'[t] = <<>>
        /\ \A t \in Tasks : store[t] # Key(n) => outcome'[t] = outcome[t] /\ store'[t] = store[t]
    BY <1>9 DEF EndOfStream
  <2>3. ReceiverHeldOnce'
    BY <2>1, <2>2 DEF ReceiverHeldOnce
  <2>4. NoEmptyRound'
    BY <2>2, ZenonT(60) DEF NoEmptyRound
  <2> QED
    BY <2>3, <2>4
<1>10. ASSUME NEW n \in Nodes,
              \/ ConnectOk(n) \/ ConnectFail(n) \/ DeferredDelete(n) \/ HandleAdvertisement(n)
              \/ \E t \in Tasks : RevokePull(n, t)
       PROVE  ReceiverHeldOnce' /\ NoEmptyRound'
  BY <1>1, <1>10
  DEF ConnectOk, ConnectFail, DeferredDelete, HandleAdvertisement, RevokePull
<1>11. CASE GwStep
  BY <1>2, <1>3, <1>5, <1>6, <1>7, <1>8, <1>9, <1>10, <1>11 DEF GwStep, GwTask, GwReads
<1>12. CASE UNCHANGED gwVars
  BY <1>1, <1>12 DEF gwVars
<1> QED
  BY <1>11, <1>12 DEF Next, vars, AgentStep, Break
==============================================================================
