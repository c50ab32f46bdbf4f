---------------------------- MODULE ProbeScheduler ----------------------------
(***************************************************************************)
(* The gateway's probe scheduler                                           *)
(* (src/src/gateway/extensions/schedulers/probe/), the parts of the node   *)
(* directory, the node records and the receiver storage it works with, and *)
(* the frame handlers that resolve a stored receiver.                      *)
(*                                                                         *)
(* A node is listed in the directory under a placeholder key until its     *)
(* advertisement rekeys it. The completion of a read at the end of a       *)
(* stream closes the connection (link "eof"); a deferred command destroys  *)
(* it later (link "down"), and until then the node still counts as         *)
(* connected.                                                              *)
(***************************************************************************)
EXTENDS TlvNet, FiniteSets

CONSTANTS CandidateCount,   \* candidate_count, the probe ratio
          ProbeNodes,       \* nodes whose advertisement lists "probe"
          Preconnected      \* bound: nodes that connected and advertised
                            \* before the first task arrives

ASSUME GatewayConfigAssumption ==
  CandidateCount \in Nat \ {0} /\ ProbeNodes \subseteq Nodes /\ Preconnected \subseteq Nodes

VARIABLES gwUp,       \* the gateway process is alive
          link,       \* node |-> state of its Node record's connection
          key,        \* node |-> whether it was rekeyed
          probed,     \* task |-> probed_node_ids, for the tasks in pending
          pending,    \* tasks in pending_
          store,      \* task |-> node key owning its receiver in the storage
          outcome,    \* task |-> what its receiver was told
          granted,    \* task |-> nodes ever sent a grant for it (history)
          cancelled   \* task |-> nodes ever sent a cancel for it (history)

gwVars == <<gwUp, link, key, probed, pending, store, outcome, granted, cancelled>>

NoOwner == <<>>
Key(n) == <<n, key[n]>>
Keys == Nodes \X {"placeholder", "canonical"}

\* NodeDirectoryImpl::GetNode: a key names a node while it is listed under it.
Listed(ks) == {n \in Nodes : Key(n) \in ks}

GwTypeOK ==
  /\ gwUp \in BOOLEAN
  /\ link \in [Nodes -> {"connecting", "up", "eof", "down"}]
  /\ key \in [Nodes -> {"placeholder", "canonical"}]
  /\ probed \in [Tasks -> SUBSET Keys]
  /\ pending \in SUBSET Tasks
  /\ store \in [Tasks -> Keys \cup {NoOwner}]
  /\ outcome \in [Tasks -> {"new", "waiting", "ok", "failed", "refused", "deadline"}]
  /\ granted \in [Tasks -> SUBSET Nodes]
  /\ cancelled \in [Tasks -> SUBSET Nodes]

GwInit ==
  /\ gwUp = TRUE
  /\ link = [n \in Nodes |-> IF n \in Preconnected THEN "up" ELSE "connecting"]
  /\ key = [n \in Nodes |-> IF n \in Preconnected THEN "canonical" ELSE "placeholder"]
  /\ wire = [n \in Nodes |-> IF n \in Preconnected THEN "up" ELSE "none"]
  /\ probed = [t \in Tasks |-> {}]
  /\ pending = {}
  /\ store = [t \in Tasks |-> NoOwner]
  /\ outcome = [t \in Tasks |-> "new"]
  /\ granted = [t \in Tasks |-> {}]
  /\ cancelled = [t \in Tasks |-> {}]

\* Connection::Write: nothing once the descriptor is closed.
Written(n, type, t) ==
  IF link[n] = "up" THEN Carry(n, toNode[n], Frame(type, t)) ELSE toNode[n]

\* sendCancel dereferences the node's connection without a test: a listed node
\* whose connection is gone takes the process down.
NullConnection(ns) == \E n \in ns : link[n] = "down"

Crash ==
  /\ gwUp' = FALSE
  /\ UNCHANGED <<link, key, probed, pending, store, outcome, granted, cancelled, toNode>>

\* The gateway reads the next frame of a node's connection.
ReadFrame(n, type, t) ==
  /\ gwUp /\ link[n] = "up"
  /\ Arrives(toGw[n], type, t)
  /\ toGw' = [toGw EXCEPT ![n] = Tail(@)]
  /\ UNCHANGED wire

Resolve(t, how) == outcome' = [outcome EXCEPT ![t] = how]

\* Faulty variant: the round outlives its resolution.
ForgetNothing(t) == UNCHANGED <<pending, probed>>

\* pending_.erase
Forget(t) ==
  /\ pending' = pending \ {t}
  /\ probed' = [probed EXCEPT ![t] = {}]

------------------------------------------------------------------------------
\* Node::HandleCompletion: the connect succeeds or fails. A node agent
\* advertises itself as soon as it accepts.
ConnectOk(n) ==
  /\ gwUp /\ link[n] = "connecting"
  /\ link' = [link EXCEPT ![n] = "up"]
  /\ wire' = [wire EXCEPT ![n] = "up"]
  /\ toGw' = [toGw EXCEPT ![n] = <<Frame("advertisement", NoTask)>>]
  /\ UNCHANGED <<gwUp, key, probed, pending, store, outcome, granted, cancelled, toNode>>

ConnectFail(n) ==
  /\ gwUp /\ link[n] = "connecting"
  /\ link' = [link EXCEPT ![n] = "down"]
  /\ UNCHANGED <<gwUp, key, probed, pending, store, outcome, granted, cancelled, netVars>>

\* handleNodeAdvertisementFrame stores the capabilities and rekeys the record.
HandleAdvertisement(n) ==
  /\ ReadFrame(n, "advertisement", NoTask)
  /\ key' = [key EXCEPT ![n] = "canonical"]
  /\ UNCHANGED <<gwUp, link, probed, pending, store, outcome, granted, cancelled, toNode>>

\* GetCandidates: connected nodes that advertised the protocol, or nothing yet.
Candidates == {n \in Nodes : link[n] \in {"up", "eof"} /\ (key[n] = "placeholder" \/ n \in ProbeNodes)}

\* Schedule: a pseudo-random sample of min(CandidateCount, candidates) nodes.
Samples == {S \in SUBSET Candidates :
              \/ S = Candidates /\ Cardinality(S) <= CandidateCount
              \/ Cardinality(S) = CandidateCount}

ScheduleRefused(t) ==
  /\ gwUp /\ outcome[t] = "new" /\ Candidates = {}
  /\ Resolve(t, "refused")
  /\ UNCHANGED <<gwUp, link, key, probed, pending, store, granted, cancelled, netVars>>

Schedule(t, S) ==
  /\ gwUp /\ outcome[t] = "new" /\ Candidates # {}
  /\ S \in Samples
  /\ pending' = pending \cup {t}
  /\ probed' = [probed EXCEPT ![t] = {Key(n) : n \in S}]
  /\ Resolve(t, "waiting")
  /\ toNode' = [n \in Nodes |-> IF n \in S THEN Written(n, "probe", t) ELSE toNode[n]]
  /\ UNCHANGED <<gwUp, link, key, store, granted, cancelled, toGw, wire>>

\* Faulty variant: a late pull is dropped without an answer.
RevokePullSilently(n, t) ==
  /\ ReadFrame(n, "pull", t)
  /\ t \notin pending \/ Key(n) \notin probed[t]
  /\ UNCHANGED <<gwVars, toNode>>

\* handleTaskPullFrame, the revoked cases: no pending round, or the puller is
\* not among the probed ids.
RevokePull(n, t) ==
  /\ ReadFrame(n, "pull", t)
  /\ t \notin pending \/ Key(n) \notin probed[t]
  /\ toNode' = [toNode EXCEPT ![n] = Written(n, "cancel", t)]
  /\ cancelled' = [cancelled EXCEPT ![t] = @ \cup {n}]
  /\ UNCHANGED <<gwUp, link, key, probed, pending, store, outcome, granted>>

\* The other outstanding nodes of the round, still in the directory.
Losers(n, t) == Listed(probed[t]) \ {n}

\* Faulty variant: the loop over the losers sends them the grant.
AnswerAlike(n, t, losers) ==
  [m \in Nodes |-> IF m \in losers \cup {n} THEN Written(m, "grant", t) ELSE toNode[m]]

\* sendGrant to the winner, sendCancel to the losers.
Answer(n, t, losers) ==
  [m \in Nodes |-> IF m = n THEN Written(n, "grant", t)
                   ELSE IF m \in losers THEN Written(m, "cancel", t)
                   ELSE toNode[m]]

\* handleTaskPullFrame, the winning case.
GrantPull(n, t) ==
  /\ ReadFrame(n, "pull", t)
  /\ t \in pending /\ Key(n) \in probed[t]
  /\ LET losers == Losers(n, t) IN
     IF NullConnection(losers) THEN Crash ELSE
       /\ toNode' = Answer(n, t, losers)
       /\ granted' = [granted EXCEPT ![t] = @ \cup {n}]
       /\ cancelled' = [cancelled EXCEPT ![t] = @ \cup losers]
       /\ store' = [store EXCEPT ![t] = Key(n)]
       /\ Forget(t)
       /\ UNCHANGED <<gwUp, link, key, outcome>>

\* Faulty variant: the last decline leaves the round to its deadline.
HandleDeclineLazily(n, t) ==
  /\ ReadFrame(n, "decline", t)
  /\ probed' = [probed EXCEPT ![t] = @ \ {Key(n)}]
  /\ UNCHANGED <<gwUp, link, key, pending, store, outcome, granted, cancelled, toNode>>

\* handleTaskDeclineFrame.
HandleDecline(n, t) ==
  /\ ReadFrame(n, "decline", t)
  /\ IF t \in pending
       THEN LET left == probed[t] \ {Key(n)} IN
            IF left = {} THEN Forget(t) /\ Resolve(t, "refused")
                         ELSE probed' = [probed EXCEPT ![t] = left] /\ UNCHANGED <<pending, outcome>>
       ELSE UNCHANGED <<probed, pending, outcome>>
  /\ UNCHANGED <<gwUp, link, key, store, granted, cancelled, toNode>>

\* SweepExpired, for one expired entry: the clock may pass the deadline at any
\* time, and a sweep that finds several expired entries is several such steps.
SweepExpired(t) ==
  /\ gwUp /\ t \in pending
  /\ IF NullConnection(Listed(probed[t])) THEN Crash ELSE
       /\ toNode' = [n \in Nodes |-> IF n \in Listed(probed[t]) THEN Written(n, "cancel", t)
                                     ELSE toNode[n]]
       /\ cancelled' = [cancelled EXCEPT ![t] = @ \cup Listed(probed[t])]
       /\ Forget(t)
       /\ Resolve(t, "deadline")
       /\ UNCHANGED <<gwUp, link, key, store, granted>>
  /\ UNCHANGED <<toGw, wire>>

\* Faulty variant: a failed result is not terminal.
HandleResultOkOnly(n, t) ==
  /\ \E type \in {"result", "failure"} :
       /\ ReadFrame(n, type, t)
       /\ IF type = "result" /\ store[t] # NoOwner
            THEN store' = [store EXCEPT ![t] = NoOwner] /\ Resolve(t, "ok")
            ELSE UNCHANGED <<store, outcome>>
  /\ UNCHANGED <<gwUp, link, key, probed, pending, granted, cancelled, toNode>>

\* handleTaskResultFrame, for a terminal result: whoever sends it.
HandleResult(n, t) ==
  /\ \E r \in {<<"result", "ok">>, <<"failure", "failed">>} :
       /\ ReadFrame(n, r[1], t)
       /\ IF store[t] # NoOwner
            THEN store' = [store EXCEPT ![t] = NoOwner] /\ Resolve(t, r[2])
            ELSE UNCHANGED <<store, outcome>>
  /\ UNCHANGED <<gwUp, link, key, probed, pending, granted, cancelled, toNode>>

\* Faulty variant: the receivers are erased without a word.
EndOfStreamSilently(n) ==
  /\ gwUp /\ link[n] = "up" /\ wire[n] = "cut" /\ toGw[n] = <<>>
  /\ link' = [link EXCEPT ![n] = "eof"]
  /\ store' = [t \in Tasks |-> IF store[t] = Key(n) THEN NoOwner ELSE store[t]]
  /\ UNCHANGED <<gwUp, key, probed, pending, outcome, granted, cancelled, netVars>>

\* Connection::onEndOfStream: the mailbox's close callback notifies the
\* storage, which fails every receiver the node owns under its present key.
EndOfStream(n) ==
  /\ gwUp /\ link[n] = "up" /\ wire[n] = "cut" /\ toGw[n] = <<>>
  /\ link' = [link EXCEPT ![n] = "eof"]
  /\ outcome' = [t \in Tasks |-> IF store[t] = Key(n) THEN "refused" ELSE outcome[t]]
  /\ store' = [t \in Tasks |-> IF store[t] = Key(n) THEN NoOwner ELSE store[t]]
  /\ UNCHANGED <<gwUp, key, probed, pending, granted, cancelled, netVars>>

\* Node::ProcessCommand(DEFERRED_DELETE).
DeferredDelete(n) ==
  /\ gwUp /\ link[n] = "eof"
  /\ link' = [link EXCEPT ![n] = "down"]
  /\ UNCHANGED <<gwUp, key, probed, pending, store, outcome, granted, cancelled, netVars>>

\* Reading a frame, by type.
GwReads(n) ==
  \/ HandleAdvertisement(n)
  \/ \E t \in Tasks : RevokePull(n, t) \/ GrantPull(n, t) \/ HandleDecline(n, t) \/ HandleResult(n, t)
==============================================================================
