-------------------------------- MODULE TlvNet --------------------------------
(***************************************************************************)
(* The TLV connections between the gateway and its nodes: one TCP          *)
(* connection per node, a FIFO of frames in each direction. A frame is its *)
(* type and the task it is about; a result with a failure status is its    *)
(* own type.                                                               *)
(***************************************************************************)
EXTENDS Workload, Sequences

CONSTANTS Nodes,
          NoTask    \* the task of a frame that is about none

ASSUME NoTaskAssumption == NoTask \notin Tasks

VARIABLES toNode,   \* node |-> frames on their way to it
          toGw,     \* node |-> frames on their way from it
          wire      \* node |-> "none" | "up" | "cut"

netVars == <<toNode, toGw, wire>>

Frame(type, t) == [type |-> type, task |-> t]

NodeFrames == [type : {"probe", "grant", "cancel", "submission", "result", "rejected"},
               task : Tasks]

GwFrames == [type : {"pull", "decline", "submission", "result", "failure", "rejected"},
             task : Tasks]
              \cup {Frame("advertisement", NoTask)}

NetTypeOK ==
  /\ toNode \in [Nodes -> Seq(NodeFrames)]
  /\ toGw \in [Nodes -> Seq(GwFrames)]
  /\ wire \in [Nodes -> {"none", "up", "cut"}]

NetInit ==
  /\ toNode = [n \in Nodes |-> <<>>]
  /\ toGw = [n \in Nodes |-> <<>>]

\* A frame written to a broken connection goes nowhere.
Carry(n, ch, f) == IF wire[n] = "up" THEN Append(ch, f) ELSE ch

Arrives(ch, type, t) == ch # <<>> /\ Head(ch) = Frame(type, t)

\* The connection breaks: a suffix of what is in flight is lost either way,
\* the rest may still be read.
Cut(n) ==
  /\ wire[n] = "up"
  /\ wire' = [wire EXCEPT ![n] = "cut"]
  /\ \E i \in 0..Len(toNode[n]) : toNode' = [toNode EXCEPT ![n] = SubSeq(@, 1, i)]
  /\ \E i \in 0..Len(toGw[n]) : toGw' = [toGw EXCEPT ![n] = SubSeq(@, 1, i)]
==============================================================================
