---------------------------- MODULE ResultStream ----------------------------
(***************************************************************************)
(* The way of a task's output: from the pipe of the program on the node    *)
(* (PipedExecutable) over the TLV link to the gateway, which frames it as  *)
(* an HTTP response (GatewayTlvHandler, HttpResultReceiver).               *)
(*                                                                         *)
(* The link keeps order.  It breaks when the gateway sees it break:        *)
(* nothing sent later arrives, and what arrives earlier is handled before. *)
(* The node finds out by itself.  A response is the sequence of frames     *)
(* written to the client: a head ("length", "chunked" or "error"), chunks, *)
(* and the terminal chunk "last".  An empty chunk has the bytes of "last"  *)
(* on the wire, so a client ends the response at either.                   *)
(***************************************************************************)
EXTENDS PipedExecutable

VARIABLES
  link,       \* the connection between node and gateway works
  delivered,  \* how many results the gateway has handled
  receiver,   \* the storage holds the task's receiver
  framer,     \* state_ of HttpResponseFramer
  response    \* frames written to the client

gatewayVars == <<delivered, receiver, framer, response>>
vars == <<nodeVars, link, gatewayVars>>

Frame(kind, r) == [kind |-> kind, from |-> r.from, to |-> r.to]

Init ==
  /\ InitNode
  /\ link = TRUE /\ delivered = 0
  /\ receiver = TRUE /\ framer = "idle" /\ response = <<>>

\* A framer that ends a chunked response with the chunk of the final result.
NextWithoutLast(r) ==
  CASE framer = "idle" /\ r.final   -> <<Frame("length", r)>>
    [] framer = "idle" /\ ~r.final  -> <<Frame("chunked", Result(0, 0, FALSE)), Frame("chunk", r)>>
    [] framer = "chunked"           -> <<Frame("chunk", r)>>
    [] framer = "done"              -> <<>>

\* HttpResponseFramer::Next: what one result adds to the response.
NextFrames(r) ==
  CASE framer = "idle" /\ r.final   -> <<Frame("length", r)>>
    [] framer = "idle" /\ ~r.final  -> <<Frame("chunked", Result(0, 0, FALSE)), Frame("chunk", r)>>
    [] framer = "chunked" /\ ~r.final -> <<Frame("chunk", r)>>
    [] framer = "chunked" /\ r.final  -> <<Frame("chunk", r), Frame("last", Result(0, 0, TRUE))>>
    [] framer = "done"              -> <<>>

\* handleTaskResultFrame; a result without a receiver is logged.  A piped
\* executable reports no failed status, so every result is delivered.
HandleTaskResultFrame ==
  /\ link /\ delivered < Len(sent)
  /\ delivered' = delivered + 1
  /\ LET r == sent[delivered + 1] IN
       IF receiver
       THEN /\ response' = response \o NextFrames(r)
            /\ framer' = IF r.final THEN "done" ELSE IF framer = "idle" THEN "chunked" ELSE framer
            /\ receiver' = ~r.final
       ELSE UNCHANGED <<response, framer, receiver>>
  /\ UNCHANGED <<nodeVars, link>>

\* The node's side of a broken link.
NodeDisconnected ==
  /\ ~link /\ Close
  /\ UNCHANGED <<link, gatewayVars>>

\* A disconnect that drops the receiver without telling it.
GatewayForgets ==
  /\ link /\ link' = FALSE
  /\ receiver' = FALSE
  /\ UNCHANGED <<response, framer, nodeVars, delivered>>

\* HttpResponseFramer::ErrorResponse writes only when nothing was written.
ErrorFits == framer = "idle"

\* The gateway's side: NotifyNodeDisconnected tells the receiver and drops it.
GatewayDisconnected ==
  /\ link /\ link' = FALSE
  /\ receiver' = FALSE
  /\ IF receiver /\ ErrorFits
     THEN response' = Append(response, Frame("error", Result(0, 0, TRUE))) /\ framer' = "done"
     ELSE UNCHANGED <<response, framer>>
  /\ UNCHANGED <<nodeVars, delivered>>

Next ==
  \/ NodeSteps /\ UNCHANGED <<link, gatewayVars>>
  \/ HandleTaskResultFrame \/ NodeDisconnected \/ GatewayDisconnected

Spec == Init /\ [][Next]_vars

\* What arrives is handled, and the node notices a broken link.
FairSpec ==
  /\ Spec /\ NodeFairness
  /\ WF_vars(HandleTaskResultFrame) /\ WF_vars(NodeDisconnected)

------------------------------------------------------------------------------
(***************************************************************************)
(* What a client reads: the byte positions up to the frame that ends the   *)
(* response.                                                               *)
(***************************************************************************)
Ends(f) == f.kind \in {"length", "error", "last"} \/ (f.kind = "chunk" /\ f.from = f.to)

Complete == \E i \in DOMAIN response : Ends(response[i])

ReadFrames ==
  LET n == IF Complete THEN CHOOSE i \in DOMAIN response :
                              Ends(response[i]) /\ \A j \in 1 .. i - 1 : ~Ends(response[j])
           ELSE Len(response)
  IN SubSeq(response, 1, n)

ReadBytes == UNION {Bytes(f) : f \in Range(ReadFrames)}

SentBytes(n) == UNION {Bytes(sent[i]) : i \in 1 .. n}

(***************************************************************************)
(* ~ChildProcess: "Only reachable after teardown (all I/O done), so no sqe *)
(* references these fds".  Once the deferred delete is submitted, no       *)
(* operation of the child is queued, in the kernel or completed unserved.  *)
(***************************************************************************)
TeardownAfterIo ==
  child \in {"teardown", "destroyed"} => cq = <<>> /\ \A t \in Tags : op[t] = "idle"

(***************************************************************************)
(* handleStdoutRead and drainOutput together: as long as the link is up,   *)
(* every byte the program wrote before it exited is in a result by the     *)
(* time the final one is sent, except those of at most one read whose      *)
(* completion the kernel queued behind that of the exit poll.              *)
(***************************************************************************)
OnlyRacedOutputIsLost ==
  /\ "exit" \in done /\ active => (1 .. atExit) \ raced \subseteq SentBytes(Len(sent))
  /\ Cardinality(raced) <= BufferSize

(***************************************************************************)
(* HttpResponseFramer: a response has one head, its chunks come in the     *)
(* order of the program's output without repeating a byte, and once the    *)
(* final result is handled the client can tell the end and has read        *)
(* exactly what the results carried. handleExitPoll sends the only final   *)
(* result and nothing is sent after it (handleStdoutRead, poll_fired_).    *)
(***************************************************************************)
ResponseIsResults ==
  /\ \A i \in DOMAIN sent : sent[i].final => i = Len(sent)
  /\ "exit" \in done /\ active => sent # <<>> /\ sent[Len(sent)].final
  /\ \A i \in DOMAIN response : response[i].kind \in {"length", "chunked", "error"} <=> i = 1
  /\ \A i, j \in DOMAIN ReadFrames :
       i < j /\ Bytes(ReadFrames[j]) # {} => ReadFrames[i].to <= ReadFrames[j].from
  /\ delivered > 0 /\ sent[delivered].final => response[Len(response)].kind \in {"length", "last"}
  /\ ReadBytes = SentBytes(delivered)

(***************************************************************************)
(* The child of a program that exits, or whose gateway link is closed      *)
(* (handleConnectionClosed kills it), is eventually destroyed.             *)
(***************************************************************************)
EventuallyReleased ==
  program = "exited" \/ (program = "running" /\ ~active) ~> child = "destroyed"

(***************************************************************************)
(* A client is eventually answered: in full when the program ends or could *)
(* not start, at least with a head (an error, if nothing had been written) *)
(* when the link broke.                                                    *)
(***************************************************************************)
EventuallyAnswered ==
  program = "exited" \/ child = "destroyed" \/ ~link
    ~> Complete \/ (~link /\ response # <<>>)
==============================================================================
