------------------------- MODULE ResultStream_proofs -------------------------
(***************************************************************************)
(* TeardownAfterIo, OnlyRacedOutputIsLost and ResponseIsResults for every  *)
(* amount of input and output and every buffer size.                       *)
(*                                                                         *)
(* The inductive invariant says where each operation of the child is       *)
(* (OpInv), what a completion that was not served yet tells about the pipe *)
(* (PipeInv), that the results are intervals of the output in order        *)
(* (SentInv) which cover all that was read (LossInv), and how the response *)
(* is made of the results the gateway handled (GwInv).                     *)
(***************************************************************************)
EXTENDS ResultStream, FiniteSetTheorems, TLAPS

Completions == [tag : Tags, res : Int, at : Nat]

Results == [from : Nat, to : Nat, final : BOOLEAN]

Frames == [kind : {"length", "chunked", "chunk", "last", "error"}, from : Nat, to : Nat]

NodeTypeOK ==
  /\ program \in {"none", "running", "exited"}
  /\ child \in {"none", "live", "teardown", "destroyed"}
  /\ held \in BOOLEAN /\ killed \in BOOLEAN /\ active \in BOOLEAN
  /\ written \in Nat /\ atExit \in Nat /\ taken \in Nat /\ stdinLeft \in Nat
  /\ op \in [Tags -> {"idle", "prepared", "armed"}]
  /\ cq \in Seq(Completions) /\ done \in SUBSET Tags
  /\ sent \in Seq(Results) /\ raced \in SUBSET Nat

GwTypeOK ==
  /\ link \in BOOLEAN /\ receiver \in BOOLEAN /\ delivered \in Nat
  /\ framer \in {"idle", "chunked", "done"} /\ response \in Seq(Frames)

TypeOK == NodeTypeOK /\ GwTypeOK

\* Each operation of the child is in one place: queued, in the kernel, completed
\* and not served, or finished.
OpInv ==
  /\ \A t \in done : op[t] = "idle"
  /\ \A i \in DOMAIN cq : op[cq[i].tag] = "idle" /\ cq[i].tag \notin done
  /\ \A i, j \in DOMAIN cq : cq[i].tag = cq[j].tag => i = j
  /\ \A i \in DOMAIN cq : cq[i].tag = "stdin" => cq[i].res <= stdinLeft
  /\ child = "none" => cq = <<>> /\ \A t \in Tags : op[t] = "idle"
  /\ child = "none" => program = "none" /\ sent = <<>> /\ done = {}
  /\ TeardownAfterIo

\* A completed read of standard output that carries bytes.
Carries(c) == c.tag = "stdout" /\ c.res > 0

\* What an unserved completion tells: until the exit is served, a read ends where
\* reading stopped, and an end of file means that nothing is left or will come.
Tells(c) ==
  /\ c.tag = "exit" => program = "exited"
  /\ "exit" \notin done =>
       /\ Carries(c) => c.at + c.res = taken /\ c.res <= BufferSize
       /\ c.tag = "stdout" /\ c.res = 0 => ~WriteEndOpen /\ taken = written

PipeInv ==
  /\ taken <= written /\ atExit <= written
  /\ program = "none" => written = 0 /\ done = {} /\ child # "live"
  /\ program # "exited" => ~held
  /\ "exit" \in done => program = "exited"
  /\ "exit" \notin done /\ "stdout" \in done => ~WriteEndOpen /\ taken = written
  /\ \A i \in DOMAIN cq : Tells(cq[i])

\* Results are intervals in order, and only the last may be final.
Ordered(s) ==
  /\ \A i \in DOMAIN s : /\ s[i].from <= s[i].to
                         /\ ~s[i].final => s[i].from < s[i].to
                         /\ s[i].final => i = Len(s)
  /\ \A i, j \in DOMAIN s : i < j => s[i].to <= s[j].from

\* No result of s is final or reaches beyond position p.
Behind(s, p) == \A i \in DOMAIN s : ~s[i].final /\ s[i].to <= p

SentInv ==
  /\ Ordered(sent)
  /\ child = "live" /\ "exit" \notin done =>
       /\ Behind(sent, taken)
       /\ \A k \in DOMAIN cq : Carries(cq[k]) => Behind(sent, cq[k].at)
  /\ "exit" \in done /\ active => sent # <<>> /\ sent[Len(sent)].final

\* The positions the results of s carry.
BytesOf(s) == UNION {Bytes(s[i]) : i \in 1 .. Len(s)}

\* Until the exit is served, the results hold all that was read but the read
\* whose completion waits.
LossInv ==
  /\ "exit" \notin done /\ active =>
       /\ \A k \in DOMAIN cq : Carries(cq[k]) => BytesOf(sent) = 1 .. cq[k].at
       /\ (\A k \in DOMAIN cq : ~Carries(cq[k])) => BytesOf(sent) = 1 .. taken
  /\ "exit" \notin done => raced = {}
  /\ "exit" \in done /\ active => (1 .. atExit) \ raced \subseteq BytesOf(sent)
  /\ Cardinality(raced) <= BufferSize

\* The head and the chunks of the first n results.
Chunks(n) ==
  /\ response[1] = Frame("chunked", Result(0, 0, FALSE))
  /\ \A i \in 1 .. n : response[i + 1] = Frame("chunk", sent[i])

\* The response before the first result, while results stream, and when it is
\* answered: with an error, in one frame, or in chunks.
Silent == response = <<>> /\ delivered = 0

Streaming ==
  /\ delivered > 0 /\ Len(response) = delivered + 1 /\ Chunks(delivered)
  /\ \A i \in 1 .. delivered : ~sent[i].final

Failed == delivered = 0 /\ response = <<Frame("error", Result(0, 0, TRUE))>>

AtOnce == delivered = 1 /\ sent[1].final /\ response = <<Frame("length", sent[1])>>

Streamed ==
  /\ delivered > 1 /\ sent[delivered].final
  /\ Len(response) = delivered + 2 /\ Chunks(delivered)
  /\ response[delivered + 2] = Frame("last", Result(0, 0, TRUE))

GwInv ==
  /\ delivered <= Len(sent)
  /\ link => (receiver <=> framer # "done")
  /\ framer = "idle" => Silent
  /\ framer = "chunked" => Streaming
  /\ framer = "done" => (Failed /\ ~link) \/ AtOnce \/ Streamed

IInv == TypeOK /\ OpInv /\ PipeInv /\ SentInv /\ LossInv /\ GwInv

------------------------------------------------------------------------------
\* The context of a step is large: SMT gets more than its 5 seconds, and a leaf
\* whose translation runs out of time is tried again.
USE SMTT(60), Z3T(60), ZenonT(60)

\* What Tail and Append do to the elements of a sequence.
LEMMA TailOf ==
  ASSUME NEW S, NEW s \in Seq(S), s # <<>>
  PROVE  /\ Tail(s) \in Seq(S) /\ Len(Tail(s)) = Len(s) - 1 /\ Len(s) > 0
         /\ Head(s) = s[1] /\ 1 \in DOMAIN s /\ s[1] \in S
         /\ \A i \in DOMAIN Tail(s) : i + 1 \in DOMAIN s /\ Tail(s)[i] = s[i + 1] /\ i \in Nat /\ i > 0
         /\ \A i \in DOMAIN s : i # 1 => i - 1 \in DOMAIN Tail(s) /\ Tail(s)[i - 1] = s[i]
  OBVIOUS

\* Appending one element.
LEMMA AppendTo ==
  ASSUME NEW S, NEW s \in Seq(S), NEW e \in S
  PROVE  /\ Append(s, e) \in Seq(S) /\ Len(Append(s, e)) = Len(s) + 1
         /\ DOMAIN Append(s, e) = 1 .. Len(s) + 1 /\ DOMAIN s = 1 .. Len(s)
         /\ Append(s, e)[Len(s) + 1] = e
         /\ \A i \in DOMAIN s : Append(s, e)[i] = s[i] /\ i \in DOMAIN Append(s, e)
         /\ \A i \in DOMAIN Append(s, e) : i \in DOMAIN s \/ i = Len(s) + 1
  OBVIOUS

\* Appending one or two frames to the response.
LEMMA ConcatTo ==
  ASSUME NEW S, NEW s \in Seq(S), NEW a \in S, NEW b \in S
  PROVE  /\ s \o <<a>> \in Seq(S) /\ s \o <<a, b>> \in Seq(S)
         /\ Len(s \o <<a>>) = Len(s) + 1 /\ Len(s \o <<a, b>>) = Len(s) + 2
         /\ (s \o <<a>>)[Len(s) + 1] = a
         /\ (s \o <<a, b>>)[Len(s) + 1] = a /\ (s \o <<a, b>>)[Len(s) + 2] = b
         /\ \A i \in 1 .. Len(s) : (s \o <<a>>)[i] = s[i] /\ (s \o <<a, b>>)[i] = s[i]
  OBVIOUS

\* The sequence of one element.
LEMMA FirstElement ==
  ASSUME NEW S, NEW a \in S
  PROVE  Append(<<>>, a) = <<a>> /\ <<a>> \in Seq(S)
  OBVIOUS

\* A sequence without an element is empty.
LEMMA NoElements ==
  ASSUME NEW S, NEW s \in Seq(S), \A i \in DOMAIN s : FALSE
  PROVE  s = <<>>
  OBVIOUS

\* The smaller of two numbers, as std::min gives the span of a read or a write.
LEMMA MinOf ==
  ASSUME NEW a \in Int, NEW b \in Int
  PROVE  Min({a, b}) = IF a <= b THEN a ELSE b
  BY DEF Min

\* What ConnectionResultSender::Send leaves: the results, or one more.
LEMMA SendingType ==
  ASSUME NodeTypeOK, NEW r \in Results
  PROVE  Sending(r) \in Seq(Results)
  BY DEF Sending, NodeTypeOK

\* Any completion is posted for an operation in the kernel, and tells where it
\* left the pipe.
Posted(t, res, at) ==
  /\ Post(t, res, at)
  /\ res \in Int /\ at \in Nat /\ taken' \in Nat
  /\ t = "stdin" => res <= stdinLeft
  /\ t = "exit" => program = "exited"
  /\ t # "stdout" => taken' = taken
  /\ t = "stdout" =>
       \/ res > 0 /\ res <= BufferSize /\ at = taken /\ taken' = taken + res /\ taken' <= written
       \/ res <= 0 /\ taken' = taken /\ written = taken /\ (res = 0 => ~WriteEndOpen)

PostStep == PostStdin \/ PostStdout \/ PostStderr \/ PostExit

\* Whatever the kernel completes is a completion as Posted describes it.
LEMMA PostEffect ==
  ASSUME NodeTypeOK, taken <= written, PostStep
  PROVE  \E t \in Tags : \E res \in Int, at \in Nat : Posted(t, res, at)
<1>0. "stdin" \in Tags /\ "stdout" \in Tags /\ "stderr" \in Tags /\ "exit" \in Tags
  BY DEF Tags
<1>1. CASE PostStdin
  BY <1>0, <1>1 DEF PostStdin, Posted, NodeTypeOK
<1>2. CASE PostStdout
  <2>1. ASSUME NEW n \in 1 .. Min({BufferSize, written - taken}),
               Post("stdout", n, taken), taken' = taken + n
        PROVE  Posted("stdout", n, taken) /\ n \in Int
    BY <2>1, MinOf, BoundsAssumption DEF Posted, NodeTypeOK
  <2>2. ASSUME NEW n \in {-1, 0}, n = IF WriteEndOpen THEN -1 ELSE 0,
               written = taken, Post("stdout", n, taken), taken' = taken
        PROVE  Posted("stdout", n, taken) /\ n \in Int
    BY <2>2 DEF Posted, NodeTypeOK
  <2>3. \E n : Posted("stdout", n, taken) /\ n \in Int
    BY <1>2, <2>1, <2>2 DEF PostStdout
  <2> QED
    BY <1>0, <2>3 DEF NodeTypeOK
<1>3. CASE PostStderr
  BY <1>0, <1>3 DEF PostStderr, Posted, NodeTypeOK
<1>4. CASE PostExit
  BY <1>0, <1>4 DEF PostExit, Posted, NodeTypeOK
<1> QED
  BY <1>1, <1>2, <1>3, <1>4 DEF PostStep

\* Any completion handler starts its operation again or finishes it.
Served(t) ==
  \/ Prepare(t) /\ UNCHANGED <<done, child>>
  \/ Stop(t)

\* A completion handler consumes the head of the completions, starts or finishes
\* its own operation, and is the handler of its tag.
LEMMA ServeEffect ==
  ASSUME NodeTypeOK, HandleCompletion
  PROVE  /\ cq # <<>> /\ cq' = Tail(cq) /\ Head(cq) \in Completions
         /\ Served(Head(cq).tag)
         /\ UNCHANGED <<programVars, killed, active>>
         /\ Head(cq).tag = "stdin" => HandleStdinWrite(Head(cq))
         /\ Head(cq).tag = "stdout" => HandleStdoutRead(Head(cq))
         /\ Head(cq).tag = "stderr" => HandleStderrRead(Head(cq))
         /\ Head(cq).tag = "exit" => HandleExitPoll(Head(cq))
<1>1. cq # <<>> /\ Head(cq) \in Completions
  BY TailOf DEF HandleCompletion, NodeTypeOK
<1>2. Served(Head(cq).tag)
  BY ZenonT(60) DEF HandleCompletion, HandleStdinWrite, HandleStdoutRead, HandleStderrRead, HandleExitPoll, Served
<1> QED
  BY <1>1, <1>2 DEF HandleCompletion

\* Every step of the node agent and its kernel keeps the types.
LEMMA NodeType ==
  ASSUME NodeTypeOK, OpInv, PipeInv, NodeSteps
  PROVE  NodeTypeOK'
<1>1. CASE HandleTask
  BY <1>1, BoundsAssumption DEF HandleTask, NodeTypeOK, Tags
<1>2. CASE Refuse
  <2>1. sent' \in Seq(Results)
    BY <1>2, SendingType, ZenonT(60) DEF Refuse, Result, Results
  <2> QED
    BY <1>2, <2>1, ZenonT(60) DEF Refuse, NodeTypeOK, programVars
<1>3. CASE HandleCompletion
  <2> DEFINE c == Head(cq)
  <2>1. /\ cq # <<>> /\ cq' = Tail(cq) /\ c \in Completions /\ Served(c.tag)
        /\ UNCHANGED <<programVars, killed, active>>
        /\ c.tag = "stdin" => HandleStdinWrite(c)
        /\ c.tag = "stdout" => HandleStdoutRead(c)
        /\ c.tag = "stderr" => HandleStderrRead(c)
        /\ c.tag = "exit" => HandleExitPoll(c)
    BY <1>3, ServeEffect
  <2>2. cq' \in Seq(Completions) /\ c = cq[1] /\ 1 \in DOMAIN cq
    BY <2>1, TailOf DEF NodeTypeOK
  <2> HIDE DEF c
  <2>3. c.tag \in Tags /\ c.res \in Int /\ c.at \in Nat
    BY <2>1 DEF Completions
  <2>4. /\ op' \in [Tags -> {"idle", "prepared", "armed"}] /\ done' \in SUBSET Tags
        /\ child' \in {"none", "live", "teardown", "destroyed"}
    BY <2>1, <2>3 DEF Served, Prepare, Stop, MaybeFinish, NodeTypeOK
  <2>5. /\ program' \in {"none", "running", "exited"}
        /\ held' \in BOOLEAN /\ killed' \in BOOLEAN /\ active' \in BOOLEAN
        /\ written' \in Nat /\ atExit' \in Nat
    BY <2>1 DEF NodeTypeOK, programVars
  <2>6. stdinLeft' \in Nat /\ taken' \in Nat /\ sent' \in Seq(Results) /\ raced' \in SUBSET Nat
    <3>1. CASE c.tag = "stdin"
      <4>1. c.res > 0 => c.res <= stdinLeft
        BY <2>2, <3>1 DEF OpInv
      <4>2. /\ stdinLeft' = (IF c.res > 0 THEN stdinLeft - c.res ELSE stdinLeft)
            /\ UNCHANGED <<sent, raced, taken>>
        BY <2>1, <3>1 DEF HandleStdinWrite
      <4>3. stdinLeft' \in Nat
        BY <2>3, <4>1, <4>2 DEF NodeTypeOK
      <4> QED
        BY <4>2, <4>3 DEF NodeTypeOK
    <3>2. CASE c.tag = "stdout"
      <4>1. c.res > 0 => Result(c.at, c.at + c.res, FALSE) \in Results
        BY <2>3 DEF Result, Results
      <4> QED
        BY <2>1, <2>3, <3>2, <4>1, SendingType, ZenonT(60) DEF HandleStdoutRead, NodeTypeOK
    <3>3. CASE c.tag = "stderr"
      BY <2>1, <3>3, ZenonT(60) DEF HandleStderrRead, NodeTypeOK
    <3>4. CASE c.tag = "exit"
      <4>1. HandleExitPoll(c) /\ DrainOutput \in Nat
        BY <2>1, <3>4 DEF DrainOutput, NodeTypeOK
      <4>2. Result(taken, DrainOutput, TRUE) \in Results
        BY <4>1 DEF Result, Results, NodeTypeOK
      <4>3. sent' \in Seq(Results)
        BY <4>1, <4>2, SendingType, ZenonT(60) DEF HandleExitPoll
      <4>4. \A e \in Range(Tail(cq)) : e.at \in Nat /\ e.res \in Int
        <5>1. \A i \in DOMAIN Tail(cq) : Tail(cq)[i] \in Completions
          BY <2>1, <2>2
        <5> QED
          BY <5>1 DEF Range, Completions
      <4>5. raced' \in SUBSET Nat
        BY <4>1, <4>4 DEF HandleExitPoll, Bytes
      <4> QED
        BY <4>1, <4>3, <4>5, ZenonT(60) DEF HandleExitPoll, NodeTypeOK
    <3> QED
      BY <2>3, <3>1, <3>2, <3>3, <3>4 DEF Tags
  <2> QED
    BY <2>2, <2>4, <2>5, <2>6 DEF NodeTypeOK
<1>4. CASE ProcessCommand
  BY <1>4 DEF ProcessCommand, NodeTypeOK, programVars
<1>5. CASE Writes
  BY <1>5 DEF Writes, NodeTypeOK, childVars
<1>6. CASE Exits
  BY <1>6 DEF Exits, NodeTypeOK, childVars
<1>7. CASE DescendantsExit
  BY <1>7, ZenonT(60) DEF DescendantsExit, NodeTypeOK, childVars
<1>8. CASE Submit
  BY <1>8 DEF Submit, NodeTypeOK, programVars
<1>9. CASE PostStep
  <2>1. PICK t \in Tags, res \in Int, at \in Nat : Posted(t, res, at)
    BY <1>9, PostEffect DEF PipeInv
  <2>2. cq' \in Seq(Completions)
    BY <2>1, AppendTo DEF Posted, Post, NodeTypeOK, Completions
  <2> QED
    BY <2>1, <2>2 DEF Posted, Post, NodeTypeOK, programVars
<1> QED
  BY <1>1, <1>2, <1>3, <1>4, <1>5, <1>6, <1>7, <1>8, <1>9 DEF NodeSteps, PostStep

\* What a step that serves a completion leaves in the queue: no other completion
\* of the same operation.
LEMMA RestOfQueue ==
  ASSUME NodeTypeOK, OpInv, cq # <<>>
  PROVE  /\ Head(cq) = cq[1] /\ 1 \in DOMAIN cq /\ Head(cq) \in Completions
         /\ Tail(cq) \in Seq(Completions)
         /\ op[Head(cq).tag] = "idle" /\ Head(cq).tag \in Tags \ done
         /\ child = "live"
         /\ \A i \in DOMAIN Tail(cq) :
              /\ i \in Nat /\ i + 1 \in DOMAIN cq /\ Tail(cq)[i] = cq[i + 1]
              /\ Tail(cq)[i].tag # Head(cq).tag /\ Tail(cq)[i] \in Completions
<1>1. /\ Tail(cq) \in Seq(Completions) /\ Head(cq) = cq[1] /\ 1 \in DOMAIN cq /\ cq[1] \in Completions
      /\ \A i \in DOMAIN Tail(cq) : i + 1 \in DOMAIN cq /\ Tail(cq)[i] = cq[i + 1] /\ i \in Nat /\ i > 0
  BY TailOf DEF NodeTypeOK
<1>2. op[Head(cq).tag] = "idle" /\ Head(cq).tag \in Tags \ done
  BY <1>1 DEF OpInv, Completions
<1>3. child = "live"
  BY DEF NodeTypeOK, OpInv, TeardownAfterIo
<1>4. ASSUME NEW i \in DOMAIN Tail(cq)
      PROVE  Tail(cq)[i].tag # Head(cq).tag /\ Tail(cq)[i] \in Completions
  <2>1. i + 1 # 1 /\ i + 1 \in DOMAIN cq /\ Tail(cq)[i] = cq[i + 1]
    BY <1>1
  <2>2. cq[i + 1].tag # cq[1].tag
    BY <1>1, <2>1 DEF OpInv
  <2>3. Tail(cq)[i] \in Completions
    BY <1>1
  <2> QED
    BY <1>1, <2>1, <2>2, <2>3
<1> QED
  BY <1>1, <1>2, <1>3, <1>4

\* TeardownAfterIo with what makes it inductive.
LEMMA OpStep ==
  ASSUME NodeTypeOK, OpInv, PipeInv, NodeSteps
  PROVE  OpInv'
<1>0. NodeTypeOK'
  BY NodeType
<1>1. CASE HandleTask
  <2>1. cq' = <<>> /\ child' = "live" /\ \A i \in DOMAIN cq' : FALSE
    BY <1>1 DEF HandleTask, OpInv
  <2>2. \A t \in done' : op'[t] = "idle"
    BY <1>0, <1>1 DEF HandleTask, NodeTypeOK
  <2> QED
    BY <2>1, <2>2 DEF OpInv, TeardownAfterIo
<1>2. CASE Refuse
  BY <1>2 DEF Refuse, OpInv, TeardownAfterIo, programVars
<1>3. CASE HandleCompletion
  <2> DEFINE c == Head(cq)
             t == Head(cq).tag
  <2>1. /\ cq # <<>> /\ cq' = Tail(cq) /\ Served(t)
        /\ c.tag = "stdin" => HandleStdinWrite(c)
        /\ c.tag = "stdout" => HandleStdoutRead(c)
        /\ c.tag = "stderr" => HandleStderrRead(c)
        /\ c.tag = "exit" => HandleExitPoll(c)
    BY <1>3, ServeEffect
  <2>2. /\ op[t] = "idle" /\ t \in Tags \ done /\ child = "live"
        /\ \A i \in DOMAIN cq' : /\ i \in Nat /\ i + 1 \in DOMAIN cq /\ cq'[i] = cq[i + 1]
                                 /\ cq'[i].tag # t /\ cq'[i].tag \in Tags
    BY <2>1, RestOfQueue DEF Completions
  <2>3. t # "stdin" => stdinLeft' = stdinLeft
    BY <2>1, <2>2, ZenonT(60) DEF HandleStdoutRead, HandleStderrRead, HandleExitPoll, Tags
  <2> HIDE DEF c, t
  <2>4. /\ done' \in SUBSET Tags /\ done \subseteq done' /\ done' \subseteq done \union {t}
        /\ \A u \in Tags : u # t => op'[u] = op[u]
        /\ t \in done' => op'[t] = "idle"
        /\ child' = "live" \/ (child' = "teardown" /\ done' = Tags)
    BY <1>0, <2>1, <2>2 DEF Served, Prepare, Stop, MaybeFinish, NodeTypeOK
  <2>5. \A u \in done' : op'[u] = "idle"
    BY <2>4 DEF OpInv
  <2>6. \A i \in DOMAIN cq' : op'[cq'[i].tag] = "idle" /\ cq'[i].tag \notin done'
    BY <2>2, <2>4 DEF OpInv
  <2>7. \A i, j \in DOMAIN cq' : cq'[i].tag = cq'[j].tag => i = j
    <3> SUFFICES ASSUME NEW i \in DOMAIN cq', NEW j \in DOMAIN cq', cq'[i].tag = cq'[j].tag
                 PROVE  i = j
      OBVIOUS
    <3>1. i + 1 = j + 1
      BY <2>2 DEF OpInv
    <3> QED
      BY <2>2, <3>1
  <2>8. \A i \in DOMAIN cq' : cq'[i].tag = "stdin" => cq'[i].res <= stdinLeft'
    BY <2>2, <2>3 DEF OpInv
  <2>9. TeardownAfterIo'
    <3> SUFFICES ASSUME child' = "teardown" /\ done' = Tags
                 PROVE  cq' = <<>> /\ \A u \in Tags : op'[u] = "idle"
      BY <2>4 DEF TeardownAfterIo
    <3>1. \A i \in DOMAIN cq' : FALSE
      BY <2>2, <2>6
    <3>2. cq' = <<>>
      BY <1>0, <3>1, NoElements DEF NodeTypeOK
    <3> QED
      BY <2>5, <3>2
  <2> QED
    BY <2>4, <2>5, <2>6, <2>7, <2>8, <2>9 DEF OpInv
<1>4. CASE ProcessCommand
  BY <1>4 DEF ProcessCommand, OpInv, TeardownAfterIo, programVars
<1>5. CASE Writes
  BY <1>5 DEF Writes, OpInv, TeardownAfterIo, childVars
<1>6. CASE Exits
  BY <1>6 DEF Exits, OpInv, TeardownAfterIo, childVars
<1>7. CASE DescendantsExit
  BY <1>7 DEF DescendantsExit, OpInv, TeardownAfterIo, childVars
<1>8. CASE Submit
  BY <1>8 DEF Submit, OpInv, TeardownAfterIo, programVars, NodeTypeOK
<1>9. CASE PostStep
  <2>1. PICK t \in Tags, res \in Int, at \in Nat : Posted(t, res, at)
    BY <1>9, PostEffect DEF PipeInv
  <2> DEFINE e == [tag |-> t, res |-> res, at |-> at]
  <2>2. /\ op[t] = "armed" /\ op' = [op EXCEPT ![t] = "idle"] /\ cq' = Append(cq, e)
        /\ UNCHANGED <<stdinLeft, done, child, sent, program>>
    BY <2>1 DEF Posted, Post, programVars
  <2>3. /\ DOMAIN cq' = 1 .. Len(cq) + 1 /\ cq'[Len(cq) + 1] = e /\ Len(cq) \in Nat
        /\ \A i \in DOMAIN cq : cq'[i] = cq[i] /\ i \in 1 .. Len(cq)
        /\ \A i \in DOMAIN cq' : i \in DOMAIN cq \/ i = Len(cq) + 1
        /\ \A i \in DOMAIN cq : cq[i].tag \in Tags
    <3>1. e \in Completions /\ cq \in Seq(Completions)
      BY DEF NodeTypeOK, Completions
    <3>2. \A i \in DOMAIN cq : cq[i] \in Completions
      BY <3>1
    <3> HIDE DEF e
    <3> QED
      BY <2>2, <3>1, <3>2, AppendTo DEF Completions
  <2>4. e.tag = t /\ e.res = res
    OBVIOUS
  <2> HIDE DEF e
  <2>5. \A i \in DOMAIN cq : cq[i].tag # t
    BY <2>2 DEF OpInv
  <2>6. child = "live"
    BY <2>2 DEF OpInv, TeardownAfterIo, NodeTypeOK
  <2>7. \A u \in done' : op'[u] = "idle"
    BY <2>2 DEF OpInv, NodeTypeOK
  <2>8. \A i \in DOMAIN cq' : op'[cq'[i].tag] = "idle" /\ cq'[i].tag \notin done'
    BY <2>2, <2>3, <2>4, <2>5 DEF OpInv, NodeTypeOK
  <2>9. \A i, j \in DOMAIN cq' : cq'[i].tag = cq'[j].tag => i = j
    BY <2>3, <2>4, <2>5 DEF OpInv
  <2>10. \A i \in DOMAIN cq' : cq'[i].tag = "stdin" => cq'[i].res <= stdinLeft'
    BY <2>1, <2>2, <2>3, <2>4 DEF OpInv, Posted
  <2> QED
    BY <2>2, <2>6, <2>7, <2>8, <2>9, <2>10 DEF OpInv, TeardownAfterIo
<1> QED
  BY <1>1, <1>2, <1>3, <1>4, <1>5, <1>6, <1>7, <1>8, <1>9 DEF NodeSteps, PostStep

\* PipeInv: the reads, the end of file and the exit agree with the pipe.
LEMMA PipeStep ==
  ASSUME NodeTypeOK, OpInv, PipeInv, NodeSteps
  PROVE  PipeInv'
<1>0. NodeTypeOK'
  BY NodeType
<1>1. CASE HandleTask
  <2>1. cq' = <<>> /\ \A i \in DOMAIN cq' : FALSE
    BY <1>1 DEF HandleTask, OpInv
  <2>2. /\ UNCHANGED <<held, written, atExit, taken>> /\ program' = "running"
        /\ program = "none" /\ "exit" \notin done' /\ "stdout" \notin done'
    BY <1>1 DEF HandleTask, OpInv
  <2> QED
    BY <2>1, <2>2 DEF PipeInv, NodeTypeOK
<1>2. CASE Refuse
  BY <1>2 DEF Refuse, PipeInv, Tells, WriteEndOpen, programVars
<1>3. CASE HandleCompletion
  <2> DEFINE c == Head(cq)
  <2>1. /\ cq # <<>> /\ cq' = Tail(cq) /\ Served(c.tag)
        /\ UNCHANGED <<program, held, written, atExit>>
        /\ c.tag = "stdin" => HandleStdinWrite(c)
        /\ c.tag = "stdout" => HandleStdoutRead(c)
        /\ c.tag = "stderr" => HandleStderrRead(c)
        /\ c.tag = "exit" => HandleExitPoll(c)
    BY <1>3, ServeEffect DEF programVars
  <2>2. /\ c.tag \in Tags \ done /\ Tells(c) /\ c.res \in Int
        /\ \A i \in DOMAIN cq' : i + 1 \in DOMAIN cq /\ cq'[i] = cq[i + 1] /\ cq'[i].tag # c.tag
    BY <2>1, RestOfQueue DEF Completions, PipeInv
  <2> HIDE DEF c
  <2>3. done \subseteq done' /\ done' \subseteq done \union {c.tag}
    BY <2>1 DEF Served, Stop
  <2>4. c.tag # "exit" => taken' = taken
    BY <2>1, <2>2, ZenonT(60) DEF HandleStdinWrite, HandleStdoutRead, HandleStderrRead, Tags
  <2>5. c.tag = "exit" => "exit" \in done' /\ taken' \in {taken, written}
    BY <2>1 DEF HandleExitPoll, Stop, DrainOutput
  <2>6. "exit" \notin done' /\ "stdout" \in done' /\ "stdout" \notin done => c.tag = "stdout" /\ c.res = 0
    <3> SUFFICES ASSUME "exit" \notin done', "stdout" \in done', "stdout" \notin done
                 PROVE  c.tag = "stdout" /\ c.res = 0
      OBVIOUS
    <3>1. c.tag = "stdout" /\ HandleStdoutRead(c) /\ "exit" \notin done
      BY <2>1, <2>3
    <3> QED
      BY <2>2, <3>1 DEF HandleStdoutRead
  <2>7. taken' <= written' /\ atExit' <= written'
    BY <2>1, <2>2, <2>4, <2>5 DEF PipeInv, NodeTypeOK
  <2>8. program' # "none"
    BY <2>1, RestOfQueue DEF PipeInv
  <2>9. "exit" \in done' => program' = "exited"
    BY <2>1, <2>2, <2>3 DEF PipeInv, Tells
  <2>10. WriteEndOpen' <=> WriteEndOpen
    BY <2>1 DEF WriteEndOpen
  <2>11. ASSUME "exit" \notin done', "stdout" \in done'
         PROVE  ~WriteEndOpen /\ taken = written
    BY <2>2, <2>3, <2>6, <2>11 DEF PipeInv, Tells
  <2>12. "exit" \notin done' /\ "stdout" \in done' => ~WriteEndOpen' /\ taken' = written'
    BY <2>1, <2>2, <2>4, <2>5, <2>10, <2>11
  <2>13. ASSUME NEW d, d.tag # c.tag, Tells(d)
         PROVE  Tells(d)'
    BY <2>1, <2>2, <2>3, <2>4, <2>5, <2>10, <2>13 DEF Tells, Carries
  <2>14. \A i \in DOMAIN cq' : Tells(cq[i])'
    BY <2>2, <2>13 DEF PipeInv
  <2> QED
    BY <2>1, <2>7, <2>8, <2>9, <2>12, <2>14 DEF PipeInv
<1>4. CASE ProcessCommand
  BY <1>4 DEF ProcessCommand, PipeInv, Tells, WriteEndOpen, programVars
<1>5. CASE Writes
  <2>1. /\ WriteEndOpen /\ written' = written + 1
        /\ UNCHANGED <<program, held, atExit, taken, cq, done>>
    BY <1>5 DEF Writes, WriteEndOpen, childVars
  <2> QED
    BY <2>1 DEF PipeInv, Tells, WriteEndOpen, NodeTypeOK
<1>6. CASE Exits
  <2>1. /\ program = "running" /\ program' = "exited" /\ atExit' = written
        /\ UNCHANGED <<written, taken, cq, done>>
    BY <1>6 DEF Exits, childVars
  <2> QED
    BY <2>1 DEF PipeInv, Tells, WriteEndOpen, NodeTypeOK
<1>7. CASE DescendantsExit
  <2>1. held /\ ~held' /\ UNCHANGED <<program, atExit, written, taken, cq, done>>
    BY <1>7 DEF DescendantsExit, childVars
  <2> QED
    BY <2>1 DEF PipeInv, Tells, WriteEndOpen
<1>8. CASE Submit
  BY <1>8 DEF Submit, PipeInv, Tells, WriteEndOpen, programVars
<1>9. CASE PostStep
  <2>1. PICK t \in Tags, res \in Int, at \in Nat : Posted(t, res, at)
    BY <1>9, PostEffect DEF PipeInv
  <2> DEFINE e == [tag |-> t, res |-> res, at |-> at]
  <2>2. /\ op[t] = "armed" /\ cq' = Append(cq, e)
        /\ UNCHANGED <<done, child, program, held, written, atExit>>
    BY <2>1 DEF Posted, Post, programVars
  <2>3. /\ cq'[Len(cq) + 1] = e
        /\ \A i \in DOMAIN cq : cq'[i] = cq[i]
        /\ \A i \in DOMAIN cq' : i \in DOMAIN cq \/ i = Len(cq) + 1
    <3>1. e \in Completions /\ cq \in Seq(Completions)
      BY DEF NodeTypeOK, Completions
    <3> HIDE DEF e
    <3> QED
      BY <2>2, <3>1, AppendTo
  <2>4. e.tag = t /\ e.res = res /\ e.at = at
    OBVIOUS
  <2> HIDE DEF e
  <2>5. /\ \A i \in DOMAIN cq : cq[i].tag # t
        /\ t \notin done /\ child = "live"
    BY <2>2 DEF OpInv, TeardownAfterIo, NodeTypeOK
  <2>6. taken' <= written' /\ (t # "stdout" => taken' = taken)
    BY <2>1, <2>2 DEF Posted, PipeInv, NodeTypeOK
  <2>7. Tells(e)'
    BY <2>1, <2>2, <2>4 DEF Posted, Tells, Carries, NodeTypeOK, WriteEndOpen
  <2>8. ASSUME NEW d, d.tag # t, Tells(d)
        PROVE  Tells(d)'
    BY <2>2, <2>6, <2>8 DEF Tells, Carries, WriteEndOpen
  <2>9. (\A i \in DOMAIN cq : Tells(cq[i]))'
    BY <2>3, <2>5, <2>7, <2>8 DEF PipeInv
  <2> QED
    BY <2>2, <2>5, <2>6, <2>9 DEF PipeInv, WriteEndOpen
<1> QED
  BY <1>1, <1>2, <1>3, <1>4, <1>5, <1>6, <1>7, <1>8, <1>9 DEF NodeSteps, PostStep

\* A result behind which the others end keeps the order, and adds its bytes.
LEMMA OrderedAppend ==
  ASSUME NEW s \in Seq(Results), NEW r \in Results, Ordered(s), Behind(s, r.from),
         r.from <= r.to, ~r.final => r.from < r.to
  PROVE  /\ Ordered(Append(s, r)) /\ Len(Append(s, r)) = Len(s) + 1 /\ Append(s, r) # <<>>
         /\ Append(s, r)[Len(s) + 1] = r
         /\ ~r.final => Behind(Append(s, r), r.to)
<1> DEFINE q == Append(s, r)
           n == Len(s) + 1
<1>1. /\ Len(q) = n /\ DOMAIN q = 1 .. n /\ DOMAIN s = 1 .. Len(s) /\ q[n] = r /\ n \in Nat
      /\ \A i \in DOMAIN s : q[i] = s[i] /\ i < n
      /\ \A i \in DOMAIN q : i \in DOMAIN s \/ i = n
  BY AppendTo
<1>2. q # <<>>
  BY <1>1
<1>3. \A i \in DOMAIN s : /\ ~s[i].final /\ s[i].to <= r.from /\ s[i].from <= s[i].to
                          /\ s[i].from < s[i].to /\ s[i] \in Results
  BY DEF Ordered, Behind
<1> HIDE DEF q, n
<1>4. \A i \in DOMAIN q : /\ q[i].from <= q[i].to
                          /\ ~q[i].final => q[i].from < q[i].to
                          /\ q[i].final => i = n
  BY <1>1, <1>3
<1>5. \A i, j \in DOMAIN q : i < j => q[i].to <= q[j].from
  <2> SUFFICES ASSUME NEW i \in DOMAIN q, NEW j \in DOMAIN q, i < j
               PROVE  q[i].to <= q[j].from
    OBVIOUS
  <2>1. i \in DOMAIN s /\ q[i] = s[i]
    BY <1>1
  <2> QED
    BY <1>1, <1>3, <2>1 DEF Ordered
<1>6. ~r.final => \A i \in DOMAIN q : ~q[i].final /\ q[i].to <= r.to
  BY <1>1, <1>3 DEF Results
<1> QED
  BY <1>1, <1>2, <1>4, <1>5, <1>6 DEF Ordered, Behind, q, n

\* One more result adds its own bytes to those reported.
LEMMA BytesAppend ==
  ASSUME NEW s \in Seq(Results), NEW r \in Results
  PROVE  BytesOf(Append(s, r)) = BytesOf(s) \union Bytes(r)
<1> DEFINE q == Append(s, r)
           n == Len(s)
<1>1. /\ Len(q) = n + 1 /\ q[n + 1] = r /\ n \in Nat /\ \A i \in 1 .. n : q[i] = s[i]
  BY AppendTo
<1> HIDE DEF q
<1>2. 1 .. n + 1 = (1 .. n) \union {n + 1}
  BY <1>1
<1> HIDE DEF n
<1>3. ASSUME NEW x
      PROVE  (\E i \in 1 .. n + 1 : x \in Bytes(q[i])) <=> (\E i \in 1 .. n : x \in Bytes(s[i])) \/ x \in Bytes(r)
  BY <1>1, <1>2, ZenonT(60)
<1>4. ASSUME NEW x
      PROVE  x \in BytesOf(q) <=> x \in BytesOf(s) \/ x \in Bytes(r)
  BY <1>1, <1>3, ZenonT(60) DEF BytesOf, n
<1> QED
  BY <1>4 DEF q

\* Steps of the program and the ring that neither read nor report.
Quiet == Writes \/ Exits \/ DescendantsExit \/ Submit \/ ProcessCommand

\* A quiet step changes neither the completions nor what was read or reported.
LEMMA QuietEffect ==
  ASSUME PipeInv, Quiet
  PROVE  /\ UNCHANGED <<cq, done, taken, sent, raced, active>>
         /\ child' = child \/ child' = "destroyed"
         /\ "exit" \in done => atExit' = atExit
<1>1. CASE Writes
  BY <1>1 DEF Writes, childVars
<1>2. CASE Exits
  BY <1>2 DEF Exits, childVars, PipeInv
<1>3. CASE DescendantsExit
  BY <1>3 DEF DescendantsExit, childVars
<1>4. CASE Submit
  BY <1>4 DEF Submit, programVars
<1>5. CASE ProcessCommand
  BY <1>5 DEF ProcessCommand, programVars
<1> QED
  BY <1>1, <1>2, <1>3, <1>4, <1>5 DEF Quiet

\* A posted completion is the last of the queue; one that carries bytes starts
\* where reading stood, and there was no other.
LEMMA PostQueue ==
  ASSUME NodeTypeOK, OpInv, PipeInv, PostStep
  PROVE  /\ UNCHANGED <<done, child, sent, raced, active, atExit>>
         /\ taken' >= taken
         /\ child = "live"
         /\ \/ /\ \A k \in DOMAIN cq' : Carries(cq'[k]) => k \in DOMAIN cq /\ cq'[k] = cq[k]
               /\ \A k \in DOMAIN cq : k \in DOMAIN cq' /\ cq'[k] = cq[k]
               /\ taken' = taken
            \/ /\ \A k \in DOMAIN cq : ~Carries(cq[k])
               /\ \A k \in DOMAIN cq' : Carries(cq'[k]) => cq'[k].at = taken
               /\ \E k \in DOMAIN cq' : Carries(cq'[k])
<1>1. PICK t \in Tags, res \in Int, at \in Nat : Posted(t, res, at)
  BY PostEffect DEF PipeInv
<1> DEFINE e == [tag |-> t, res |-> res, at |-> at]
<1>2. /\ op[t] = "armed" /\ cq' = Append(cq, e)
      /\ UNCHANGED <<done, child, sent, raced, active, atExit>>
  BY <1>1 DEF Posted, Post, programVars
<1>3. /\ cq'[Len(cq) + 1] = e /\ Len(cq) + 1 \in DOMAIN cq'
      /\ \A i \in DOMAIN cq : cq'[i] = cq[i] /\ i \in DOMAIN cq'
      /\ \A i \in DOMAIN cq' : i \in DOMAIN cq \/ i = Len(cq) + 1
  <2>1. e \in Completions /\ cq \in Seq(Completions)
    BY DEF NodeTypeOK, Completions
  <2> HIDE DEF e
  <2> QED
    BY <1>2, <2>1, AppendTo
<1>4. e.tag = t /\ e.res = res /\ e.at = at
  OBVIOUS
<1> HIDE DEF e
<1>5. \A i \in DOMAIN cq : cq[i].tag # t
  BY <1>2 DEF OpInv
<1>6. child = "live"
  BY <1>2 DEF OpInv, TeardownAfterIo, NodeTypeOK
<1>7. taken' >= taken
  BY <1>1 DEF Posted, NodeTypeOK
<1>8. CASE t = "stdout" /\ res > 0
  <2>1. at = taken
    BY <1>1, <1>8 DEF Posted
  <2> QED
    BY <1>2, <1>3, <1>4, <1>5, <1>6, <1>7, <1>8, <2>1 DEF Carries
<1>9. CASE ~(t = "stdout" /\ res > 0)
  <2>1. taken' = taken
    BY <1>1, <1>9 DEF Posted
  <2> QED
    BY <1>2, <1>3, <1>4, <1>6, <1>7, <1>9, <2>1 DEF Carries
<1> QED
  BY <1>8, <1>9

\* Serving a completion that reports nothing.
LEMMA ServeQuietly ==
  ASSUME NodeTypeOK, OpInv, HandleCompletion,
         ~Carries(Head(cq)) \/ "exit" \in done, Head(cq).tag # "exit"
  PROVE  /\ UNCHANGED <<taken, sent, raced, active, atExit>>
         /\ child' = "live" \/ child' = "teardown"
         /\ child = "live" /\ ("exit" \in done' <=> "exit" \in done)
         /\ \A k \in DOMAIN cq' : k + 1 \in DOMAIN cq /\ cq'[k] = cq[k + 1]
         /\ "exit" \notin done => \A k \in DOMAIN cq : Carries(cq[k]) => k - 1 \in DOMAIN cq' /\ cq'[k - 1] = cq[k]
<1> DEFINE c == Head(cq)
<1>1. /\ cq # <<>> /\ cq' = Tail(cq) /\ Served(c.tag)
      /\ UNCHANGED <<atExit, active>>
      /\ c.tag = "stdin" => HandleStdinWrite(c)
      /\ c.tag = "stdout" => HandleStdoutRead(c)
      /\ c.tag = "stderr" => HandleStderrRead(c)
  BY ServeEffect DEF programVars
<1>2. c.tag \in Tags /\ child = "live" /\ c = cq[1]
  BY <1>1, RestOfQueue
<1>3. /\ \A k \in DOMAIN cq' : k + 1 \in DOMAIN cq /\ cq'[k] = cq[k + 1]
      /\ \A k \in DOMAIN cq : k # 1 => k - 1 \in DOMAIN cq' /\ cq'[k - 1] = cq[k]
  BY <1>1, TailOf DEF NodeTypeOK
<1>4. (c.res > 0 /\ c.tag = "stdout") => "exit" \in done
  BY DEF Carries
<1> HIDE DEF c
<1>8. UNCHANGED <<taken, sent, raced>>
  <2>1. CASE c.tag = "stdin"
    BY <1>1, <2>1, ZenonT(60) DEF HandleStdinWrite
  <2>2. CASE c.tag = "stdout"
    BY <1>1, <1>4, <2>2, ZenonT(60) DEF HandleStdoutRead
  <2>3. CASE c.tag = "stderr"
    BY <1>1, <2>3, ZenonT(60) DEF HandleStderrRead
  <2> QED
    BY <1>2, <2>1, <2>2, <2>3 DEF Tags, c
<1>9. /\ "exit" \in done' <=> "exit" \in done
      /\ child' = "live" \/ child' = "teardown"
  BY <1>1, <1>2 DEF Served, Stop, MaybeFinish, c
<1> QED
  BY <1>1, <1>2, <1>3, <1>8, <1>9 DEF c

\* Serving a read that carries bytes, and the exit poll.
LEMMA ServeRead ==
  ASSUME NodeTypeOK, OpInv, PipeInv, HandleCompletion, Carries(Head(cq)), "exit" \notin done
  PROVE  /\ UNCHANGED <<taken, raced, active, atExit, done, child>>
         /\ \A k \in DOMAIN cq' : ~Carries(cq'[k])
         /\ 1 \in DOMAIN cq /\ Head(cq) = cq[1] /\ child = "live"
         /\ \E r \in Results : /\ sent' = Sending(r) /\ ~r.final
                               /\ r.from = cq[1].at /\ r.to = taken /\ r.from < r.to
<1> DEFINE c == Head(cq)
           r == Result(c.at, c.at + c.res, FALSE)
<1>1. cq' = Tail(cq) /\ UNCHANGED <<active, atExit>> /\ HandleStdoutRead(c) /\ cq # <<>>
  BY ServeEffect DEF programVars, Carries
<1>2. /\ c = cq[1] /\ 1 \in DOMAIN cq /\ c \in Completions /\ child = "live"
      /\ \A k \in DOMAIN cq' : cq'[k].tag # c.tag
  BY <1>1, RestOfQueue
<1>3. c.tag = "stdout" /\ c.res > 0
  BY DEF Carries
<1>4. Tells(c)
  BY <1>2 DEF PipeInv
<1> HIDE DEF c
<1>5. UNCHANGED <<taken, raced, done, child>> /\ sent' = Sending(r)
  BY <1>1, <1>3, ZenonT(60) DEF HandleStdoutRead
<1>6. c.at + c.res = taken /\ c.res \in Int /\ c.at \in Nat
  BY <1>2, <1>3, <1>4 DEF Tells, Carries, Completions
<1>7. r \in Results /\ ~r.final /\ r.from = c.at /\ r.to = taken /\ r.from < r.to
  BY <1>3, <1>6 DEF Result, Results
<1> HIDE DEF r
<1>8. \A k \in DOMAIN cq' : ~Carries(cq'[k])
  BY <1>2, <1>3 DEF Carries
<1> QED
  BY <1>1, <1>2, <1>5, <1>7, <1>8 DEF c

\* What HandleExitPoll does: it drains the pipe into the final result, and what
\* completed reads still carry behind it is raced.
LEMMA ServeExit ==
  ASSUME NodeTypeOK, OpInv, PipeInv, HandleCompletion, Head(cq).tag = "exit"
  PROVE  /\ UNCHANGED <<active, atExit, written>> /\ cq' = Tail(cq)
         /\ child = "live" /\ "exit" \notin done /\ "exit" \in done'
         /\ taken' = DrainOutput /\ DrainOutput \in Nat /\ taken <= DrainOutput
         /\ \A k \in DOMAIN cq' : k + 1 \in DOMAIN cq /\ cq'[k] = cq[k + 1] /\ cq'[k] \in Completions
         /\ \A k \in DOMAIN cq : Carries(cq[k]) => k - 1 \in DOMAIN cq' /\ cq'[k - 1] = cq[k]
         /\ raced' = UNION {Bytes([from |-> e.at, to |-> e.at + e.res]) : e \in {e \in Range(cq') : Carries(e)}}
         /\ \E r \in Results : /\ sent' = Sending(r) /\ r.final
                               /\ r.from = taken /\ r.to = DrainOutput
<1> DEFINE c == Head(cq)
           r == Result(taken, DrainOutput, TRUE)
<1>1. cq' = Tail(cq) /\ UNCHANGED <<active, atExit, written>> /\ HandleExitPoll(c) /\ cq # <<>>
  BY ServeEffect DEF programVars
<1>2. /\ c = cq[1] /\ child = "live" /\ "exit" \notin done
      /\ \A k \in DOMAIN cq' : k + 1 \in DOMAIN cq /\ cq'[k] = cq[k + 1] /\ cq'[k] \in Completions
  BY <1>1, RestOfQueue
<1>3. \A k \in DOMAIN cq : k # 1 => k - 1 \in DOMAIN cq' /\ cq'[k - 1] = cq[k]
  BY <1>1, TailOf DEF NodeTypeOK
<1>4. ~Carries(cq[1])
  BY <1>2 DEF Carries
<1>5. DrainOutput \in Nat /\ taken <= DrainOutput
  BY DEF DrainOutput, NodeTypeOK, PipeInv
<1>6. r \in Results /\ r.final /\ r.from = taken /\ r.to = DrainOutput
  BY <1>5 DEF Result, Results, NodeTypeOK
<1> HIDE DEF c
<1>7. taken' = DrainOutput /\ sent' = Sending(r) /\ "exit" \in done'
  BY <1>1 DEF HandleExitPoll, Stop
<1>8. raced' = UNION {Bytes([from |-> e.at, to |-> e.at + e.res]) : e \in {e \in Range(cq') : Carries(e)}}
  BY <1>1, ZenonT(60) DEF HandleExitPoll, Carries
<1> HIDE DEF r
<1> QED
  BY <1>1, <1>2, <1>3, <1>4, <1>5, <1>6, <1>7, <1>8

\* SentInv: the results stay in order and only the exit ends them.
LEMMA SentStep ==
  ASSUME NodeTypeOK, OpInv, PipeInv, SentInv, NodeSteps
  PROVE  SentInv'
<1>1. CASE HandleTask
  <2>1. /\ sent' = <<>> /\ sent = <<>> /\ cq' = <<>> /\ "exit" \notin done'
        /\ \A i \in DOMAIN sent' : FALSE
        /\ \A i \in DOMAIN cq' : FALSE
    BY <1>1 DEF HandleTask, OpInv
  <2> QED
    BY <2>1, ZenonT(60) DEF SentInv, Behind
<1>2. CASE Refuse
  <2> DEFINE r == Result(0, 0, TRUE)
  <2>1. sent' = Sending(r) /\ child' = "destroyed" /\ done' = {} /\ r \in Results /\ sent = <<>>
    BY <1>2 DEF Refuse, Result, Results, OpInv
  <2>2. r.final /\ r.from = 0 /\ r.to = 0
    BY DEF Result
  <2> HIDE DEF r
  <2>3. Behind(sent, r.from)
    BY <2>1 DEF Behind
  <2>4. sent \in Seq(Results) /\ Ordered(sent) /\ r.from <= r.to
    BY <2>2 DEF SentInv, NodeTypeOK
  <2>5. Ordered(Append(sent, r))
    BY <2>1, <2>2, <2>3, <2>4, OrderedAppend, ZenonT(60)
  <2>6. Ordered(sent')
    BY <2>1, <2>4, <2>5 DEF Sending
  <2> QED
    BY <2>1, <2>6 DEF SentInv
<1>3. CASE HandleCompletion
  <2>1. CASE Head(cq).tag = "exit"
    <3>1. /\ UNCHANGED active /\ child = "live" /\ "exit" \notin done /\ "exit" \in done'
          /\ taken <= DrainOutput
      BY <1>3, <2>1, ServeExit
    <3>2. PICK r \in Results : sent' = Sending(r) /\ r.final /\ r.from = taken /\ r.to = DrainOutput
      BY <1>3, <2>1, ServeExit
    <3>3. Ordered(sent) /\ Behind(sent, r.from) /\ sent \in Seq(Results)
      BY <3>1, <3>2 DEF SentInv, NodeTypeOK
    <3>4. ASSUME active
          PROVE  Ordered(sent') /\ sent' # <<>> /\ sent'[Len(sent')].final
      BY <3>1, <3>2, <3>3, <3>4, OrderedAppend DEF Sending
    <3>5. Ordered(sent')
      BY <3>2, <3>3, <3>4 DEF Sending
    <3> QED
      BY <3>1, <3>4, <3>5 DEF SentInv
  <2>2. CASE Carries(Head(cq)) /\ "exit" \notin done
    <3>1. /\ UNCHANGED <<taken, active, done, child>> /\ child = "live"
          /\ \A k \in DOMAIN cq' : ~Carries(cq'[k])
          /\ 1 \in DOMAIN cq /\ Carries(cq[1])
      BY <1>3, <2>2, ServeRead
    <3>2. PICK r \in Results : /\ sent' = Sending(r) /\ ~r.final
                               /\ r.from = cq[1].at /\ r.to = taken /\ r.from < r.to
      BY <1>3, <2>2, ServeRead
    <3>3. Ordered(sent) /\ Behind(sent, r.from) /\ Behind(sent, taken) /\ sent \in Seq(Results)
      BY <2>2, <3>1, <3>2 DEF SentInv, NodeTypeOK
    <3>4. Ordered(sent') /\ Behind(sent', taken)
      BY <3>2, <3>3, OrderedAppend DEF Sending, Results
    <3> QED
      BY <2>2, <3>1, <3>4 DEF SentInv
  <2>3. CASE Head(cq).tag # "exit" /\ (~Carries(Head(cq)) \/ "exit" \in done)
    <3>1. /\ UNCHANGED <<taken, sent, active>>
          /\ child = "live" /\ ("exit" \in done' <=> "exit" \in done)
          /\ \A k \in DOMAIN cq' : k + 1 \in DOMAIN cq /\ cq'[k] = cq[k + 1]
      BY <1>3, <2>3, ServeQuietly
    <3> QED
      BY <3>1 DEF SentInv
  <2> QED
    BY <2>1, <2>2, <2>3 DEF Carries
<1>4. CASE Quiet
  BY <1>4, QuietEffect DEF SentInv
<1>5. CASE PostStep
  <2>1. /\ UNCHANGED <<done, child, sent, active>> /\ taken' >= taken /\ taken' \in Nat
        /\ \A k \in DOMAIN cq' : Carries(cq'[k]) =>
             (k \in DOMAIN cq /\ cq'[k] = cq[k]) \/ cq'[k].at = taken
    BY <1>5, PostQueue, NodeType DEF NodeTypeOK, NodeSteps, PostStep
  <2>2. Behind(sent, taken) => Behind(sent, taken')
    <3>1. \A i \in DOMAIN sent : sent[i].to \in Nat
      <4>1. \A i \in DOMAIN sent : sent[i] \in Results
        BY DEF NodeTypeOK
      <4> QED
        BY <4>1 DEF Results
    <3> QED
      BY <2>1, <3>1 DEF Behind, NodeTypeOK
  <2> QED
    BY <2>1, <2>2 DEF SentInv
<1> QED
  BY <1>1, <1>2, <1>3, <1>4, <1>5 DEF NodeSteps, PostStep, Quiet

\* An interval has as many members as it is long.
LEMMA IntervalSize ==
  ASSUME NEW a \in Nat, NEW n \in Nat
  PROVE  Cardinality((a + 1) .. (a + n)) = n
  BY FS_Interval

\* LossInv: what was read is reported, or is the one read that raced.
LEMMA LossStep ==
  ASSUME NodeTypeOK, OpInv, PipeInv, SentInv, LossInv, NodeSteps
  PROVE  LossInv'
<1>1. CASE HandleTask
  <2>1. UNCHANGED <<sent, cq, raced, taken, active>> /\ "exit" \notin done /\ "exit" \notin done'
    BY <1>1 DEF HandleTask, OpInv
  <2> QED
    BY <2>1, ZenonT(60) DEF LossInv
<1>2. CASE Refuse
  <2> DEFINE r == Result(0, 0, TRUE)
  <2>1. /\ sent' = Sending(r) /\ r \in Results /\ UNCHANGED <<cq, done, raced, taken, active>>
        /\ "exit" \notin done
    BY <1>2 DEF Refuse, Result, Results, OpInv
  <2>2. Bytes(r) = {}
    BY DEF Bytes, Result
  <2> HIDE DEF r
  <2>3. BytesOf(sent') = BytesOf(sent)
    BY <2>1, <2>2, BytesAppend, ZenonT(60) DEF Sending, NodeTypeOK
  <2> QED
    BY <2>1, <2>3, ZenonT(60) DEF LossInv
<1>3. CASE HandleCompletion
  <2>1. CASE Head(cq).tag = "exit"
    <3>1. /\ UNCHANGED <<active, atExit, written>>
          /\ "exit" \notin done /\ "exit" \in done'
          /\ \A k \in DOMAIN cq' : k + 1 \in DOMAIN cq /\ cq'[k] = cq[k + 1] /\ cq'[k] \in Completions
          /\ \A k \in DOMAIN cq : Carries(cq[k]) => k - 1 \in DOMAIN cq' /\ cq'[k - 1] = cq[k]
          /\ raced' = UNION {Bytes([from |-> e.at, to |-> e.at + e.res]) : e \in {e \in Range(cq') : Carries(e)}}
      BY <1>3, <2>1, ServeExit
    <3>2. PICK r \in Results : sent' = Sending(r) /\ r.final /\ r.from = taken /\ r.to = DrainOutput
      BY <1>3, <2>1, ServeExit
    <3>3. active => BytesOf(sent') = BytesOf(sent) \union (taken + 1) .. DrainOutput
      BY <3>2, BytesAppend DEF Sending, NodeTypeOK, Bytes
    <3>4. CASE \A k \in DOMAIN cq : ~Carries(cq[k])
      <4>1. raced' = {}
        BY <3>1, <3>4, ZenonT(60) DEF Range
      <4>2. Cardinality(raced') <= BufferSize
        BY <4>1, FS_EmptySet, BoundsAssumption
      <4>3. active => BytesOf(sent) = 1 .. taken
        BY <3>1, <3>4 DEF LossInv
      <4>4. 1 .. atExit \subseteq (1 .. taken) \union (taken + 1) .. DrainOutput
        BY <3>1 DEF PipeInv, NodeTypeOK, DrainOutput
      <4> QED
        BY <3>1, <3>3, <4>1, <4>2, <4>3, <4>4, ZenonT(60) DEF LossInv
    <3>5. ASSUME NEW k \in DOMAIN cq, Carries(cq[k])
          PROVE  LossInv'
      <4> DEFINE e == cq[k]
      <4>1. e \in Completions /\ Tells(e) /\ e.tag = "stdout" /\ e.res > 0
        BY <3>5 DEF PipeInv, NodeTypeOK, Carries
      <4>2. /\ e.at \in Nat /\ e.res \in Nat /\ e.at + e.res = taken /\ e.res <= BufferSize
        BY <3>1, <4>1 DEF Tells, Carries, Completions
      <4>3. "stdout" \notin done
        BY <4>1 DEF OpInv
      <4>4. {d \in Range(cq') : Carries(d)} = {e}
        <5>1. \A j \in DOMAIN cq' : Carries(cq'[j]) => cq'[j] = e
          BY <3>1, <3>5 DEF OpInv, Carries
        <5>2. k - 1 \in DOMAIN cq' /\ cq'[k - 1] = e
          BY <3>1, <3>5
        <5> QED
          BY <3>5, <5>1, <5>2 DEF Range
      <4>5. raced' = (e.at + 1) .. (e.at + e.res)
        BY <3>1, <4>4 DEF Bytes
      <4>6. Cardinality(raced') <= BufferSize
        BY <4>2, <4>5, IntervalSize, BoundsAssumption
      <4>7. active => BytesOf(sent) = 1 .. e.at
        BY <3>1, <3>5 DEF LossInv
      <4> HIDE DEF e
      <4>8. 1 .. atExit \subseteq (1 .. e.at) \union ((e.at + 1) .. (e.at + e.res)) \union (taken + 1) .. DrainOutput
        BY <3>1, <4>2, <4>3 DEF PipeInv, NodeTypeOK, DrainOutput
      <4> QED
        BY <3>1, <3>3, <4>5, <4>6, <4>7, <4>8, ZenonT(60) DEF LossInv
    <3> QED
      BY <3>4, <3>5
  <2>2. CASE Carries(Head(cq)) /\ "exit" \notin done
    <3>1. /\ UNCHANGED <<taken, active, done, raced>>
          /\ \A k \in DOMAIN cq' : ~Carries(cq'[k])
          /\ 1 \in DOMAIN cq /\ Carries(cq[1])
      BY <1>3, <2>2, ServeRead
    <3>2. PICK r \in Results : /\ sent' = Sending(r) /\ ~r.final
                               /\ r.from = cq[1].at /\ r.to = taken /\ r.from < r.to
      BY <1>3, <2>2, ServeRead
    <3>3. active => BytesOf(sent') = (1 .. r.from) \union (r.from + 1) .. taken
      BY <2>2, <3>1, <3>2, BytesAppend, ZenonT(60) DEF Sending, NodeTypeOK, Bytes, LossInv
    <3>4. (1 .. r.from) \union (r.from + 1) .. taken = 1 .. taken
      BY <3>2 DEF Results, NodeTypeOK
    <3> QED
      BY <2>2, <3>1, <3>3, <3>4, ZenonT(60) DEF LossInv
  <2>3. CASE Head(cq).tag # "exit" /\ (~Carries(Head(cq)) \/ "exit" \in done)
    <3>1. /\ UNCHANGED <<taken, sent, active, raced, atExit>>
          /\ "exit" \in done' <=> "exit" \in done
          /\ \A k \in DOMAIN cq' : k + 1 \in DOMAIN cq /\ cq'[k] = cq[k + 1]
          /\ "exit" \notin done => \A k \in DOMAIN cq : Carries(cq[k]) => k - 1 \in DOMAIN cq' /\ cq'[k - 1] = cq[k]
      BY <1>3, <2>3, ServeQuietly
    <3>2. ASSUME "exit" \notin done, \A k \in DOMAIN cq' : ~Carries(cq'[k])
          PROVE  \A k \in DOMAIN cq : ~Carries(cq[k])
      BY <3>1, <3>2
    <3> QED
      BY <3>1, <3>2 DEF LossInv
  <2> QED
    BY <2>1, <2>2, <2>3 DEF Carries
<1>4. CASE Quiet
  <2>1. /\ UNCHANGED <<cq, done, taken, sent, raced, active>>
        /\ "exit" \in done => atExit' = atExit
    BY <1>4, QuietEffect
  <2> QED
    BY <2>1 DEF LossInv
<1>5. CASE PostStep
  <2>1. /\ UNCHANGED <<done, sent, active, raced, atExit>>
        /\ \/ /\ \A k \in DOMAIN cq' : Carries(cq'[k]) => k \in DOMAIN cq /\ cq'[k] = cq[k]
              /\ \A k \in DOMAIN cq : k \in DOMAIN cq' /\ cq'[k] = cq[k]
              /\ taken' = taken
           \/ /\ \A k \in DOMAIN cq : ~Carries(cq[k])
              /\ \A k \in DOMAIN cq' : Carries(cq'[k]) => cq'[k].at = taken
              /\ \E k \in DOMAIN cq' : Carries(cq'[k])
    BY <1>5, PostQueue
  <2> QED
    BY <2>1, ZenonT(60) DEF LossInv
<1> QED
  BY <1>1, <1>2, <1>3, <1>4, <1>5 DEF NodeSteps, PostStep, Quiet

------------------------------------------------------------------------------
\* A step of the node keeps the results it already sent.
LEMMA SentGrows ==
  ASSUME NodeTypeOK, OpInv, PipeInv, NodeSteps
  PROVE  /\ Len(sent) <= Len(sent') /\ Len(sent') \in Nat
         /\ \A i \in 1 .. Len(sent) : sent'[i] = sent[i]
<1>0. sent \in Seq(Results)
  BY DEF NodeTypeOK
<1>1. ASSUME NEW r \in Results, sent' = Sending(r)
      PROVE  /\ Len(sent) <= Len(sent') /\ Len(sent') \in Nat
             /\ \A i \in 1 .. Len(sent) : sent'[i] = sent[i]
  BY <1>0, <1>1, AppendTo DEF Sending
<1>2. CASE HandleTask
  BY <1>0, <1>2 DEF HandleTask
<1>3. CASE Refuse
  <2>1. Result(0, 0, TRUE) \in Results
    BY DEF Result, Results
  <2> QED
    BY <1>1, <1>3, <2>1, ZenonT(60) DEF Refuse
<1>4. CASE HandleCompletion
  <2>1. CASE Head(cq).tag = "exit"
    BY <1>1, <1>4, <2>1, ServeExit, ZenonT(60)
  <2>2. CASE Carries(Head(cq)) /\ "exit" \notin done
    BY <1>1, <1>4, <2>2, ServeRead, ZenonT(60)
  <2>3. CASE Head(cq).tag # "exit" /\ (~Carries(Head(cq)) \/ "exit" \in done)
    BY <1>0, <1>4, <2>3, ServeQuietly
  <2> QED
    BY <2>1, <2>2, <2>3 DEF Carries
<1>5. CASE Quiet
  BY <1>0, <1>5, QuietEffect
<1>6. CASE PostStep
  BY <1>0, <1>6, PostQueue
<1> QED
  BY <1>2, <1>3, <1>4, <1>5, <1>6 DEF NodeSteps, PostStep, Quiet

\* The frames the response is made of.
LEMMA FrameType ==
  /\ \A r \in Results : /\ Frame("length", r) \in Frames /\ Frame("chunk", r) \in Frames
                        /\ Frame("length", r).kind = "length" /\ Frame("chunk", r).kind = "chunk"
                        /\ Bytes(Frame("length", r)) = Bytes(r) /\ Bytes(Frame("chunk", r)) = Bytes(r)
                        /\ Frame("chunk", r).from = r.from /\ Frame("chunk", r).to = r.to
  /\ Frame("chunked", Result(0, 0, FALSE)) \in Frames
  /\ Frame("last", Result(0, 0, TRUE)) \in Frames
  /\ Frame("error", Result(0, 0, TRUE)) \in Frames
  BY DEF Frame, Result, Results, Frames, Bytes

\* What one result handled by a receiver that is still there does to the response.
LEMMA ResultHandled ==
  ASSUME TypeOK, SentInv, GwInv, HandleTaskResultFrame
  PROVE  GwTypeOK' /\ GwInv'
<1> DEFINE r == sent[delivered + 1]
           d == delivered + 1
           head == Frame("chunked", Result(0, 0, FALSE))
           last == Frame("last", Result(0, 0, TRUE))
           one == Frame("length", r)
           chunk == Frame("chunk", r)
<1>0. delivered \in Nat /\ sent \in Seq(Results) /\ response \in Seq(Frames) /\ framer \in {"idle", "chunked", "done"}
  BY DEF TypeOK, NodeTypeOK, GwTypeOK
<1>1. link /\ delivered < Len(sent) /\ delivered' = d /\ UNCHANGED <<sent, link>>
  BY DEF HandleTaskResultFrame, nodeVars, childVars
<1>2. /\ d \in Nat /\ d > 0 /\ d <= Len(sent) /\ r \in Results /\ Len(sent) \in Nat
      /\ DOMAIN sent = 1 .. Len(sent) /\ r = sent[d] /\ d = delivered + 1
  BY <1>0, <1>1
<1>3. framer # "done"
  <2> SUFFICES ASSUME framer = "done" PROVE FALSE
    OBVIOUS
  <2>1. AtOnce \/ Streamed
    BY <1>1, ZenonT(60) DEF GwInv
  <2>2. delivered > 0 /\ sent[delivered].final
    <3>1. (delivered = 1 /\ sent[1].final) \/ (delivered > 1 /\ sent[delivered].final)
      BY <2>1, ZenonT(60) DEF AtOnce, Streamed
    <3> QED
      BY <1>0, <3>1
  <2>3. \A i \in DOMAIN sent : sent[i].final => i = Len(sent)
    BY DEF SentInv, Ordered
  <2> QED
    BY <1>0, <1>1, <1>2, <2>2, <2>3
<1>4. receiver
  BY <1>1, <1>3, ZenonT(60) DEF GwInv
<1>5. /\ response' = response \o NextFrames(r)
      /\ framer' = IF r.final THEN "done" ELSE IF framer = "idle" THEN "chunked" ELSE framer
      /\ receiver' = ~r.final
  BY <1>4, ZenonT(60) DEF HandleTaskResultFrame
<1>6. chunk \in Frames /\ one \in Frames /\ head \in Frames /\ last \in Frames
  BY <1>2, FrameType, ZenonT(60)
<1>7. framer = "idle" => response = <<>> /\ d = 1
  BY <1>0 DEF GwInv, Silent
<1>8. framer = "chunked" => /\ Len(response) = d /\ Chunks(delivered) /\ d > 1
                            /\ \A i \in 1 .. delivered : ~sent[i].final
  BY <1>0 DEF GwInv, Streaming
<1>9. /\ framer = "idle" /\ r.final => NextFrames(r) = <<one>>
      /\ framer = "idle" /\ ~r.final => NextFrames(r) = <<head, chunk>>
      /\ framer = "chunked" /\ r.final => NextFrames(r) = <<chunk, last>>
      /\ framer = "chunked" /\ ~r.final => NextFrames(r) = <<chunk>>
  BY ZenonT(60) DEF NextFrames
<1> HIDE DEF r, head, last, one, chunk, d
<1>10. \/ /\ framer = "idle" /\ r.final /\ framer' = "done" /\ ~receiver'
          /\ response' = response \o <<one>>
       \/ /\ framer = "idle" /\ ~r.final /\ framer' = "chunked" /\ receiver'
          /\ response' = response \o <<head, chunk>>
       \/ /\ framer = "chunked" /\ r.final /\ framer' = "done" /\ ~receiver'
          /\ response' = response \o <<chunk, last>>
       \/ /\ framer = "chunked" /\ ~r.final /\ framer' = "chunked" /\ receiver'
          /\ response' = response \o <<chunk>>
  BY <1>0, <1>3, <1>5, <1>9, ZenonT(60)
<1>11. GwTypeOK'
  <2>1. response' \in Seq(Frames)
    <3>1. \A a, b \in Frames : response \o <<a>> \in Seq(Frames) /\ response \o <<a, b>> \in Seq(Frames)
      BY <1>0, ConcatTo
    <3> QED
      BY <1>6, <1>10, <3>1, ZenonT(60)
  <2>2. framer' \in {"idle", "chunked", "done"}
    BY <1>10
  <2>3. receiver' \in BOOLEAN /\ link' \in BOOLEAN
    BY <1>1, <1>5, ZenonT(60) DEF TypeOK, GwTypeOK
  <2> QED
    BY <1>1, <1>2, <2>1, <2>2, <2>3 DEF GwTypeOK
<1>12. \/ framer' = "done" /\ AtOnce'
       \/ framer' = "done" /\ Streamed'
       \/ framer' = "chunked" /\ Streaming'
  <2>1. CASE framer = "idle" /\ r.final /\ framer' = "done" /\ response' = response \o <<one>>
    <3>1. response' = <<one>>
      BY <1>6, <1>7, <2>1
    <3> QED
      BY <1>1, <1>2, <1>7, <2>1, <3>1 DEF AtOnce, one
  <2>2. CASE framer = "idle" /\ ~r.final /\ framer' = "chunked" /\ response' = response \o <<head, chunk>>
    <3>1. Len(response') = 2 /\ response'[1] = head /\ response'[2] = chunk
      BY <1>0, <1>6, <1>7, <2>2, ConcatTo
    <3>2. \A i \in 1 .. d : response'[i + 1] = Frame("chunk", sent[i]) /\ ~sent[i].final
      BY <1>2, <1>7, <2>2, <3>1 DEF chunk
    <3>3. delivered' > 0 /\ Len(response') = delivered' + 1
      BY <1>1, <1>2, <1>7, <2>2, <3>1
    <3> QED
      BY <1>1, <2>2, <3>1, <3>2, <3>3, ZenonT(60) DEF Streaming, Chunks, head
  <2>3. CASE framer = "chunked" /\ r.final /\ framer' = "done" /\ response' = response \o <<chunk, last>>
    <3>1. /\ Len(response') = d + 2 /\ response'[d + 1] = chunk /\ response'[d + 2] = last
          /\ \A i \in 1 .. d : response'[i] = response[i]
      BY <1>0, <1>6, <1>8, <2>3, ConcatTo
    <3>2. response'[1] = head
      <4>1. response[1] = head
        BY <1>8, <2>3, ZenonT(60) DEF Chunks, head
      <4> QED
        BY <1>2, <3>1, <4>1
    <3>3. \A i \in 1 .. d : response'[i + 1] = Frame("chunk", sent[i])
      BY <1>0, <1>2, <1>8, <2>3, <3>1 DEF Chunks, chunk
    <3> QED
      BY <1>1, <1>2, <1>8, <2>3, <3>1, <3>2, <3>3, ZenonT(60) DEF Streamed, Chunks, last, head
  <2>4. CASE framer = "chunked" /\ ~r.final /\ framer' = "chunked" /\ response' = response \o <<chunk>>
    <3>1. /\ Len(response') = d + 1 /\ response'[d + 1] = chunk
          /\ \A i \in 1 .. d : response'[i] = response[i]
      BY <1>0, <1>6, <1>8, <2>4, ConcatTo
    <3>2. response'[1] = head
      <4>1. response[1] = head
        BY <1>8, <2>4, ZenonT(60) DEF Chunks, head
      <4> QED
        BY <1>2, <3>1, <4>1
    <3>3. \A i \in 1 .. d : response'[i + 1] = Frame("chunk", sent[i])
      BY <1>0, <1>2, <1>8, <2>4, <3>1 DEF Chunks, chunk
    <3>4. \A i \in 1 .. d : ~sent[i].final
      BY <1>0, <1>2, <1>8, <2>4
    <3> QED
      BY <1>1, <1>2, <2>4, <3>1, <3>2, <3>3, <3>4, ZenonT(60) DEF Streaming, Chunks, head
  <2> QED
    BY <1>10, <2>1, <2>2, <2>3, <2>4
<1>13. receiver' <=> framer' # "done"
  BY <1>10, ZenonT(60)
<1> QED
  BY <1>1, <1>2, <1>11, <1>12, <1>13 DEF GwInv

\* A step that only adds results leaves the response as it was.
LEMMA ResponseStays ==
  ASSUME TypeOK, GwInv, UNCHANGED <<delivered, receiver, framer, response, link>>,
         Len(sent) <= Len(sent'), Len(sent') \in Nat,
         \A i \in 1 .. Len(sent) : sent'[i] = sent[i]
  PROVE  GwTypeOK' /\ GwInv'
<1>1. delivered \in Nat /\ Len(sent) \in Nat /\ delivered <= Len(sent)
  BY DEF TypeOK, NodeTypeOK, GwTypeOK, GwInv
<1>2. \A i \in 1 .. delivered : sent'[i] = sent[i]
  BY <1>1
<1>3. delivered > 1 => sent'[delivered] = sent[delivered]
  BY <1>1, <1>2
<1>4. delivered = 1 => sent'[1] = sent[1]
  BY <1>1, <1>2
<1>5. delivered' <= Len(sent')
  BY <1>1
<1>6. Chunks(delivered) => Chunks(delivered)'
  BY <1>2, ZenonT(60) DEF Chunks
<1>7. /\ Silent => Silent'
      /\ Streaming => Streaming'
      /\ Failed => Failed'
      /\ AtOnce => AtOnce'
      /\ Streamed => Streamed'
  <2>1. (Silent => Silent') /\ (Failed => Failed')
    BY ZenonT(60) DEF Silent, Failed
  <2>2. Streaming => Streaming'
    BY <1>2, <1>6, ZenonT(60) DEF Streaming
  <2>3. AtOnce => AtOnce'
    BY <1>4, ZenonT(60) DEF AtOnce
  <2>4. Streamed => Streamed'
    BY <1>3, <1>6, ZenonT(60) DEF Streamed
  <2> QED
    BY <2>1, <2>2, <2>3, <2>4
<1>8. GwTypeOK'
  BY ZenonT(60) DEF TypeOK, GwTypeOK
<1> QED
  BY <1>5, <1>7, <1>8, ZenonT(60) DEF GwInv

\* The two sides of a broken link.
LEMMA LinkBreaks ==
  ASSUME IInv, NodeDisconnected \/ GatewayDisconnected
  PROVE  IInv'
<1>0. TypeOK /\ GwInv
  BY DEF IInv
<1>1. CASE NodeDisconnected
  <2>1. /\ UNCHANGED <<childVars, programVars, taken, link, gatewayVars>> /\ active' = FALSE
        /\ killed' = (killed \/ (child = "live" /\ "exit" \notin done))
    BY <1>1 DEF NodeDisconnected, Close
  <2>2. UNCHANGED <<stdinLeft, op, cq, done, child, sent, raced, program, held, written, atExit>>
    BY <2>1 DEF childVars, programVars
  <2>3. NodeTypeOK'
    <3>1. killed' \in BOOLEAN /\ active' \in BOOLEAN
      BY <2>1, ZenonT(60)
    <3> QED
      BY <1>0, <2>1, <2>2, <3>1, ZenonT(60) DEF TypeOK, NodeTypeOK
  <2>4. OpInv'
    BY <2>2, ZenonT(60) DEF IInv, OpInv, TeardownAfterIo
  <2>5. PipeInv'
    BY <2>1, <2>2, ZenonT(60) DEF IInv, PipeInv, Tells, WriteEndOpen, Carries
  <2>6. SentInv' /\ LossInv'
    BY <2>1, <2>2, ZenonT(60) DEF IInv, SentInv, LossInv
  <2>7. GwTypeOK' /\ GwInv'
    BY <1>0, <2>1, <2>2, ZenonT(60) DEF GwInv, GwTypeOK, TypeOK, Silent, Streaming, Failed, AtOnce, Streamed, Chunks, gatewayVars
  <2> QED
    BY <2>3, <2>4, <2>5, <2>6, <2>7 DEF IInv, TypeOK
<1>2. CASE GatewayDisconnected
  <2>1. UNCHANGED <<nodeVars, delivered>> /\ link /\ link' = FALSE /\ receiver' = FALSE
    BY <1>2 DEF GatewayDisconnected
  <2>2. UNCHANGED <<stdinLeft, op, cq, done, child, sent, raced, program, held, written, atExit, killed, taken, active>>
    BY <2>1 DEF nodeVars, childVars, programVars
  <2>3. NodeTypeOK' /\ OpInv' /\ PipeInv' /\ SentInv' /\ LossInv'
    <3>1. NodeTypeOK' /\ OpInv' /\ PipeInv'
      BY <2>2, ZenonT(60) DEF IInv, TypeOK, NodeTypeOK, OpInv, TeardownAfterIo, PipeInv, Tells, WriteEndOpen, Carries
    <3>2. SentInv' /\ LossInv'
      BY <2>2, ZenonT(60) DEF IInv, SentInv, LossInv
    <3> QED
      BY <3>1, <3>2
  <2>4. \/ framer = "idle" /\ framer' = "done" /\ response' = Append(response, Frame("error", Result(0, 0, TRUE)))
        \/ framer # "idle" /\ UNCHANGED <<framer, response>>
    BY <1>2, <2>1, <1>0, ZenonT(60) DEF GatewayDisconnected, ErrorFits, GwInv
  <2>5. CASE framer = "idle" /\ framer' = "done" /\ response' = Append(response, Frame("error", Result(0, 0, TRUE)))
    <3>1. response = <<>> /\ delivered = 0 /\ Frame("error", Result(0, 0, TRUE)) \in Frames
      BY <1>0, <2>5, FrameType, ZenonT(60) DEF GwInv, Silent
    <3>2. response' = <<Frame("error", Result(0, 0, TRUE))>> /\ response' \in Seq(Frames)
      BY <2>5, <3>1, FirstElement, ZenonT(60)
    <3>3. Failed'
      BY <2>1, <3>1, <3>2, ZenonT(60) DEF Failed
    <3>4. delivered' <= Len(sent')
      BY <1>0, <2>1, <2>2 DEF GwInv
    <3>5. GwTypeOK'
      BY <1>0, <2>1, <2>5, <3>2, ZenonT(60) DEF TypeOK, GwTypeOK
    <3>6. GwInv'
      BY <2>1, <2>5, <3>3, <3>4 DEF GwInv
    <3> QED
      BY <2>3, <3>5, <3>6 DEF IInv, TypeOK
  <2>6. CASE framer # "idle" /\ UNCHANGED <<framer, response>>
    <3>1. GwTypeOK'
      BY <1>0, <2>1, <2>6, ZenonT(60) DEF TypeOK, GwTypeOK
    <3>2. GwInv'
      BY <1>0, <2>1, <2>2, <2>6, ZenonT(60) DEF GwInv, Silent, Streaming, Failed, AtOnce, Streamed, Chunks
    <3> QED
      BY <2>3, <3>1, <3>2 DEF IInv, TypeOK
  <2> QED
    BY <2>4, <2>5, <2>6, ZenonT(60)
<1> QED
  BY <1>1, <1>2

\* Nothing is running and nothing was sent.
LEMMA Initially ==
  ASSUME Init
  PROVE  IInv
<1>1. \A i \in DOMAIN cq : FALSE
  BY DEF Init, InitNode
<1>2. \A i \in DOMAIN sent : FALSE
  BY DEF Init, InitNode
<1>3. TypeOK
  <2>1. cq \in Seq(Completions) /\ sent \in Seq(Results) /\ response \in Seq(Frames)
    BY DEF Init, InitNode
  <2>2. op \in [Tags -> {"idle", "prepared", "armed"}]
    BY DEF Init, InitNode
  <2>3. GwTypeOK
    BY <2>1 DEF Init, GwTypeOK
  <2> QED
    BY <2>1, <2>2, <2>3, ZenonT(60) DEF Init, InitNode, TypeOK, NodeTypeOK
<1>4. OpInv /\ PipeInv
  BY <1>1 DEF Init, InitNode, OpInv, TeardownAfterIo, PipeInv
<1>5. SentInv
  BY <1>2, <1>1 DEF Init, InitNode, SentInv, Ordered, Behind
<1>6. LossInv
  <2>1. BytesOf(sent) = {} /\ 1 .. taken = {}
    BY DEF Init, InitNode, BytesOf
  <2>2. Cardinality(raced) <= BufferSize
    BY FS_EmptySet, BoundsAssumption DEF Init, InitNode
  <2> QED
    BY <1>1, <2>1, <2>2 DEF Init, InitNode, LossInv
<1>7. GwInv
  BY DEF Init, InitNode, GwInv, Silent
<1> QED
  BY <1>3, <1>4, <1>5, <1>6, <1>7 DEF IInv

\* The invariant is inductive.
THEOREM Invariance == Spec => []IInv
<1>1. Init => IInv
  BY Initially
<1>2. IInv /\ [Next]_vars => IInv'
  <2> SUFFICES ASSUME IInv, [Next]_vars
               PROVE  IInv'
    OBVIOUS
  <2>0. NodeTypeOK /\ TypeOK /\ OpInv /\ PipeInv /\ SentInv /\ LossInv /\ GwInv
    BY DEF IInv, TypeOK
  <2>1. CASE NodeSteps /\ UNCHANGED <<link, gatewayVars>>
    <3>1. NodeTypeOK' /\ OpInv' /\ PipeInv' /\ SentInv' /\ LossInv'
      BY <2>0, <2>1, NodeType, OpStep, PipeStep, SentStep, LossStep
    <3>2. GwTypeOK' /\ GwInv'
      BY <2>0, <2>1, SentGrows, ResponseStays DEF gatewayVars
    <3> QED
      BY <3>1, <3>2 DEF IInv, TypeOK
  <2>2. CASE HandleTaskResultFrame
    <3>1. UNCHANGED <<stdinLeft, op, cq, done, child, sent, raced, program, held, written, atExit, killed, taken, active>>
      BY <2>2 DEF HandleTaskResultFrame, nodeVars, childVars, programVars
    <3>2. NodeTypeOK' /\ OpInv' /\ PipeInv'
      BY <2>0, <3>1, ZenonT(60) DEF NodeTypeOK, OpInv, TeardownAfterIo, PipeInv, Tells, WriteEndOpen, Carries
    <3>3. SentInv' /\ LossInv'
      BY <2>0, <3>1, ZenonT(60) DEF SentInv, LossInv
    <3>4. GwTypeOK' /\ GwInv'
      BY <2>0, <2>2, ResultHandled
    <3> QED
      BY <3>2, <3>3, <3>4 DEF IInv, TypeOK
  <2>3. CASE NodeDisconnected \/ GatewayDisconnected
    BY <2>3, LinkBreaks
  <2>4. CASE UNCHANGED vars
    <3>1. UNCHANGED <<stdinLeft, op, cq, done, child, sent, raced, program, held, written, atExit, killed, taken, active>>
      BY <2>4 DEF vars, nodeVars, childVars, programVars
    <3>2. UNCHANGED <<link, delivered, receiver, framer, response>>
      BY <2>4 DEF vars, gatewayVars
    <3>3. NodeTypeOK' /\ OpInv' /\ PipeInv'
      BY <2>0, <3>1, ZenonT(60) DEF NodeTypeOK, OpInv, TeardownAfterIo, PipeInv, Tells, WriteEndOpen, Carries
    <3>4. SentInv' /\ LossInv'
      BY <2>0, <3>1, ZenonT(60) DEF SentInv, LossInv
    <3>5. GwTypeOK' /\ GwInv'
      BY <2>0, <3>1, <3>2, ZenonT(60) DEF GwInv, GwTypeOK, Silent, Streaming, Failed, AtOnce, Streamed, Chunks, TypeOK
    <3> QED
      BY <3>3, <3>4, <3>5 DEF IInv, TypeOK
  <2> QED
    BY <2>1, <2>2, <2>3, <2>4 DEF Next
<1> QED
  BY <1>1, <1>2, PTL DEF Spec

\* Teardown comes after the child's I/O, whatever order its operations complete in.
THEOREM NoIoAfterTeardown == Spec => []TeardownAfterIo
<1>1. IInv => TeardownAfterIo
  BY DEF IInv, OpInv
<1> QED
  BY <1>1, Invariance, PTL

\* Only one read that completed behind the exit poll can be missing from the results.
THEOREM LossIsOneRead == Spec => []OnlyRacedOutputIsLost
<1>1. SentBytes(Len(sent)) = BytesOf(sent)
  BY DEF SentBytes, BytesOf
<1>2. IInv => OnlyRacedOutputIsLost
  BY <1>1, ZenonT(60) DEF IInv, LossInv, OnlyRacedOutputIsLost
<1> QED
  BY <1>2, Invariance, PTL

------------------------------------------------------------------------------
\* A response of a head and frames in order, of which the first n do not end it
\* and those behind the next one are empty; result i is its frame i + k.
Framed(n, k) ==
  /\ \A i \in DOMAIN response : response[i].kind \in {"length", "chunked", "error"} <=> i = 1
  /\ \A i, j \in DOMAIN response : i < j /\ Bytes(response[j]) # {} => response[i].to <= response[j].from
  /\ n <= Len(response) /\ \A i \in 1 .. n : ~Ends(response[i])
  /\ n = Len(response) \/ Ends(response[n + 1])
  /\ \A i \in n + 2 .. Len(response) : Bytes(response[i]) = {}
  /\ Len(response) >= delivered + k
  /\ \A i \in 1 .. Len(response) : i - k \in 1 .. delivered \/ Bytes(response[i]) = {}
  /\ \A i \in 1 .. delivered : Bytes(response[i + k]) = Bytes(sent[i])

\* The frames of a response that streams.
LEMMA ChunkFrames ==
  ASSUME TypeOK, SentInv, delivered <= Len(sent), Chunks(delivered), Len(response) > delivered, delivered > 0
  PROVE  /\ response[1].kind = "chunked" /\ response[1].from = 0 /\ response[1].to = 0
         /\ ~Ends(response[1]) /\ Bytes(response[1]) = {}
         /\ \A i \in 2 .. delivered + 1 :
              /\ i - 1 \in DOMAIN sent
              /\ response[i].kind = "chunk" /\ Bytes(response[i]) = Bytes(sent[i - 1])
              /\ response[i].from = sent[i - 1].from /\ response[i].to = sent[i - 1].to
              /\ ~sent[i - 1].final => ~Ends(response[i])
<1>1. response[1].kind = "chunked" /\ response[1].from = 0 /\ response[1].to = 0
  BY DEF Chunks, Frame, Result
<1>2. ~Ends(response[1]) /\ Bytes(response[1]) = {}
  BY <1>1 DEF Ends, Bytes
<1>3. ASSUME NEW i \in 2 .. delivered + 1
      PROVE  /\ i - 1 \in DOMAIN sent
             /\ response[i].kind = "chunk" /\ Bytes(response[i]) = Bytes(sent[i - 1])
             /\ response[i].from = sent[i - 1].from /\ response[i].to = sent[i - 1].to
             /\ ~sent[i - 1].final => ~Ends(response[i])
  <2>1. i - 1 \in DOMAIN sent /\ i - 1 \in 1 .. delivered /\ sent[i - 1] \in Results /\ (i - 1) + 1 = i
    BY DEF TypeOK, NodeTypeOK, GwTypeOK
  <2>2. response[i] = Frame("chunk", sent[i - 1])
    BY <2>1 DEF Chunks
  <2>3. /\ response[i].kind = "chunk" /\ Bytes(response[i]) = Bytes(sent[i - 1])
        /\ response[i].from = sent[i - 1].from /\ response[i].to = sent[i - 1].to
    BY <2>1, <2>2, FrameType
  <2>4. ~sent[i - 1].final => sent[i - 1].from # sent[i - 1].to
    BY <2>1 DEF SentInv, Ordered, Results
  <2> QED
    BY <2>1, <2>3, <2>4 DEF Ends
<1> QED
  BY <1>1, <1>2, <1>3

\* Where a client stops reading, given n frames that do not end the response and
\* one that does, or none.
LEMMA ReadUpTo ==
  ASSUME TypeOK, NEW n \in Nat, n <= Len(response), \A i \in 1 .. n : ~Ends(response[i]),
         n = Len(response) \/ Ends(response[n + 1])
  PROVE  \E m \in Nat : /\ m <= Len(response) /\ (m = n \/ m = n + 1) /\ (m = n => n = Len(response))
                        /\ ReadFrames = SubSeq(response, 1, m)
<1> DEFINE First(i) == Ends(response[i]) /\ \A j \in 1 .. i - 1 : ~Ends(response[j])
<1>1. response \in Seq(Frames)
  BY DEF TypeOK, GwTypeOK
<1> HIDE DEF First
<1>2. CASE n = Len(response)
  <2>1. ~Complete
    BY <1>1, <1>2 DEF Complete
  <2> QED
    BY <1>1, <1>2, <2>1 DEF ReadFrames
<1>3. CASE n # Len(response)
  <2>1. n + 1 \in DOMAIN response /\ First(n + 1)
    <3>1. n + 1 \in DOMAIN response /\ (n + 1) - 1 = n
      BY <1>1, <1>3
    <3>2. Ends(response[n + 1]) /\ \A j \in 1 .. (n + 1) - 1 : ~Ends(response[j])
      BY <1>3, <3>1, ZenonT(60)
    <3> QED
      BY <3>1, <3>2, ZenonT(60) DEF First
  <2>2. \A i \in DOMAIN response : First(i) => i = n + 1
    <3> SUFFICES ASSUME NEW i \in DOMAIN response, First(i), i # n + 1
                 PROVE  FALSE
      OBVIOUS
    <3>1. i \in 1 .. n \/ n + 1 \in 1 .. i - 1
      BY <1>1
    <3> QED
      BY <1>3, <3>1, ZenonT(60) DEF First
  <2>3. Complete
    BY <2>1, ZenonT(60) DEF Complete, First
  <2>4. (CHOOSE i \in DOMAIN response : First(i)) = n + 1
    BY <2>1, <2>2, ZenonT(60)
  <2>5. ReadFrames = SubSeq(response, 1, n + 1)
    BY <2>3, <2>4, ZenonT(60) DEF ReadFrames, First
  <2>6. n + 1 \in Nat /\ n + 1 <= Len(response) /\ n + 1 # n
    BY <1>1, <2>1
  <2> QED
    BY <2>5, <2>6, ZenonT(60)
<1> QED
  BY <1>2, <1>3

\* A response of one frame, or none.
LEMMA ShortResponse ==
  ASSUME TypeOK, SentInv, delivered <= Len(sent), Silent \/ Failed \/ AtOnce
  PROVE  Framed(0, 0)
<1>0. sent \in Seq(Results) /\ delivered \in Nat
  BY DEF TypeOK, NodeTypeOK, GwTypeOK
<1>1. CASE Silent
  BY <1>1 DEF Silent, Framed
<1>2. CASE Failed
  <2> DEFINE f == Frame("error", Result(0, 0, TRUE))
  <2>1. f.kind = "error" /\ Bytes(f) = {} /\ Ends(f)
    BY DEF Frame, Result, Bytes, Ends
  <2> HIDE DEF f
  <2>2. response = <<f>> /\ delivered = 0
    BY <1>2 DEF Failed, f
  <2> QED
    BY <2>1, <2>2 DEF Framed
<1>3. CASE AtOnce
  <2> DEFINE f == Frame("length", sent[1])
  <2>1. response = <<f>> /\ delivered = 1
    BY <1>3 DEF AtOnce
  <2>2. sent[1] \in Results
    BY <1>0, <2>1
  <2>3. f.kind = "length" /\ Bytes(f) = Bytes(sent[1]) /\ Ends(f)
    BY <2>2, FrameType DEF Ends
  <2> HIDE DEF f
  <2> QED
    BY <2>1, <2>3 DEF Framed
<1> QED
  BY <1>1, <1>2, <1>3

\* A response in chunks.
LEMMA LongResponse ==
  ASSUME TypeOK, SentInv, delivered <= Len(sent), Streaming \/ Streamed
  PROVE  \E n \in Nat : Framed(n, 1)
<1> DEFINE d == delivered
           last == Frame("last", Result(0, 0, TRUE))
<1>0. sent \in Seq(Results) /\ d \in Nat /\ response \in Seq(Frames) /\ Len(response) \in Nat
  BY DEF TypeOK, NodeTypeOK, GwTypeOK
<1>1. /\ d > 0 /\ Chunks(d)
      /\ \/ Len(response) = d + 1 /\ \A i \in 1 .. d : ~sent[i].final
         \/ Len(response) = d + 2 /\ response[d + 2] = last
  <2>1. d > 0 \/ d > 1
    BY ZenonT(60) DEF Streaming, Streamed
  <2>2. /\ Chunks(d)
        /\ \/ Len(response) = d + 1 /\ \A i \in 1 .. d : ~sent[i].final
           \/ Len(response) = d + 2 /\ response[d + 2] = last
    BY ZenonT(60) DEF Streaming, Streamed
  <2>3. d > 0
    BY <1>0, <2>1
  <2> QED
    BY <2>2, <2>3, ZenonT(60)
<1>2. /\ response[1].kind = "chunked" /\ response[1].from = 0 /\ response[1].to = 0
      /\ ~Ends(response[1]) /\ Bytes(response[1]) = {}
      /\ \A i \in 2 .. d + 1 :
           /\ i - 1 \in DOMAIN sent
           /\ response[i].kind = "chunk" /\ Bytes(response[i]) = Bytes(sent[i - 1])
           /\ response[i].from = sent[i - 1].from /\ response[i].to = sent[i - 1].to
           /\ ~sent[i - 1].final => ~Ends(response[i])
  <2>1. Len(response) > delivered
    <3>1. d \in Nat /\ (Len(response) = d + 1 \/ Len(response) = d + 2)
      BY <1>0, <1>1, ZenonT(60)
    <3> QED
      BY <3>1
  <2> QED
    BY <1>1, <2>1, ChunkFrames
<1>3. last.kind = "last" /\ Bytes(last) = {} /\ Ends(last)
  BY DEF Frame, Result, Bytes, Ends
<1> HIDE DEF last, d
<1>4. \A i \in 1 .. Len(response) : i = 1 \/ i \in 2 .. d + 1 \/ (i = d + 2 /\ response[i] = last)
  BY <1>0, <1>1
<1>5. \A i \in DOMAIN response : response[i].kind \in {"length", "chunked", "error"} <=> i = 1
  BY <1>0, <1>2, <1>3, <1>4
<1>6. \A i, j \in DOMAIN response : i < j /\ Bytes(response[j]) # {} => response[i].to <= response[j].from
  <2> SUFFICES ASSUME NEW i \in DOMAIN response, NEW j \in DOMAIN response, i < j, Bytes(response[j]) # {}
               PROVE  response[i].to <= response[j].from
    OBVIOUS
  <2>1. i \in 1 .. Len(response) /\ j \in 1 .. Len(response)
    BY <1>0
  <2>2. j \in 2 .. d + 1
    BY <1>0, <1>2, <1>3, <1>4, <2>1
  <2>3. i = 1 \/ i \in 2 .. d + 1
    BY <1>0, <1>4, <2>1, <2>2
  <2>4. sent[j - 1] \in Results /\ j - 1 \in DOMAIN sent
    BY <1>0, <1>2, <2>2
  <2>5. CASE i = 1
    BY <1>2, <2>2, <2>4, <2>5 DEF Results
  <2>6. CASE i \in 2 .. d + 1
    <3>1. i - 1 \in DOMAIN sent /\ i - 1 < j - 1
      BY <1>0, <1>2, <2>1, <2>6
    <3>2. sent[i - 1].to <= sent[j - 1].from
      BY <2>4, <3>1 DEF SentInv, Ordered
    <3> QED
      BY <1>2, <2>2, <2>6, <3>2
  <2> QED
    BY <2>3, <2>5, <2>6
<1>7. \A i \in 1 .. d : i < d \/ ~sent[i].final => ~sent[i].final /\ ~Ends(response[i + 1])
  <2> SUFFICES ASSUME NEW i \in 1 .. d, i < d \/ ~sent[i].final
               PROVE  ~sent[i].final /\ ~Ends(response[i + 1])
    OBVIOUS
  <2>1. i \in DOMAIN sent /\ (i = Len(sent) => ~(i < d)) /\ i + 1 \in 2 .. d + 1 /\ (i + 1) - 1 = i
    BY <1>0 DEF d
  <2>2. ~sent[i].final
    BY <2>1 DEF SentInv, Ordered
  <2> QED
    BY <1>2, <2>1, <2>2
<1>8. /\ Len(response) >= d + 1
      /\ \A i \in 1 .. Len(response) : i - 1 \in 1 .. d \/ Bytes(response[i]) = {}
      /\ \A i \in 1 .. d : Bytes(response[i + 1]) = Bytes(sent[i])
  <2>1. Len(response) >= d + 1
    BY <1>0, <1>1
  <2>2. \A i \in 1 .. Len(response) : i - 1 \in 1 .. d \/ Bytes(response[i]) = {}
    BY <1>0, <1>2, <1>3, <1>4
  <2>3. \A i \in 1 .. d : i + 1 \in 2 .. d + 1 /\ (i + 1) - 1 = i
    BY <1>0
  <2> QED
    BY <1>2, <2>1, <2>2, <2>3, ZenonT(60)
<1>9. ASSUME NEW n \in Nat, n = d \/ n = d + 1, n = d + 1 => ~Ends(response[d + 1])
      PROVE  \A i \in 1 .. n : ~Ends(response[i])
  <2> SUFFICES ASSUME NEW i \in 1 .. n
               PROVE  ~Ends(response[i])
    OBVIOUS
  <2>1. i = 1 \/ (i - 1 \in 1 .. d /\ i - 1 < d /\ (i - 1) + 1 = i) \/ (i = d + 1 /\ n = d + 1)
    BY <1>0, <1>9
  <2> QED
    BY <1>2, <1>7, <1>9, <2>1, ZenonT(60)
<1>10. CASE Ends(response[d + 1])
  <2>1. Len(response) = d + 2 /\ response[d + 2] = last
    <3>1. d \in 1 .. d
      BY <1>0, <1>1
    <3> QED
      BY <1>1, <1>7, <1>10, <3>1, ZenonT(60)
  <2>2. \A i \in d + 2 .. Len(response) : Bytes(response[i]) = {}
    BY <1>0, <1>3, <2>1
  <2>3. d <= Len(response) /\ d + 1 # d
    BY <1>0, <2>1
  <2>4. \A i \in 1 .. d : ~Ends(response[i])
    BY <1>0, <1>9, <2>3
  <2>5. Framed(d, 1)
    BY <1>5, <1>6, <1>8, <1>10, <2>2, <2>3, <2>4, ZenonT(60) DEF Framed, d
  <2> QED
    BY <1>0, <2>5
<1>11. CASE ~Ends(response[d + 1])
  <2>1. d + 1 \in Nat /\ d + 1 <= Len(response) /\ \A i \in (d + 1) + 2 .. Len(response) : FALSE
    BY <1>0, <1>1
  <2>2. \A i \in 1 .. d + 1 : ~Ends(response[i])
    BY <1>9, <1>11, <2>1
  <2>3. d + 1 = Len(response) \/ Ends(response[(d + 1) + 1])
    BY <1>0, <1>1, <1>3
  <2>4. Framed(d + 1, 1)
    BY <1>5, <1>6, <1>8, <2>1, <2>2, <2>3, ZenonT(60) DEF Framed, d
  <2> QED
    BY <2>1, <2>4
<1> QED
  BY <1>10, <1>11

\* What the client reads, given the frames of the response.
LEMMA ReadsResults ==
  ASSUME TypeOK, NEW n \in Nat, NEW k \in {0, 1}, Framed(n, k)
  PROVE  /\ \A i, j \in DOMAIN ReadFrames :
              i < j /\ Bytes(ReadFrames[j]) # {} => ReadFrames[i].to <= ReadFrames[j].from
         /\ ReadBytes = SentBytes(delivered)
<1>0. response \in Seq(Frames) /\ delivered \in Nat
  BY DEF TypeOK, GwTypeOK
<1>1. PICK m \in Nat : /\ m <= Len(response) /\ (m = n \/ m = n + 1) /\ (m = n => n = Len(response))
                       /\ ReadFrames = SubSeq(response, 1, m)
  BY ReadUpTo, ZenonT(60) DEF Framed
<1>2. /\ DOMAIN ReadFrames = 1 .. m
      /\ \A i \in 1 .. m : ReadFrames[i] = response[i] /\ i \in DOMAIN response /\ i \in 1 .. Len(response)
  BY <1>0, <1>1
<1>3. \A i, j \in DOMAIN ReadFrames :
        i < j /\ Bytes(ReadFrames[j]) # {} => ReadFrames[i].to <= ReadFrames[j].from
  BY <1>2, ZenonT(60) DEF Framed
<1>4. \A i \in 1 .. Len(response) : i \in 1 .. m \/ i \in n + 2 .. Len(response)
  BY <1>0, <1>1
<1>5. \A i \in 1 .. Len(response) : i \in 1 .. m \/ Bytes(response[i]) = {}
  BY <1>4, ZenonT(60) DEF Framed
<1>6. ASSUME NEW x \in ReadBytes
      PROVE  x \in SentBytes(delivered)
  <2>1. PICK i \in 1 .. m : x \in Bytes(response[i])
    BY <1>2, <1>6, ZenonT(60) DEF ReadBytes, Range
  <2>2. i - k \in 1 .. delivered
    BY <1>2, <2>1, ZenonT(60) DEF Framed
  <2>3. (i - k) + k = i
    BY <1>1
  <2>4. x \in Bytes(sent[i - k])
    BY <2>1, <2>2, <2>3, ZenonT(60) DEF Framed
  <2> QED
    BY <2>2, <2>4, ZenonT(60) DEF SentBytes
<1>7. ASSUME NEW x \in SentBytes(delivered)
      PROVE  x \in ReadBytes
  <2>1. PICK i \in 1 .. delivered : x \in Bytes(sent[i])
    BY <1>7, ZenonT(60) DEF SentBytes
  <2>2. Len(response) >= delivered + k
    BY DEF Framed
  <2>3. i + k \in 1 .. Len(response)
    BY <1>0, <2>2
  <2>4. x \in Bytes(response[i + k])
    BY <2>1, ZenonT(60) DEF Framed
  <2>5. i + k \in DOMAIN ReadFrames /\ ReadFrames[i + k] = response[i + k]
    BY <1>2, <1>5, <2>3, <2>4, ZenonT(60)
  <2> QED
    BY <2>4, <2>5, ZenonT(60) DEF ReadBytes, Range
<1> QED
  BY <1>3, <1>6, <1>7, ZenonT(60)

\* The response a client reads is what the handled results carried, in order, and
\* it ends when they end.
THEOREM ResponseExact == Spec => []ResponseIsResults
<1>1. ASSUME IInv
      PROVE  ResponseIsResults
  <2>0. TypeOK /\ SentInv /\ GwInv /\ delivered \in Nat /\ framer \in {"idle", "chunked", "done"}
    BY <1>1 DEF IInv, TypeOK, GwTypeOK
  <2>1. /\ \A i \in DOMAIN sent : sent[i].final => i = Len(sent)
        /\ "exit" \in done /\ active => sent # <<>> /\ sent[Len(sent)].final
    BY <2>0, ZenonT(60) DEF SentInv, Ordered
  <2>2. delivered <= Len(sent) /\ (Silent \/ Failed \/ AtOnce \/ Streaming \/ Streamed)
    BY <2>0, ZenonT(60) DEF GwInv
  <2>3. PICK n \in Nat, k \in {0, 1} : Framed(n, k)
    <3>1. 0 \in Nat /\ 0 \in {0, 1} /\ 1 \in {0, 1}
      OBVIOUS
    <3> QED
      BY <2>0, <2>2, <3>1, ShortResponse, LongResponse, ZenonT(60)
  <2>4. \A i \in DOMAIN response : response[i].kind \in {"length", "chunked", "error"} <=> i = 1
    BY <2>3, ZenonT(60) DEF Framed
  <2>5. ASSUME delivered > 0, sent[delivered].final
        PROVE  response[Len(response)].kind \in {"length", "last"}
    <3>1. CASE Silent \/ Failed
      <4>1. delivered = 0
        BY <3>1, ZenonT(60) DEF Silent, Failed
      <4> QED
        BY <2>5, <4>1
    <3>2. CASE AtOnce
      <4>1. response[Len(response)] = Frame("length", sent[1])
        BY <3>2 DEF AtOnce
      <4> QED
        BY <4>1 DEF Frame
    <3>3. CASE Streaming
      <4>1. delivered \in 1 .. delivered
        BY <2>0, <2>5
      <4> QED
        BY <2>5, <3>3, <4>1, ZenonT(60) DEF Streaming
    <3>4. CASE Streamed
      <4>1. response[Len(response)] = Frame("last", Result(0, 0, TRUE))
        BY <3>4, ZenonT(60) DEF Streamed
      <4> QED
        BY <4>1 DEF Frame
    <3> QED
      BY <2>2, <3>1, <3>2, <3>3, <3>4
  <2>6. /\ \A i, j \in DOMAIN ReadFrames :
             i < j /\ Bytes(ReadFrames[j]) # {} => ReadFrames[i].to <= ReadFrames[j].from
        /\ ReadBytes = SentBytes(delivered)
    BY <2>0, <2>3, ReadsResults
  <2> QED
    BY <2>1, <2>4, <2>5, <2>6, ZenonT(60) DEF ResponseIsResults
<1> QED
  BY <1>1, Invariance, PTL

==============================================================================
