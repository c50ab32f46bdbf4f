--------------------------- MODULE PipedExecutable ---------------------------
(***************************************************************************)
(* One task of the piped_executable handler: a ChildProcess with four      *)
(* operations in the ring (stdin write, stdout read, stderr read, exit     *)
(* poll), whose completions drive its results and its own destruction.     *)
(*                                                                         *)
(* Output is abstracted to positions: the bytes of standard output are     *)
(* 1 .. written, and a result carries those of from + 1 .. to.  Standard   *)
(* error is only logged, so a read of it has an outcome and no bytes.      *)
(* `killed' is the SIGKILL that a lost gateway link makes the node send.   *)
(***************************************************************************)
EXTENDS Integers, Sequences, FiniteSets, FiniteSetsExt

CONSTANTS MaxOutput,     \* bound: bytes the program and its descendants write
          MaxInput,      \* bound: pieces of the task body written to stdin
          BufferSize     \* bytes one read of standard output returns at most

ASSUME BoundsAssumption ==
  /\ MaxOutput \in Nat /\ MaxInput \in Nat
  /\ BufferSize \in Nat \ {0}

VARIABLES
  program,    \* "none", "running" or "exited"
  held,       \* a descendant still holds the program's end of the pipes
  killed,     \* the program was sent SIGKILL
  written,    \* bytes written to the standard output pipe
  atExit,     \* the value of written when the program exited
  taken,      \* bytes read out of that pipe
  stdinLeft,  \* what remains of stdin_body_
  op,         \* where each of the four operations is
  cq,         \* completions the loop has not served, oldest first
  done,       \* the *_done_ flags; "exit" is poll_fired_
  child,      \* "none", "live", "teardown" (command submitted), "destroyed"
  active,     \* the mailbox of the gateway link is active
  sent,       \* every result handed to the link, in order
  raced       \* bytes of a read completed behind the exit poll

childVars == <<stdinLeft, op, cq, done, child, sent, raced>>
programVars == <<program, held, written, atExit>>
nodeVars == <<childVars, programVars, killed, taken, active>>

Tags == {"stdin", "stdout", "stderr", "exit"}
Bytes(r) == (r.from + 1) .. r.to

InitNode ==
  /\ program = "none" /\ held = FALSE /\ killed = FALSE
  /\ written = 0 /\ atExit = 0 /\ taken = 0 /\ stdinLeft = 0
  /\ op = [t \in Tags |-> "idle"] /\ cq = <<>> /\ done = {}
  /\ child = "none" /\ active = TRUE /\ sent = <<>> /\ raced = {}

(***************************************************************************)
(* ConnectionResultSender::Send: a mailbox that was closed drops the frame *)
(***************************************************************************)
Sending(r) == IF active THEN Append(sent, r) ELSE sent

Result(from, to, final) == [from |-> from, to |-> to, final |-> final]

\* PipedExecutableTaskHandler::HandleTask on a path that starts no program: no
\* function, unresolved, or the constructor fails.  One empty final result.
Refuse ==
  /\ child = "none" /\ sent = <<>>
  /\ sent' = Sending(Result(0, 0, TRUE))
  /\ child' = "destroyed"
  /\ UNCHANGED <<stdinLeft, op, cq, done, raced, programVars, killed, taken, active>>

\* The same, with a program: Start queues the operations and registers the
\* close callback, which runs at once on a mailbox that is already closed.
HandleTask ==
  /\ child = "none" /\ sent = <<>>
  /\ child' = "live" /\ program' = "running"
  /\ stdinLeft' \in 0 .. MaxInput
  /\ done' = IF stdinLeft' = 0 THEN {"stdin"} ELSE {}
  /\ op' = [t \in Tags |-> IF t \in done' THEN "idle" ELSE "prepared"]
  /\ killed' = ~active
  /\ UNCHANGED <<cq, sent, raced, held, written, atExit, taken, active>>

(***************************************************************************)
(* The program and the processes it leaves behind.                         *)
(***************************************************************************)
Writes ==
  /\ program = "running" \/ held
  /\ written < MaxOutput
  /\ written' = written + 1
  /\ UNCHANGED <<childVars, program, held, atExit, killed, taken, active>>

Exits ==
  /\ program = "running"
  /\ program' = "exited" /\ atExit' = written
  /\ held' \in BOOLEAN
  /\ UNCHANGED <<childVars, written, killed, taken, active>>

DescendantsExit ==
  /\ held /\ held' = FALSE
  /\ UNCHANGED <<childVars, program, written, atExit, killed, taken, active>>

WriteEndOpen == program = "running" \/ held

(***************************************************************************)
(* The ring.  DispatcherImpl::Run submits what is prepared once it has     *)
(* served the completions and the commands; the kernel then completes the  *)
(* operations in any order.                                                *)
(***************************************************************************)
Submit ==
  /\ cq = <<>> /\ child # "teardown"
  /\ \E t \in Tags : op[t] = "prepared"
  /\ op' = [t \in Tags |-> IF op[t] = "prepared" THEN "armed" ELSE op[t]]
  /\ UNCHANGED <<stdinLeft, cq, done, child, sent, raced, programVars, killed, taken, active>>

Post(t, res, at) ==
  /\ op[t] = "armed"
  /\ op' = [op EXCEPT ![t] = "idle"]
  /\ cq' = Append(cq, [tag |-> t, res |-> res, at |-> at])
  /\ UNCHANGED <<stdinLeft, done, child, sent, raced, programVars, killed, active>>

PostStdin ==
  /\ \/ WriteEndOpen /\ \E n \in 1 .. stdinLeft : Post("stdin", n, 0)
     \/ Post("stdin", -1, 0)
  /\ UNCHANGED taken

PostStdout ==
  \/ \E n \in 1 .. Min({BufferSize, written - taken}) :
       Post("stdout", n, taken) /\ taken' = taken + n
  \/ /\ written = taken
     /\ Post("stdout", IF WriteEndOpen THEN -1 ELSE 0, taken)
     /\ UNCHANGED taken

PostStderr ==
  /\ IF WriteEndOpen THEN \E n \in {1, -1} : Post("stderr", n, 0) ELSE Post("stderr", 0, 0)
  /\ UNCHANGED taken

PostExit == program = "exited" /\ Post("exit", 1, 0) /\ UNCHANGED taken

(***************************************************************************)
(* ChildProcess: the handlers of the four completions.  On a read, -1 is   *)
(* -EAGAIN; a pipe has no other read error.                                *)
(***************************************************************************)
\* A teardown that does not wait for standard error.
MaybeFinishWithoutStderr(d) ==
  child' = IF child = "live" /\ {"stdin", "stdout", "exit"} \subseteq d THEN "teardown" ELSE child

\* maybeFinish: the deferred delete is submitted once, by whichever is last.
MaybeFinish(d) ==
  child' = IF child = "live" /\ d = Tags THEN "teardown" ELSE child

Prepare(t) == op' = [op EXCEPT ![t] = "prepared"]

Stop(t) == done' = done \union {t} /\ MaybeFinish(done') /\ UNCHANGED op

HandleStdinWrite(c) ==
  /\ IF c.res > 0 /\ stdinLeft > c.res
     THEN Prepare("stdin") /\ UNCHANGED <<done, child>>
     ELSE Stop("stdin")
  /\ stdinLeft' = IF c.res > 0 THEN stdinLeft - c.res ELSE stdinLeft
  /\ UNCHANGED <<sent, raced, taken>>

HandleStdoutRead(c) ==
  LET streams == c.res > 0 /\ "exit" \notin done IN
  /\ IF streams \/ c.res < 0
     THEN Prepare("stdout") /\ UNCHANGED <<done, child>>
     ELSE Stop("stdout")
  /\ sent' = IF streams THEN Sending(Result(c.at, c.at + c.res, FALSE)) ELSE sent
  /\ UNCHANGED <<stdinLeft, raced, taken>>

HandleStderrRead(c) ==
  /\ IF (c.res > 0 /\ "exit" \notin done) \/ c.res < 0
     THEN Prepare("stderr") /\ UNCHANGED <<done, child>>
     ELSE Stop("stderr")
  /\ UNCHANGED <<stdinLeft, sent, raced, taken>>

\* An exit that reports one more buffer of output, not all that is left.
DrainOnce == IF "stdout" \in done THEN taken ELSE Min({written, taken + BufferSize})

\* drainOutput: everything in the pipe, unless its end of file was seen and
\* the descriptor closed.
DrainOutput == IF "stdout" \in done THEN taken ELSE written

HandleExitPoll(c) ==
  /\ taken' = DrainOutput
  /\ sent' = Sending(Result(taken, DrainOutput, TRUE))
  /\ raced' = UNION {Bytes([from |-> e.at, to |-> e.at + e.res]) :
                       e \in {e \in Range(Tail(cq)) : e.tag = "stdout" /\ e.res > 0}}
  /\ Stop("exit")
  /\ UNCHANGED stdinLeft

\* DispatcherImpl::Run serves the oldest completion.
HandleCompletion ==
  /\ cq # <<>> /\ cq' = Tail(cq)
  /\ LET c == Head(cq) IN
       \/ c.tag = "stdin"  /\ HandleStdinWrite(c)
       \/ c.tag = "stdout" /\ HandleStdoutRead(c)
       \/ c.tag = "stderr" /\ HandleStderrRead(c)
       \/ c.tag = "exit"   /\ HandleExitPoll(c)
  /\ UNCHANGED <<programVars, killed, active>>

\* PipedExecutableTaskHandler::ProcessCommand
ProcessCommand ==
  /\ child = "teardown" /\ cq = <<>>
  /\ child' = "destroyed"
  /\ UNCHANGED <<stdinLeft, op, cq, done, sent, raced, programVars, killed, taken, active>>

\* A closed mailbox that drops what is sent but calls nobody back.
CloseSilently ==
  /\ active /\ active' = FALSE
  /\ UNCHANGED <<childVars, programVars, killed, taken>>

\* OutboundMailbox::Close, and handleConnectionClosed of a child still
\* registered that has not reaped its program.
Close ==
  /\ active /\ active' = FALSE
  /\ killed' = (killed \/ (child = "live" /\ "exit" \notin done))
  /\ UNCHANGED <<childVars, programVars, taken>>

NodeSteps ==
  \/ HandleTask \/ Refuse \/ HandleCompletion \/ ProcessCommand
  \/ Writes \/ Exits \/ DescendantsExit
  \/ Submit \/ PostStdin \/ PostStdout \/ PostStderr \/ PostExit

\* The loop never stops serving, the kernel completes what can complete, a
\* killed program exits and descendants end.  A program that is not killed may
\* run for ever.
NodeFairness ==
  /\ WF_nodeVars(HandleCompletion) /\ WF_nodeVars(ProcessCommand) /\ WF_nodeVars(Submit)
  /\ WF_nodeVars(~WriteEndOpen /\ PostStdin)
  /\ WF_nodeVars(~WriteEndOpen /\ PostStdout)
  /\ WF_nodeVars(~WriteEndOpen /\ PostStderr)
  /\ WF_nodeVars(PostExit)
  /\ WF_nodeVars(killed /\ Exits) /\ WF_nodeVars(DescendantsExit)
==============================================================================
