--------------------------- MODULE WorkflowFrames ---------------------------
(****************************************************************************)
(* The frame tree a workflow run advances (openworkflow/frame.cc) and the   *)
(* effects the interpreter lends its frames (the FrameContext part of       *)
(* openworkflow/interpreter.cc).  Advancing is one synchronous call that    *)
(* walks the tree, so it is written as operators on the state of the run;   *)
(* WorkflowInterpreter holds the actions.                                   *)
(*                                                                          *)
(* A document is [steps, out]: steps maps the name of a sequence (the body  *)
(* of the document, of a do, of a for, a branch of a fork) to its steps.    *)
(* At most one frame is live per sequence and per container step, so frames *)
(* are identified by the name of the sequence, or of the fork or for step.  *)
(*                                                                          *)
(* A value is [json, v]: whether it is JSON, and the trail of the steps     *)
(* that produced it.  What an expression computes is left to the document:  *)
(* a slot is "none", "literal", "expr" (needs a JSON subject), "error"      *)
(* (fails when evaluated) or "malformed" (rejected by validation).          *)
(****************************************************************************)
EXTENDS Integers, Sequences, SequencesExt, FiniteSetsExt, TLC

CONSTANTS
  TransitionBudget,   \* kDefaultSynchronousTransitionBudget
  IterationBudget     \* kDefaultSynchronousIterationBudget

None == "none"
NoValue == [json |-> FALSE, v |-> <<>>]
Json(v) == [json |-> TRUE, v |-> v]

\* FrameResult; "none" is an empty optional<FrameResult>.
Result(k, value) == [k |-> k, value |-> value]
NoResult == Result(None, NoValue)
Suspended == Result("suspended", NoValue)
Failed(step) == Result("failed", [json |-> FALSE, v |-> <<step>>])

NoFrame == [state |-> None, cursor |-> 1, data |-> NoValue, input |-> NoValue, child |-> None,
            waiting |-> 0, result |-> NoResult, failed |-> None, next |-> 0, started |-> FALSE,
            results |-> <<>>]

Terminal(fr) == fr.state \in {"completed", "failed", "abandoned"}

-----------------------------------------------------------------------------
(* The document. *)

Containers == {"do", "fork", "for"}

Steps(d) == UNION {Range(d.steps[s]) : s \in DOMAIN d.steps}

StepNamed(d, n) == CHOOSE st \in Steps(d) : st.name = n

IsSequence(d, f) == f \in DOMAIN d.steps

\* The frame a container step materializes.
ContainerFrame(st) == IF st.kind = "do" THEN st.sub[1] ELSE st.name

FrameIds(d) == DOMAIN d.steps \union {st.name : st \in {u \in Steps(d) : u.kind \in {"fork", "for"}}}

\* A frame and all the frames below it.
RECURSIVE Below(_, _)
Below(d, f) ==
  {f} \union
    IF IsSequence(d, f)
      THEN UNION {Below(d, ContainerFrame(st)) : st \in {u \in Range(d.steps[f]) : u.kind \in Containers}}
      ELSE UNION {Below(d, s) : s \in Range(StepNamed(d, f).sub)}

\* ResolveFlowDirective: the index to go to, or what else to do.
Targets(steps, then) == {i \in DOMAIN steps : steps[i].name = then}
ResolveFlowDirective(steps, then) ==
  IF then \in {"continue", "exit", "end"} THEN [kind |-> then, target |-> 0]
  ELSE IF Cardinality(Targets(steps, then)) = 1
    THEN [kind |-> "jump", target |-> CHOOSE i \in Targets(steps, then) : TRUE]
    ELSE [kind |-> "error", target |-> 0]

SlotFails(slot, subject) == slot = "error" \/ (slot = "expr" /\ ~subject.json)

-----------------------------------------------------------------------------
(* The state of a run: [doc, world, state, frames, owner, pending, ctx,     *)
(* kids, result, reports, bad].  kids[c] is the child task or nested run    *)
(* with id c; world says which children fail and which answer at once; bad  *)
(* records a failed assert() or the use of a frame that is gone.            *)

Frame(e, f) == e.frames[f]
SetFrame(e, f, fr) == [e EXCEPT !.frames[f] = fr]

\* Frame::mark*: every transition out of a state that is not active is a
\* programmer error.
Mark(e, f, state) ==
  [e EXCEPT !.frames[f].state = state, !.bad = @ \/ Frame(e, f).state # "active"]

Fail(e, f, step) ==
  [e |-> [Mark(e, f, "failed") EXCEPT !.frames[f].failed = step], r |-> Failed(step)]

Enter(e, f, data) == SetFrame(e, f, [NoFrame EXCEPT !.state = "active", !.data = data])

Destroy(e, f) ==
  [e EXCEPT !.frames = [g \in DOMAIN @ |-> IF g \in Below(e.doc, f) THEN NoFrame ELSE @[g]]]

Forget(e, c) == [e EXCEPT !.owner = [d \in DOMAIN @ \ {c} |-> @[d]]]

\* Abandon: forgets the children the subtree waits for; destroys nothing.
RECURSIVE Abandon(_, _)
AbandonBranches(e, st) == FoldLeft(LAMBDA x, s : Abandon(x, s), e, st.sub)

\* Faulty: the frame is abandoned, its child is not forgotten.
AbandonShallow(e, f) == IF Terminal(Frame(e, f)) THEN e ELSE Mark(e, f, "abandoned")

Abandon(e, f) ==
  LET fr == Frame(e, f)
      e1 == Mark(IF fr.waiting # 0 THEN Forget(e, fr.waiting) ELSE e, f, "abandoned")
      e2 == [e1 EXCEPT !.frames[f].waiting = 0]
  IN  IF fr.state = None \/ Terminal(fr) THEN e
      ELSE IF ~IsSequence(e.doc, f) THEN AbandonBranches(e2, StepNamed(e.doc, f))
      ELSE IF fr.child # None THEN Abandon(e2, fr.child) ELSE e2

-----------------------------------------------------------------------------
(* A completed step: output.as, export.as, then the flow directive. *)

ApplyFlowDirective(e, s, st, then) ==
  LET dir == ResolveFlowDirective(e.doc.steps[s], then)
      Pending(k) == [Mark(e, s, "completed") EXCEPT !.frames[s].result = Result(k, Frame(e, s).data)]
  IN  CASE dir.kind = "continue" -> [e |-> [e EXCEPT !.frames[s].cursor = @ + 1], r |-> NoResult]
        [] dir.kind = "jump" -> [e |-> [e EXCEPT !.frames[s].cursor = dir.target], r |-> NoResult]
        [] dir.kind = "exit" -> [e |-> Pending("completed"), r |-> NoResult]
        [] dir.kind = "end" -> [e |-> Pending("ended"), r |-> NoResult]
        [] OTHER -> [Fail(e, s, st.name) EXCEPT !.e.bad = TRUE]

TransformTaskOutput(st, raw) == IF st.as = None THEN raw ELSE Json(Append(raw.v, "as"))

SlotsFail(st, input, raw) ==
  \/ st.as # None /\ (st.as = "error" \/ ~input.json \/ ~raw.json)
  \/ st.export # None /\
       (st.export = "error" \/ ~input.json \/ ~TransformTaskOutput(st, raw).json)

ApplyCompletedStep(e, s, st, raw, then) ==
  IF SlotsFail(st, Frame(e, s).input, raw) THEN Fail(e, s, st.name)
  ELSE ApplyFlowDirective(
         [e EXCEPT !.frames[s].data = TransformTaskOutput(st, raw),
                   !.frames[s].input = NoValue,
                   !.ctx = @ \/ st.export # None],
         s, st, then)

\* SequenceFrame::ApplyOutcome, with the frame an owner entry leads to.
ApplyOutcome(e, c, s) ==
  LET fr == Frame(e, s)
      st == e.doc.steps[s][fr.cursor]
      e1 == [e EXCEPT !.frames[s].waiting = 0]
      out == [json |-> ~st.opaque, v |-> Append(fr.input.v, st.name)]
  IN  IF fr.state # "active" \/ fr.waiting # c THEN [e EXCEPT !.bad = TRUE]
      ELSE IF e.kids[c].name \in e.world.fails THEN Fail(e1, s, st.name).e
      ELSE ApplyCompletedStep(e1, s, st, out, st.then).e

-----------------------------------------------------------------------------
(* ExecuteCall and ExecuteRun: the sequence is suspended under a fresh id   *)
(* before the child starts, since the child may answer before Submit        *)
(* returns; Submit may also bring the outcomes of other children.           *)

Kid(st, kind) == [name |-> st.name, kind |-> kind, status |-> "out"]

Arrived(e, cs) ==
  [e EXCEPT !.kids = [c \in DOMAIN @ |-> IF c \in cs THEN [@[c] EXCEPT !.status = "done"] ELSE @[c]],
            !.pending = @ \union (cs \intersect DOMAIN e.owner)]

\* The outcomes that reach OnChildOutcome while the child is being submitted.
Inline(e, c) ==
  IF e.kids[c].name \notin e.world.inline THEN {}
  ELSE {c} \union IF e.world.flush THEN {d \in DOMAIN e.kids : e.kids[d].status = "out"} ELSE {}

DrainOwn(e, c, s) ==
  IF c \in e.pending
    THEN ApplyOutcome(Forget([e EXCEPT !.pending = @ \ {c}], c), c, s)
    ELSE e

SubmitChild(e, s, st) ==
  LET c == Len(e.kids) + 1
      e1 == [e EXCEPT !.kids = Append(@, Kid(st, st.kind)),
                      !.frames[s].waiting = c,
                      !.owner = (c :> s) @@ @]
  IN  DrainOwn(Arrived(e1, Inline(e1, c)), c, s)

\* What advanceCall and advanceRun make of the frame afterwards.
AfterStart(e, s) ==
  [e |-> e,
   r |-> IF Frame(e, s).failed # None THEN Failed(Frame(e, s).failed)
         ELSE IF Frame(e, s).waiting # 0 THEN Suspended ELSE NoResult]

AdvanceCall(e, s, st) ==
  IF SlotFails(st.slot, Frame(e, s).input) THEN Fail(e, s, st.name)
                                           ELSE AfterStart(SubmitChild(e, s, st), s)

\* An embedded definition that cannot be extracted, or is nested too deep, is
\* the step's own failure.
AdvanceRun(e, s, st) ==
  IF st.slot = "error" THEN Fail(e, s, st.name)
  ELSE IF st.await THEN AfterStart(SubmitChild(e, s, st), s)
  ELSE ApplyCompletedStep([e EXCEPT !.kids = Append(@, Kid(st, "detached"))],
                          s, st, Frame(e, s).input, st.then)

-----------------------------------------------------------------------------
(* Advance.  Each operator returns the new state e and the FrameResult r. *)

RECURSIVE AdvanceSequence(_, _), Loop(_, _, _), AdvanceFork(_, _, _), ForLoop(_, _, _)

Return(e, k, value) == [e |-> e, r |-> Result(k, value)]

\* Every branch has its result, or the first that is not JSON fails the join.
JoinAll(e, f) ==
  LET st == StepNamed(e.doc, f)
      rs == Frame(e, f).results
      opaque == {i \in DOMAIN rs : ~rs[i].value.json}
  IN  IF opaque # {}
        THEN [Fail(e, f, st.name) EXCEPT !.e = AbandonBranches(@, st)]
        ELSE Return(Mark(e, f, "completed"), "completed",
                    Json(<<"[">> \o FlattenSeq([i \in DOMAIN rs |-> rs[i].value.v]) \o <<"]">>))

\* ForkFrame::Advance from branch i on.
AdvanceFork(e, f, i) ==
  LET st == StepNamed(e.doc, f)
      fr == Frame(e, f)
      b == AdvanceSequence(e, st.sub[i])
      Decide(e1, state) == AbandonBranches(Mark(e1, f, state), st)
  IN  IF fr.state = "abandoned" THEN [e |-> e, r |-> Suspended]
      ELSE IF fr.state # "active" THEN [e |-> [e EXCEPT !.bad = TRUE], r |-> Suspended]
      ELSE IF i > Len(st.sub) THEN
        IF st.compete \/ \E j \in DOMAIN fr.results : fr.results[j].k = None
          THEN [e |-> e, r |-> Suspended]
          ELSE JoinAll(e, f)
      ELSE IF fr.results[i].k # None THEN AdvanceFork(e, f, i + 1)
      ELSE CASE b.r.k = "suspended" -> AdvanceFork(b.e, f, i + 1)
             [] b.r.k = "ended" -> [e |-> Decide(b.e, "completed"), r |-> b.r]
             [] b.r.k = "failed" -> [e |-> Decide(b.e, "failed"), r |-> b.r]
             [] b.r.k = "completed" /\ st.compete -> [e |-> Decide(b.e, "completed"), r |-> b.r]
             [] OTHER -> AdvanceFork([b.e EXCEPT !.frames[f].results[i] = b.r], f, i + 1)

\* The loop of ForFrame::Advance, n iterations into the synchronous stretch.
ForLoop(e, f, n) ==
  LET st == StepNamed(e.doc, f)
      body == st.sub[1]
      b == AdvanceSequence(e, body)
      done == Destroy([b.e EXCEPT !.frames[f].data = b.r.value], body)
      Begin(x) ==
        IF Frame(x, f).next >= st.items
          THEN Return(Mark(x, f, "completed"), "completed", Frame(x, f).data)
        ELSE IF n + 1 > IterationBudget THEN Fail(x, f, st.name)
        ELSE ForLoop(Enter([x EXCEPT !.frames[f].next = @ + 1], body, Frame(x, f).data), f, n + 1)
  IN  IF Frame(e, body).state = None THEN Begin(e)
      ELSE CASE b.r.k = "suspended" -> b
             [] b.r.k = "failed" -> [Fail(b.e, f, b.r.value.v[1]) EXCEPT !.r = b.r]
             [] b.r.k = "ended" -> [e |-> Mark(Destroy(b.e, body), f, "completed"), r |-> b.r]
             [] OTHER ->
                  IF st.while # None /\ (st.while = "error" \/ ~b.r.value.json)
                    THEN Fail(done, f, st.name)
                  ELSE IF st.while = "no"
                    THEN Return(Mark(done, f, "completed"), "completed", b.r.value)
                    ELSE Begin(done)

AdvanceFor(e, f) ==
  LET fr == Frame(e, f)
      st == StepNamed(e.doc, f)
  IN  IF fr.state = "abandoned" THEN [e |-> e, r |-> Suspended]
      ELSE IF fr.failed # None THEN [e |-> e, r |-> Failed(fr.failed)]
      ELSE IF fr.state # "active" THEN [e |-> [e EXCEPT !.bad = TRUE], r |-> Suspended]
      ELSE IF ~fr.started /\ SlotFails(st.slot, fr.data) THEN Fail(e, f, st.name)
      ELSE ForLoop([e EXCEPT !.frames[f].started = TRUE], f, 0)

AdvanceFrame(e, f) ==
  IF IsSequence(e.doc, f) THEN AdvanceSequence(e, f)
  ELSE IF StepNamed(e.doc, f).kind = "fork" THEN AdvanceFork(e, f, 1) ELSE AdvanceFor(e, f)

\* materializeChild; ForkFrame::Enter enters every branch.
MaterializeChild(e, s, st) ==
  LET f == ContainerFrame(st)
      data == Frame(e, s).input
      e1 == Enter([e EXCEPT !.frames[s].child = f], f, data)
  IN  IF st.kind = "fork"
        THEN FoldLeft(LAMBDA x, b : Enter(x, b, data),
                      [e1 EXCEPT !.frames[f].results = [i \in DOMAIN st.sub |-> NoResult]], st.sub)
        ELSE e1

\* Faulty: an ended child is taken for a completed one.
AdvanceContainerIgnoresEnd(e, s, st) ==
  LET e1 == IF Frame(e, s).child = None THEN MaterializeChild(e, s, st) ELSE e
      f == Frame(e1, s).child
      b == AdvanceFrame(e1, f)
  IN  CASE b.r.k = "failed" -> [Fail(b.e, s, b.r.value.v[1]) EXCEPT !.r = b.r]
        [] b.r.k = "suspended" -> b
        [] OTHER -> ApplyCompletedStep([Destroy(b.e, f) EXCEPT !.frames[s].child = None],
                                       s, st, b.r.value, st.then)

\* A failed child is kept; an ended one skips this step's output and export.
AdvanceContainer(e, s, st) ==
  LET e1 == IF Frame(e, s).child = None THEN MaterializeChild(e, s, st) ELSE e
      f == Frame(e1, s).child
      b == AdvanceFrame(e1, f)
  IN  CASE b.r.k = "failed" -> [Fail(b.e, s, b.r.value.v[1]) EXCEPT !.r = b.r]
        [] b.r.k \in {"suspended", "ended"} -> b
        [] OTHER -> ApplyCompletedStep([Destroy(b.e, f) EXCEPT !.frames[s].child = None],
                                       s, st, b.r.value, st.then)

\* set, switch and what the slice does not support.
AdvanceLocal(e, s, st) ==
  LET input == Frame(e, s).input
  IN  CASE st.kind = "set" ->
             ApplyCompletedStep(e, s, st, Json(IF st.slot = "expr" THEN Append(input.v, st.name)
                                                                    ELSE <<st.name>>), st.then)
        [] st.kind = "switch" ->
             ApplyCompletedStep(e, s, st, input, IF st.pick = None THEN st.then ELSE st.pick)
        [] OTHER -> [Fail(e, s, st.name) EXCEPT !.e.bad = TRUE]

AdvanceBody(e, s, st) ==
  CASE st.kind = "call" -> AdvanceCall(e, s, st)
    [] st.kind = "run" -> AdvanceRun(e, s, st)
    [] st.kind \in Containers -> AdvanceContainer(e, s, st)
    [] OTHER -> IF SlotFails(st.slot, Frame(e, s).input) THEN Fail(e, s, st.name)
                                                        ELSE AdvanceLocal(e, s, st)

\* EvaluateCondition: "ctx" is a condition that holds until the context is exported.
Condition(e, st) == st.cond \in {None, "yes"} \/ (st.cond = "ctx" /\ ~e.ctx)
ConditionFails(st, data) == st.cond # None /\ (st.cond = "error" \/ ~data.json)

TransformTaskInput(st, data) ==
  CASE st.from = None -> data
    [] st.from = "literal" -> Json(<<"from">>)
    [] OTHER -> Json(Append(data.v, "from"))

\* The while loop of SequenceFrame::Advance, n steps into the synchronous stretch.
Loop(e, s, n) ==
  LET fr == Frame(e, s)
      st == e.doc.steps[s][fr.cursor]
      b == AdvanceBody([e EXCEPT !.frames[s].input = TransformTaskInput(st, fr.data)], s, st)
  IN  IF fr.cursor > Len(e.doc.steps[s]) THEN Return(Mark(e, s, "completed"), "completed", fr.data)
      ELSE IF fr.result.k # None THEN [e |-> [e EXCEPT !.frames[s].result = NoResult], r |-> fr.result]
      ELSE IF fr.waiting # 0 THEN [e |-> e, r |-> Suspended]
      ELSE IF fr.failed # None THEN [e |-> e, r |-> Failed(fr.failed)]
      ELSE IF n + 1 > TransitionBudget \/ ConditionFails(st, fr.data) THEN Fail(e, s, st.name)
      ELSE IF ~Condition(e, st) THEN Loop([e EXCEPT !.frames[s].cursor = @ + 1], s, n + 1)
      ELSE IF SlotFails(st.from, fr.data) THEN Fail(e, s, st.name)
      ELSE IF b.r.k # None THEN b ELSE Loop(b.e, s, n + 1)

AdvanceSequence(e, s) ==
  LET fr == Frame(e, s)
  IN  IF fr.result.k # None THEN [e |-> [e EXCEPT !.frames[s].result = NoResult], r |-> fr.result]
      ELSE CASE fr.state = "failed" -> [e |-> e, r |-> Failed(fr.failed)]
             [] fr.state = "abandoned" -> [e |-> e, r |-> Suspended]
             [] fr.state = "completed" -> Return(e, "completed", fr.data)
             [] OTHER -> Loop(e, s, 0)
=============================================================================
