------------------------- MODULE WorkflowInterpreter -------------------------
(****************************************************************************)
(* One workflow task of a node: the handler (openworkflow_task_handler.cc)  *)
(* and the interpreter (interpreter.cc) that advances the frame tree of     *)
(* WorkflowFrames.  The node is single-threaded, so an action is one call   *)
(* from outside: the task arrives, the outcome of a child arrives, the      *)
(* connection of the submitter closes.                                      *)
(*                                                                          *)
(* A nested workflow run (run.workflow) is a child of kind "run" whose      *)
(* inside is another instance of this module: here it just resolves.        *)
(****************************************************************************)
EXTENDS WorkflowFrames

CONSTANT Documents    \* the documents considered

VARIABLES
  run,        \* the state of the interpreter (see WorkflowFrames)
  connected   \* whether the submitter's connection is open

vars == <<run, connected>>

Idle(d, w) ==
  [doc |-> d, world |-> w, state |-> "idle", frames |-> [f \in FrameIds(d) |-> NoFrame],
   owner |-> <<>>, pending |-> {}, ctx |-> FALSE, kids |-> <<>>, result |-> NoResult,
   reports |-> 0, bad |-> FALSE]

Finished(e) == e.state \in {"succeeded", "failed", "cancelled"}

-----------------------------------------------------------------------------
(* ValidateDocument: what is checked before any step runs. *)

InsideFork(d, s) ==
  \E st \in Steps(d) : st.kind = "fork" /\ s \in Below(d, st.name)

\* Every expression of the step compiles and its literals have the shape asked for.
ValidSlots(st) == "malformed" \notin {st.cond, st.from, st.slot, st.as, st.export, st.while}

ValidFlow(d, s, st) ==
  /\ ResolveFlowDirective(d.steps[s], st.then).kind # "error"
  /\ st.kind = "switch" /\ st.pick # None
       => ResolveFlowDirective(d.steps[s], st.pick).kind # "error"

ValidStep(d, s, st) ==
  /\ InsideFork(d, s) => st.export = None
  /\ ValidSlots(st) /\ ValidFlow(d, s, st)
  /\ st.kind = "fork" /\ st.compete => st.sub # <<>>
  /\ st.kind \in Containers \union {"call", "run", "set", "switch"}

ValidNames(d) ==
  \A s \in DOMAIN d.steps : IsInjective([i \in DOMAIN d.steps[s] |-> d.steps[s][i].name])

Valid(d) ==
  /\ d.out # "malformed" /\ ValidNames(d)
  /\ \A s \in DOMAIN d.steps : \A st \in Range(d.steps[s]) : ValidStep(d, s, st)

-----------------------------------------------------------------------------
\* succeed and fail: the completion callback sends the one final result.
Report(e, state, r) == [e EXCEPT !.state = state, !.result = r, !.reports = @ + 1]

\* Faulty: a final value that output.as cannot shape is dropped.
TerminalizeSilently(x) ==
  LET d == x.e.doc
  IN  IF x.r.k = "suspended" \/ (x.r.k # "failed" /\ d.out = "error") THEN x.e
      ELSE Report(x.e, IF x.r.k = "failed" THEN "failed" ELSE "succeeded", x.r)

\* terminalize: the document's own output.as shapes the final value.
Terminalize(x) ==
  LET d == x.e.doc
  IN  CASE x.r.k = "suspended" -> x.e
        [] x.r.k = "failed" -> Report(x.e, "failed", x.r)
        [] OTHER ->
             IF d.out # None /\ (d.out = "error" \/ ~x.r.value.json)
               THEN Report(x.e, "failed", Failed(""))
               ELSE Report(x.e, "succeeded",
                           Result("completed", IF d.out = None THEN x.r.value
                                               ELSE Json(Append(x.r.value.v, "as"))))

\* drive: advance, then apply the outcomes that arrived meanwhile, in the order
\* of their (random) ids; an outcome whose frame was abandoned is discarded.
RECURSIVE Drain(_)
Drain(e) ==
  LET c == IF e.world.order = "first" THEN Min(e.pending) ELSE Max(e.pending)
      e1 == [e EXCEPT !.pending = @ \ {c}]
  IN  IF Finished(e) THEN e
      ELSE IF e.pending = {} THEN [e EXCEPT !.state = "ready"]
      ELSE IF c \notin DOMAIN e.owner THEN Drain(e1)
      ELSE Drain(Terminalize(AdvanceSequence(ApplyOutcome(Forget(e1, c), c, e.owner[c]), "root")))

\* Faulty: outcomes that arrived while advancing wait for the next one.
DriveOnce(e) ==
  LET e1 == Terminalize(AdvanceSequence([e EXCEPT !.state = "advancing"], "root"))
  IN  IF Finished(e1) THEN e1 ELSE [e1 EXCEPT !.state = "ready"]

Drive(e) == Drain(Terminalize(AdvanceSequence([e EXCEPT !.state = "advancing"], "root")))

-----------------------------------------------------------------------------
(* Actions. *)

Worlds(d) ==
  LET kids == {st.name : st \in {u \in Steps(d) : u.kind \in {"call", "run"}}}
  IN  [fails : SUBSET kids, inline : SUBSET kids, flush : BOOLEAN, order : {"first", "last"}]

Init ==
  /\ \E d \in Documents : \E w \in Worlds(d) : run = Idle(d, w)
  /\ connected = TRUE

\* HandleTask: a document that does not load or validate is reported at once.
HandleTask ==
  /\ run.state = "idle" /\ connected
  /\ run' = IF Valid(run.doc) THEN Drive(Enter(run, "root", Json(<<>>)))
                              ELSE Report(run, "failed", Failed(""))
  /\ UNCHANGED connected

\* The final outcome of child c: the receiver reports it once, to a run that may
\* be over or have abandoned the child.
ChildOutcome(c) ==
  /\ run.kids[c].status = "out"
  /\ LET e == [run EXCEPT !.kids[c].status = "done"]
     IN  run' = IF Finished(e) \/ c \notin DOMAIN e.owner THEN e
                ELSE Drive(ApplyOutcome(Forget(e, c), c, e.owner[c]))
  /\ UNCHANGED connected

\* The connection closes: the run is cancelled, with the nested runs it awaits.
Cancelled(e) ==
  [e EXCEPT !.state = "cancelled", !.owner = <<>>, !.pending = {},
            !.kids = [c \in DOMAIN @ |-> IF c \in DOMAIN e.owner /\ @[c].kind = "run"
                                           THEN [@[c] EXCEPT !.status = "cancelled"] ELSE @[c]]]

Close ==
  /\ connected
  /\ connected' = FALSE
  /\ run' = IF run.state = "ready" THEN Cancelled(run) ELSE run

Next == HandleTask \/ Close \/ \E c \in DOMAIN run.kids : ChildOutcome(c)

\* The loop keeps reading its sockets, so the task is handled, and every child
\* resolves.  Each call happens once, so this says what weak fairness of HandleTask
\* and of the outcomes would, as conditions on states.
Fairness ==
  /\ []<>(run.state # "idle" \/ ~connected)
  /\ []<>(\A c \in DOMAIN run.kids : run.kids[c].status # "out")

Spec == Init /\ [][Next]_vars /\ Fairness

-----------------------------------------------------------------------------
(* What a document means, apart from frames, suspension and the order in    *)
(* which children answer: the set of results a run may have.                *)

RECURSIVE Runs(_, _, _, _, _, _), RunsFor(_, _, _, _, _)

RunsFork(d, st, rss) ==
  LET choices == {rs \in [DOMAIN st.sub -> UNION Range(rss)] : \A i \in DOMAIN rs : rs[i] \in rss[i]}
      Decisive(rs) == {r \in Range(rs) : st.compete \/ r.k # "completed"}
      Join(rs) == IF \E i \in DOMAIN rs : ~rs[i].value.json THEN Failed(st.name)
                  ELSE Result("completed", Json(<<"[">> \o FlattenSeq([i \in DOMAIN rs |-> rs[i].value.v])
                                                       \o <<"]">>))
  IN  UNION {IF Decisive(rs) = {} THEN {Join(rs)} ELSE Decisive(rs) : rs \in choices}

\* The results of a for from iteration k on with accumulator acc.
RunsFor(d, w, st, k, acc) ==
  IF k = st.items THEN {Result("completed", acc)}
  ELSE UNION {IF r.k # "completed" THEN {r}
              ELSE IF st.while # None /\ (st.while = "error" \/ ~r.value.json) THEN {Failed(st.name)}
              ELSE IF st.while = "no" THEN {r} ELSE RunsFor(d, w, st, k + 1, r.value)
              : r \in Runs(d, w, st.sub[1], 1, acc, 0)}

RunsBody(d, w, st, input) ==
  IF SlotFails(st.slot, input) /\ (st.kind # "run" \/ st.slot = "error") THEN {Failed(st.name)}
  ELSE CASE st.kind \in {"call", "run"} ->
              IF ~st.await THEN {Result("completed", input)}
              ELSE IF st.name \in w.fails THEN {Failed(st.name)}
              ELSE {Result("completed", [json |-> ~st.opaque, v |-> Append(input.v, st.name)])}
         [] st.kind = "set" ->
              {Result("completed", Json(IF st.slot = "expr" THEN Append(input.v, st.name)
                                                            ELSE <<st.name>>))}
         [] st.kind = "switch" -> {Result("completed", input)}
         [] st.kind = "do" -> Runs(d, w, st.sub[1], 1, input, 0)
         [] st.kind = "fork" ->
              RunsFork(d, st, [i \in DOMAIN st.sub |-> Runs(d, w, st.sub[i], 1, input, 0)])
         [] st.kind = "for" ->
              RunsFor(d, w, st, 0, input)
                \union IF st.items > IterationBudget THEN {Failed(st.name)} ELSE {}

\* The results of sequence s from step i on with value v, after n steps.
Runs(d, w, s, i, v, n) ==
  LET st == d.steps[s][i]
      input == TransformTaskInput(st, v)
      then == IF st.kind = "switch" /\ st.pick # None THEN st.pick ELSE st.then
      Go(u) == LET dir == ResolveFlowDirective(d.steps[s], then)
               IN  CASE dir.kind = "continue" -> Runs(d, w, s, i + 1, u, n + 1)
                     [] dir.kind = "jump" -> Runs(d, w, s, dir.target, u, n + 1)
                     [] dir.kind = "exit" -> {Result("completed", u)}
                     [] dir.kind = "end" -> {Result("ended", u)}
      Done(r) == IF r.k # "completed" THEN {r}
                 ELSE IF SlotsFail(st, input, r.value) THEN {Failed(st.name)}
                 ELSE Go(TransformTaskOutput(st, r.value))
  IN  IF i > Len(d.steps[s]) THEN {Result("completed", v)}
      ELSE IF n = TransitionBudget \/ ConditionFails(st, v) THEN {Failed(st.name)}
      ELSE (IF st.cond \in {"no", "ctx"} THEN Runs(d, w, s, i + 1, v, n + 1) ELSE {})
             \union (IF st.cond = "no" THEN {}
                     ELSE IF SlotFails(st.from, v) THEN {Failed(st.name)}
                     ELSE UNION {Done(r) : r \in RunsBody(d, w, st, input)})

\* The reports a run of document d may end with.
Meaning(d, w) ==
  {IF r.k = "failed" THEN r
   ELSE IF d.out # None /\ (d.out = "error" \/ ~r.value.json) THEN Failed("")
   ELSE Result("completed", IF d.out = None THEN r.value ELSE Json(Append(r.value.v, "as")))
   : r \in Runs(d, w, "root", 1, Json(<<>>), 0)}

-----------------------------------------------------------------------------
(* Properties. *)

\* The frames the tree reaches from frame f.
RECURSIVE Reached(_, _)
Reached(e, f) ==
  {f} \union
    IF IsSequence(e.doc, f)
      THEN IF Frame(e, f).child = None THEN {} ELSE Reached(e, Frame(e, f).child)
      ELSE UNION {Reached(e, s) : s \in Range(StepNamed(e.doc, f).sub)}

\* Between two calls owner_by_child_ leads from exactly the children that live
\* frames wait for to those frames: no outcome is lost for want of an entry, and
\* none is applied to a frame that was abandoned or destroyed.
OwnersExact ==
  run.state = "ready" =>
    LET waiting == {f \in Reached(run, "root") :
                      run.frames[f].state = "active" /\ run.frames[f].waiting # 0}
    IN  /\ DOMAIN run.owner = {run.frames[f].waiting : f \in waiting}
        /\ \A c \in DOMAIN run.owner : run.owner[c] \in waiting /\ run.frames[run.owner[c]].waiting = c

\* A run that is not over waits for at least one child that will still answer:
\* no outcome that arrived while the tree was being advanced is forgotten.
NeverStuck ==
  run.state = "ready" => \E c \in DOMAIN run.owner : run.kids[c].status = "out"

\* Whatever the order and the moment in which the children answer, the run
\* reports a result the document allows: the value of the data chain, or the
\* failure of a step that fails, and nothing for a document that is not valid. On
\* the way no assertion on the life cycle of a frame fails, no outcome meets a
\* frame that does not wait for it, and no directive of a validated document is
\* beyond resolution ("a validated document cannot fail runtime resolution",
\* frame.hh).
ResultAllowed ==
  /\ ~run.bad
  /\ run.state \in {"succeeded", "failed"} =>
       run.result \in IF Valid(run.doc) THEN Meaning(run.doc, run.world) ELSE {Failed("")}

\* The submitter gets exactly one final result unless its connection closes
\* first, every child being answered in the end.
ReportedOnce == <>[](run.reports = 1 \/ ~connected)
=============================================================================
