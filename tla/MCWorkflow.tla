------------------------------ MODULE MCWorkflow ------------------------------
(* WorkflowInterpreter on a set of small documents, each built around one   *)
(* or two constructs.                                                       *)
EXTENDS WorkflowInterpreter

Step(name, kind) ==
  [name |-> name, kind |-> kind, cond |-> None, from |-> None, slot |-> "literal", as |-> None,
   export |-> None, then |-> "continue", sub |-> <<>>, compete |-> FALSE, items |-> 0,
   while |-> None, await |-> TRUE, pick |-> None, opaque |-> FALSE]

Call(name) == Step(name, "call")
Do(name, s) == [Step(name, "do") EXCEPT !.sub = <<s>>]
Fork(name, ss) == [Step(name, "fork") EXCEPT !.sub = ss]
Compete(name, ss) == [Fork(name, ss) EXCEPT !.compete = TRUE]
For(name, s, n) == [Step(name, "for") EXCEPT !.sub = <<s>>, !.items = n, !.slot = "expr"]

Doc(steps) == [steps |-> steps, out |-> None]

\* Three branches that join; the middle one is a nested sequence.
JoinDoc == [Doc(
  [root |-> <<[Fork("f", <<"b1", "b2", "b3">>) EXCEPT !.as = "expr", !.export = "expr"],
              [Call("z") EXCEPT !.cond = "ctx"], [Call("y") EXCEPT !.slot = "expr"]>>,
   b1 |-> <<Call("a")>>, b2 |-> <<Do("d", "in")>>, b3 |-> <<[Call("c") EXCEPT !.from = "expr"]>>,
   in |-> <<Call("b"), Step("s", "set")>>]) EXCEPT !.out = "expr"]

\* A competing fork inside a do, an awaited run among the competitors.
CompeteDoc == Doc(
  [root |-> <<Do("d", "in"), Call("z")>>,
   in |-> <<Compete("f", <<"b1", "b2", "b3">>)>>,
   b1 |-> <<Call("a")>>, b2 |-> <<Step("r", "run")>>, b3 |-> <<Do("e", "deep")>>,
   deep |-> <<Call("b"), Call("c")>>])

\* end from a branch, exit from a nested sequence, both past an output.as.
EndDoc == Doc(
  [root |-> <<[Fork("f", <<"b1", "b2">>) EXCEPT !.as = "expr"], Call("z")>>,
   b1 |-> <<Do("d", "in")>>, b2 |-> <<Call("b")>>,
   in |-> <<[Call("a") EXCEPT !.then = "end"], Call("c")>>])

ExitDoc == Doc(
  [root |-> <<[Do("d", "in") EXCEPT !.as = "expr", !.then = "z"], Call("y"), Call("z")>>,
   in |-> <<[Call("a") EXCEPT !.then = "exit"], Call("c")>>])

\* Loops: a body that suspends, a while, a body that ends, more elements than
\* one stretch may iterate.
LoopDoc == Doc(
  [root |-> <<For("l", "in", 3), Call("z")>>, in |-> <<Call("a"), [Call("b") EXCEPT !.cond = "no"]>>])

WhileDoc == Doc(
  [root |-> <<[For("l", "in", 2) EXCEPT !.while = "no"], [For("m", "on", 2) EXCEPT !.while = "yes"]>>,
   in |-> <<Call("a")>>, on |-> <<Compete("f", <<"b1", "b2">>)>>,
   b1 |-> <<Call("b")>>, b2 |-> <<Call("c")>>])

LongLoopDoc == Doc(
  [root |-> <<For("l", "in", 4)>>, in |-> <<Call("a"), [Step("s", "switch") EXCEPT !.pick = "exit"]>>])

\* A backward jump that never suspends, and one a switch leaves.
SpinDoc == Doc([root |-> <<Call("a"), [Step("s", "set") EXCEPT !.then = "s"]>>])

SwitchDoc == [Doc(
  [root |-> <<Call("a"), [Step("s", "switch") EXCEPT !.pick = "c"], Call("b"),
              [Step("c", "set") EXCEPT !.slot = "expr"]>>]) EXCEPT !.out = "error"]

\* Values that are not JSON, expressions that fail, a detached run.
OpaqueDoc == Doc(
  [root |-> <<Fork("f", <<"b1", "b2">>), Call("z")>>,
   b1 |-> <<[Call("a") EXCEPT !.opaque = TRUE]>>, b2 |-> <<Call("b")>>])

OpaqueLoopDoc == Doc(
  [root |-> <<[Call("a") EXCEPT !.opaque = TRUE], [Step("r", "run") EXCEPT !.await = FALSE],
              For("l", "in", 2)>>, in |-> <<Call("b")>>])

ErrorDoc == [Doc(
  [root |-> <<[Call("a") EXCEPT !.as = "expr"], [Fork("f", <<"b1", "b2">>) EXCEPT !.export = "error"]>>,
   b1 |-> <<Call("b")>>, b2 |-> <<[Do("d", "in") EXCEPT !.cond = "yes"]>>,
   in |-> <<[Call("c") EXCEPT !.slot = "error"]>>]) EXCEPT !.out = "error"]

\* Not valid: an ambiguous name, a target in another sequence, an unknown case,
\* an export in a branch, a competition of nobody, a kind that is not supported,
\* a malformed expression.
InvalidDocs == {
  Doc([root |-> <<Call("a"), Call("a"), [Call("b") EXCEPT !.then = "a"]>>]),
  Doc([root |-> <<Do("d", "in"), Call("b")>>, in |-> <<[Call("a") EXCEPT !.then = "b"]>>]),
  Doc([root |-> <<Call("a"), [Step("s", "switch") EXCEPT !.pick = "b"]>>]),
  Doc([root |-> <<Call("a"), [Call("b") EXCEPT !.from = "malformed"]>>]),
  Doc([root |-> <<Fork("f", <<"b1">>)>>, b1 |-> <<[Call("a") EXCEPT !.export = "expr"]>>]),
  Doc([root |-> <<Compete("f", <<>>), Call("a")>>]),
  Doc([root |-> <<Call("a"), Step("w", "wait")>>])}

MCDocuments ==
  {JoinDoc, CompeteDoc, EndDoc, ExitDoc, LoopDoc, WhileDoc, LongLoopDoc, SpinDoc, SwitchDoc,
   OpaqueDoc, OpaqueLoopDoc, ErrorDoc} \union InvalidDocs

\* A condition on a container that its own steps make false.
=============================================================================
