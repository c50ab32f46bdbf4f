---------------------------- MODULE TaskResolution ----------------------------
(***************************************************************************)
(* What a scheduler promises about a task handed to it: one node at most   *)
(* ever runs it, and its receiver is told one outcome, a success only if   *)
(* the task ran.                                                           *)
(***************************************************************************)
EXTENDS FiniteSets

CONSTANTS Tasks, Nodes

VARIABLES runner,   \* task |-> the set of nodes it was handed to: none or one
          verdict   \* task |-> "new", "waiting" or what the receiver was told

vars == <<runner, verdict>>

Verdicts == {"ok", "failed", "refused", "deadline"}

Init ==
  /\ runner = [t \in Tasks |-> {}]
  /\ verdict = [t \in Tasks |-> "new"]

Submit(t) ==
  /\ verdict[t] = "new"
  /\ verdict' = [verdict EXCEPT ![t] = "waiting"]
  /\ UNCHANGED runner

\* A child that fits on its own node is submitted and run in one step.
Run(t, n) ==
  /\ runner[t] = {}
  /\ runner' = [runner EXCEPT ![t] = {n}]
  /\ verdict' = [verdict EXCEPT ![t] = IF @ = "new" THEN "waiting" ELSE @]

\* A node's disconnection resolves several tasks at once.
Resolve ==
  /\ \A t \in Tasks :
       \/ verdict'[t] = verdict[t]
       \/ verdict[t] = "new" /\ verdict'[t] = "refused"
       \/ verdict[t] = "waiting" /\ verdict'[t] \in {"refused", "deadline"}
       \/ verdict[t] = "waiting" /\ runner[t] # {} /\ verdict'[t] \in {"ok", "failed"}
  /\ DOMAIN verdict' = Tasks
  /\ UNCHANGED runner

Next == Resolve \/ \E t \in Tasks : Submit(t) \/ \E n \in Nodes : Run(t, n)

Spec == Init /\ [][Next]_vars
==============================================================================
