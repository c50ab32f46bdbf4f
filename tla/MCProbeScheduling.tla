-------------------------- MODULE MCProbeScheduling --------------------------
(***************************************************************************)
(* Two nodes with one slot each; t1 and t2 compete for the slots, or t2    *)
(* also asks for a pool that only the second node declares.                *)
(***************************************************************************)
EXTENDS ProbeScheduling

CONSTANTS n1, n2, t1, t2, cpu, gpu, batch

Slots(pools) == [total |-> [p \in pools |-> 1], reserved |-> [p \in Pools |-> 0],
                 concurrency |-> [y \in Types |-> 0]]

MCCaps == [n \in Nodes |-> Slots({cpu})]
MixedCaps == [n \in Nodes |-> Slots(IF n = n2 THEN {cpu, gpu} ELSE {cpu})]
WithHandlers == [n \in Nodes |-> Types]
MCTypeOf == [t \in Tasks |-> batch]
MCReq == [t \in Tasks |-> [p \in {cpu} |-> 1]]
MixedReq == [t \in Tasks |-> [p \in (IF t = t2 THEN {cpu, gpu} ELSE {cpu}) |-> 1]]
NoDeps == [t \in Tasks |-> {}]
==============================================================================
