--------------------------- MODULE MCPushScheduling ---------------------------
(***************************************************************************)
(* Two nodes with one and two slots: r1 has a child c1, r2 competes for    *)
(* the slots and is of a type that n2 does not handle.                     *)
(***************************************************************************)
EXTENDS PushScheduling

CONSTANTS n1, n2, r1, r2, c1, cpu, flow, rare

Slots(k) == [total |-> [p \in {cpu} |-> k], reserved |-> [p \in Pools |-> 0],
             concurrency |-> [y \in Types |-> 0]]

MCCaps == [n \in Nodes |-> Slots(IF n = n1 THEN 1 ELSE 2)]
MCHandlers == [n \in Nodes |-> IF n = n1 THEN {flow, rare} ELSE {flow}]
MCTypeOf == [t \in Tasks |-> IF t = r2 THEN rare ELSE flow]
MCReq == [t \in Tasks |-> [p \in {cpu} |-> 1]]
MCParent == [c \in {c1} |-> r1]
==============================================================================
