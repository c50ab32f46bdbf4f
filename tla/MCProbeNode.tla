---------------------------- MODULE MCProbeNode ----------------------------
(***************************************************************************)
(* One node with a pool of two units. t1 needs both; t2 needs one and a    *)
(* data dependency; t3 needs one and a pool nobody declared; t4 needs one. *)
(***************************************************************************)
EXTENDS ProbeNode, TLC

CONSTANTS n1, t1, t2, t3, t4, cpu, gpu, batch, live, r1

MCCaps == n1 :> [total |-> cpu :> 2, reserved |-> [p \in {cpu, gpu} |-> 0],
                 concurrency |-> (batch :> 0) @@ (live :> 1)]
MCHandlers == n1 :> {batch}
MCTypeOf == (t1 :> batch) @@ (t2 :> batch) @@ (t3 :> batch) @@ (t4 :> live)
MCReq == (t1 :> (cpu :> 2)) @@ (t2 :> (cpu :> 1)) @@ (t3 :> (cpu :> 1 @@ gpu :> 1))
         @@ (t4 :> (cpu :> 1))
MCDeps == (t1 :> {}) @@ (t2 :> {r1}) @@ (t3 :> {}) @@ (t4 :> {})
==============================================================================
