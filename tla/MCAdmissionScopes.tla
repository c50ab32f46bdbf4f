-------------------------- MODULE MCAdmissionScopes --------------------------
(***************************************************************************)
(* Five tasks of two types over a pool too small for them, a pool whose    *)
(* reservation exceeds it, and a pool nobody declared, and a sixth task of *)
(* a type without a handler. Word = 8.                                     *)
(***************************************************************************)
EXTENDS CapabilityAware, TLC

CONSTANTS cpu, gpu, disk, batch, live, other, t1, t2, t3, t4, t5, t6

MCPools == {cpu, gpu, disk}
MCTypes == {batch, live, other}
MCTasks == {t1, t2, t3, t4, t5, t6}
MCTypeOf == (t1 :> batch) @@ (t2 :> batch) @@ (t3 :> live) @@ (t4 :> live) @@ (t5 :> live)
            @@ (t6 :> other)
MCReq == (t1 :> (cpu :> 2)) @@ (t2 :> (cpu :> 1 @@ gpu :> 0)) @@ (t3 :> (cpu :> 3))
         @@ (t4 :> (gpu :> 1)) @@ (t5 :> (cpu :> 1 @@ disk :> 0)) @@ (t6 :> (cpu :> 1))
MCCapabilities == [total       |-> (cpu :> 6) @@ (gpu :> 3),
                   reserved    |-> (cpu :> 2) @@ (gpu :> 7) @@ (disk :> 0),
                   concurrency |-> (batch :> 1) @@ (live :> 0) @@ (other :> 0)]
MCHandlers == {batch, live}
==============================================================================
