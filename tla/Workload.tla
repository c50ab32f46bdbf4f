------------------------------- MODULE Workload -------------------------------
(***************************************************************************)
(* The tasks of a run, as the schedulers see them: a type and the amounts  *)
(* they require of named pools (src/protos: task.Task, ResourceRequirements). *)
(***************************************************************************)
EXTENDS Integers

CONSTANTS Pools,    \* pool names, declared or not
          Types,    \* task types
          Tasks,    \* task ids
          TypeOf,   \* task |-> type
          Req,      \* task |-> requested pools |-> amount
          Word      \* 2^64: counters are uint64_t

ASSUME WordAssumption == Word \in Nat \ {0}

ASSUME TaskAssumption ==
  /\ TypeOf \in [Tasks -> Types]
  /\ \A t \in Tasks : /\ DOMAIN Req[t] \subseteq Pools
                      /\ Req[t] \in [DOMAIN Req[t] -> 0..(Word - 1)]
==============================================================================
