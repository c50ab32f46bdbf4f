------------------------- MODULE AdmissionController -------------------------
(***************************************************************************)
(* The admission arithmetic of a node agent: what                          *)
(* AdmissionControllerImpl answers to Admit and what Admit and Release do  *)
(* to its maps (src/src/nodeagent/core/admission_controller.cc).           *)
(*                                                                         *)
(* A capability record is what the constructor keeps of NodeCapabilities:  *)
(*   cap.total        declared pool |-> size  (its domain: the declared)   *)
(*   cap.reserved     pool |-> sum of the reservations, 0 when absent      *)
(*   cap.concurrency  task type |-> limit, 0 when absent or unlimited      *)
(* The reservations are summed in a uint64_t and never compared with the   *)
(* pool size, so cap.reserved may be anything below Word.                  *)
(*                                                                         *)
(* An admission state is the pair of usage maps; an absent key reads as 0. *)
(***************************************************************************)
EXTENDS Workload, FiniteSets

IsCapabilities(cap) ==
  /\ DOMAIN cap.total \subseteq Pools
  /\ cap.total \in [DOMAIN cap.total -> 0..(Word - 1)]
  /\ cap.reserved \in [Pools -> 0..(Word - 1)]
  /\ cap.concurrency \in [Types -> 0..(Word - 1)]

AdmissionStates == [inUse : [Pools -> Nat], inFlight : [Types -> Nat]]

NoUsage == [inUse |-> [p \in Pools |-> 0], inFlight |-> [y \in Types |-> 0]]

Amount(t, p) == IF p \in DOMAIN Req[t] THEN Req[t][p] ELSE 0

SharedFree(cap, a, p) ==
  IF p \in DOMAIN cap.total /\ cap.total[p] > (cap.reserved[p] + a.inUse[p]) % Word
    THEN (cap.total[p] - cap.reserved[p] - a.inUse[p]) % Word
    ELSE 0

\* Faulty variant: one task too many is let in.
AtConcurrencyLimitOffByOne(cap, a, y) ==
  cap.concurrency[y] # 0 /\ a.inFlight[y] > cap.concurrency[y]

AtConcurrencyLimit(cap, a, y) ==
  cap.concurrency[y] # 0 /\ a.inFlight[y] >= cap.concurrency[y]

Undeclared(cap, t) == DOMAIN Req[t] \ DOMAIN cap.total

Short(cap, a, t) ==
  {p \in DOMAIN Req[t] \cap DOMAIN cap.total : Req[t][p] > SharedFree(cap, a, p)}

(***************************************************************************)
(* The statuses Admit may return. The requirements are a protobuf map,     *)
(* whose iteration order is unspecified: a request with both an undeclared *)
(* and an exhausted pool is refused with the status of whichever comes     *)
(* first.                                                                  *)
(***************************************************************************)
AdmitStatuses(cap, a, t) ==
  IF Undeclared(cap, t) \cup Short(cap, a, t) # {}
    THEN {s \in {"FailedPrecondition", "ResourceExhausted"} :
            \/ s = "FailedPrecondition" /\ Undeclared(cap, t) # {}
            \/ s = "ResourceExhausted" /\ Short(cap, a, t) # {}}
    ELSE IF AtConcurrencyLimit(cap, a, TypeOf[t])
           THEN {"ResourceExhausted"}
           ELSE {"OK"}

\* Admit's effect on success.
Reserve(a, t) ==
  [inUse    |-> [p \in Pools |-> (a.inUse[p] + Amount(t, p)) % Word],
   inFlight |-> [a.inFlight EXCEPT ![TypeOf[t]] = @ + 1]]

\* Release: subtraction saturates at an erased (zero) entry, and a type with
\* nothing in flight is left alone.
Release(a, t) ==
  [inUse    |-> [p \in Pools |-> IF Amount(t, p) >= a.inUse[p]
                                   THEN 0 ELSE a.inUse[p] - Amount(t, p)],
   inFlight |-> [a.inFlight EXCEPT ![TypeOf[t]] = IF @ = 0 THEN 0 ELSE @ - 1]]

\* Faulty variant: the last task of a type leaves without a wakeup.
NotifiesUnlessErased(a, t) == a.inFlight[TypeOf[t]] > 1

\* Release tells the capacity observers unless the type's count underflowed.
NotifiesCapacityReleased(a, t) == a.inFlight[TypeOf[t]] > 0

(***************************************************************************)
(* Reference definition of the usage a set H of admitted tasks accounts    *)
(* for: one unit <<t, i>> per requested amount.                            *)
(***************************************************************************)
Units(H, p) == UNION {{t} \X (1..Amount(t, p)) : t \in H}

OfType(H, y) == {t \in H : TypeOf[t] = y}

\* The state's maps are exactly the usage of the tasks in H.
AccountsFor(a, H) ==
  /\ \A p \in Pools : a.inUse[p] = Cardinality(Units(H, p))
  /\ \A y \in Types : a.inFlight[y] = Cardinality(OfType(H, y))

\* Usage and reservations fit in the pool, and nothing is in use that is not
\* declared; a pool whose reservations exceed it is never used at all.
WithinCapacity(cap, a) ==
  /\ \A p \in Pools :
       a.inUse[p] > 0 => /\ p \in DOMAIN cap.total
                         /\ cap.reserved[p] + a.inUse[p] <= cap.total[p]
  /\ \A y \in Types : cap.concurrency[y] # 0 => a.inFlight[y] <= cap.concurrency[y]
==============================================================================
