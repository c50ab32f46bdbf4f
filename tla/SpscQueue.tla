------------------------------ MODULE SpscQueue ------------------------------
(***************************************************************************)
(* The queue between a thread that logs and the logger thread              *)
(* (rigtorp/SPSCQueue.h): a ring of slots, an index owned by each side and *)
(* a stale copy of the other side's index that is refreshed only when the  *)
(* ring looks full (or empty).  Every access to memory that both threads   *)
(* use is a step of its own; release and acquire order them as written.    *)
(***************************************************************************)
EXTENDS Naturals, Sequences

CONSTANTS Capacity, Entry, Empty

ASSUME CapacityAssumption == Capacity \in Nat \ {0}
ASSUME EmptyAssumption == Empty \notin Entry

VARIABLES slots,          \* what is constructed in each slot
          writeIdx_, readIdx_,
          readIdxCache_,  \* the producer's copy of readIdx_
          writeIdxCache_, \* the consumer's copy of writeIdx_
          writing,        \* where the producer is in emplace
          entry,          \* the argument of that emplace
          reading,        \* where the consumer is between front and pop
          pushed, popped  \* the entries published and taken so far

producer == <<writeIdx_, readIdxCache_, writing, entry, pushed>>
consumer == <<readIdx_, writeIdxCache_, reading, popped>>
queue == <<slots, writeIdx_, readIdx_, readIdxCache_, writeIdxCache_, writing, entry,
           reading, pushed, popped>>

capacity_ == Capacity + 1      \* one slot of slack
Index == 0 .. capacity_ - 1

After(i) == IF i + 1 = capacity_ THEN 0 ELSE i + 1

QueueInit ==
    /\ slots = [i \in Index |-> Empty]
    /\ writeIdx_ = 0 /\ readIdx_ = 0 /\ readIdxCache_ = 0 /\ writeIdxCache_ = 0
    /\ writing = "idle" /\ entry = Empty /\ reading = "idle"
    /\ pushed = <<>> /\ popped = <<>>

-----------------------------------------------------------------------------
(* emplace, on the producer's thread.                                      *)

Full == After(writeIdx_) = readIdxCache_

Emplace(e) ==
    /\ writing = "idle"
    /\ writing' = "waiting" /\ entry' = e
    /\ UNCHANGED <<slots, writeIdx_, readIdxCache_, pushed, consumer>>

\* The loop that spins while the ring looks full.
Reload ==
    /\ writing = "waiting" /\ Full
    /\ readIdxCache_' = readIdx_
    /\ UNCHANGED <<slots, writeIdx_, writing, entry, pushed, consumer>>

\* Mutant: emplace does not look at the reader's index.
ConstructUnguarded ==
    /\ writing = "waiting"
    /\ slots' = [slots EXCEPT ![writeIdx_] = entry]
    /\ writing' = "constructed"
    /\ UNCHANGED <<writeIdx_, readIdxCache_, entry, pushed, consumer>>

Construct ==
    /\ writing = "waiting" /\ ~Full
    /\ slots' = [slots EXCEPT ![writeIdx_] = entry]
    /\ writing' = "constructed"
    /\ UNCHANGED <<writeIdx_, readIdxCache_, entry, pushed, consumer>>

Publish ==
    /\ writing = "constructed"
    /\ writeIdx_' = After(writeIdx_)
    /\ pushed' = Append(pushed, entry)
    /\ writing' = "idle" /\ entry' = Empty
    /\ UNCHANGED <<slots, readIdxCache_, consumer>>

-----------------------------------------------------------------------------
(* front and pop, on the consumer's thread.                                *)

LooksEmpty == readIdx_ = writeIdxCache_

\* front() with something behind the cached index.
FrontCached ==
    /\ reading = "idle" /\ ~LooksEmpty
    /\ reading' = "found"
    /\ UNCHANGED <<slots, producer, readIdx_, writeIdxCache_, popped>>

\* front() that refreshes the index, and then finds an entry or not.
FrontFinds ==
    /\ reading = "idle" /\ LooksEmpty
    /\ writeIdxCache_' = writeIdx_ /\ writeIdx_ # readIdx_
    /\ reading' = "found"
    /\ UNCHANGED <<slots, producer, readIdx_, popped>>

FrontEmpty ==
    /\ reading = "idle" /\ LooksEmpty
    /\ writeIdxCache_' = writeIdx_ /\ writeIdx_ = readIdx_
    /\ UNCHANGED <<slots, producer, readIdx_, reading, popped>>

\* The entry is used and destroyed, then its slot is given back.
Take ==
    /\ reading = "found"
    /\ popped' = Append(popped, slots[readIdx_])
    /\ slots' = [slots EXCEPT ![readIdx_] = Empty]
    /\ reading' = "destroyed"
    /\ UNCHANGED <<producer, readIdx_, writeIdxCache_>>

GiveBack ==
    /\ reading = "destroyed"
    /\ readIdx_' = After(readIdx_)
    /\ reading' = "idle"
    /\ UNCHANGED <<slots, producer, writeIdxCache_, popped>>

-----------------------------------------------------------------------------
ProducerStep == (\E e \in Entry : Emplace(e)) \/ Reload \/ Construct \/ Publish
ConsumerStep == FrontCached \/ FrontFinds \/ FrontEmpty \/ Take \/ GiveBack

QueueNext == ProducerStep \/ ConsumerStep
QueueSpec == QueueInit /\ [][QueueNext]_queue

-----------------------------------------------------------------------------
\* The two threads never meet in a slot: emplace constructs only where nothing
\* lives, front only returns what is completely constructed, and whatever the
\* consumer takes is, entry by entry, what the producer published.
QueueExact ==
    /\ writing = "waiting" /\ ~Full => slots[writeIdx_] = Empty
    /\ reading = "found" => slots[readIdx_] \in Entry
    /\ Len(popped) <= Len(pushed)
    /\ \A k \in 1 .. Len(popped) : popped[k] = pushed[k]
=============================================================================
