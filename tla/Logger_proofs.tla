---------------------------- MODULE Logger_proofs ----------------------------
(***************************************************************************)
(* QueueExact for every capacity, every set of entries and any number of   *)
(* emplace and pop calls.                                                  *)
(*                                                                         *)
(* The inductive invariant measures positions by their distance along the  *)
(* ring.  Its core is that each side's cached copy of the other's index    *)
(* lags behind the index itself, so the cached test errs only towards      *)
(* "full" and "empty", and that every slot holds what the distance from    *)
(* readIdx_ says it holds.                                                 *)
(***************************************************************************)
EXTENDS Logger, TLAPS

\* Steps from slot a to slot b along the ring.
Dist(a, b) == IF a <= b THEN b - a ELSE b + capacity_ - a

\* Slots that the consumer has not given back.
Held == Dist(readIdx_, writeIdx_)
Destroyed == IF reading = "destroyed" THEN 1 ELSE 0

Types ==
    /\ slots \in [Index -> Entry \cup {Empty}]
    /\ writeIdx_ \in Index /\ readIdx_ \in Index
    /\ readIdxCache_ \in Index /\ writeIdxCache_ \in Index
    /\ writing \in {"idle", "waiting", "constructed"}
    /\ reading \in {"idle", "found", "destroyed"}
    /\ entry \in Entry \cup {Empty}
    /\ writing # "idle" => entry \in Entry
    /\ pushed \in Seq(Entry) /\ popped \in Seq(Entry)

\* readIdxCache_ is behind readIdx_, writeIdxCache_ between readIdx_ and writeIdx_.
Lagging ==
    /\ Dist(readIdxCache_, readIdx_) + Held = Dist(readIdxCache_, writeIdx_)
    /\ Dist(readIdx_, writeIdxCache_) + Dist(writeIdxCache_, writeIdx_) = Held
    /\ writing = "constructed" => ~Full
    /\ reading # "idle" => ~LooksEmpty

\* What each slot holds.
Contents ==
    \A i \in Index :
      /\ Dist(readIdx_, i) < Held =>
           slots[i] = IF i = readIdx_ /\ reading = "destroyed" THEN Empty
                      ELSE pushed[Len(pushed) - Held + Dist(readIdx_, i) + 1]
      /\ Dist(readIdx_, i) >= Held =>
           slots[i] = IF i = writeIdx_ /\ writing = "constructed" THEN entry ELSE Empty

Prefix ==
    /\ Len(pushed) = Len(popped) + Held - Destroyed
    /\ \A k \in 1 .. Len(popped) : popped[k] = pushed[k]

QueueInv == Types /\ Lagging /\ Contents /\ Prefix

-----------------------------------------------------------------------------
\* The ring has at least two slots, and stepping around it stays in it.
LEMMA Ring ==
    /\ capacity_ \in Nat /\ capacity_ > 1
    /\ \A i \in Index : i \in Nat /\ i < capacity_
    /\ \A i \in Nat : i < capacity_ => i \in Index
    /\ \A i \in Index : After(i) \in Index /\ After(i) # i
    /\ \A a, b \in Index : Dist(a, b) \in Nat /\ Dist(a, b) < capacity_
  BY CapacityAssumption DEF capacity_, Index, After, Dist

\* Distances when the far or the near end moves by one slot.
LEMMA Distances ==
    ASSUME NEW a \in Index, NEW b \in Index
    PROVE  /\ (Dist(a, b) = 0) <=> (a = b)
           /\ After(b) # a => Dist(a, After(b)) = Dist(a, b) + 1
           /\ a # b => Dist(After(a), b) = Dist(a, b) - 1
           /\ Dist(After(a), a) = capacity_ - 1
           /\ \A c \in Index : Dist(a, b) = Dist(a, c) => b = c
           /\ After(b) = a => Dist(a, b) = capacity_ - 1
  BY CapacityAssumption DEF capacity_, Index, After, Dist

\* The producer publishes a slot: rc, r, wc and w are readIdxCache_, readIdx_,
\* writeIdxCache_ and writeIdx_.
LEMMA Publishing ==
    ASSUME NEW rc \in Index, NEW r \in Index, NEW wc \in Index, NEW w \in Index,
           Dist(rc, r) + Dist(r, w) = Dist(rc, w),
           Dist(r, wc) + Dist(wc, w) = Dist(r, w),
           After(w) # rc
    PROVE  /\ Dist(rc, r) + Dist(r, After(w)) = Dist(rc, After(w))
           /\ Dist(r, wc) + Dist(wc, After(w)) = Dist(r, After(w))
           /\ Dist(r, After(w)) = Dist(r, w) + 1
  BY CapacityAssumption DEF capacity_, Index, After, Dist

\* The consumer gives a slot back.
LEMMA Returning ==
    ASSUME NEW rc \in Index, NEW r \in Index, NEW wc \in Index, NEW w \in Index,
           Dist(rc, r) + Dist(r, w) = Dist(rc, w),
           Dist(r, wc) + Dist(wc, w) = Dist(r, w),
           r # wc
    PROVE  /\ Dist(rc, After(r)) + Dist(After(r), w) = Dist(rc, w)
           /\ Dist(After(r), wc) + Dist(wc, w) = Dist(After(r), w)
           /\ Dist(After(r), w) = Dist(r, w) - 1
           /\ \A i \in Index : Dist(r, i) = IF i = r THEN 0 ELSE Dist(After(r), i) + 1
           /\ Dist(After(r), r) >= Dist(After(r), w)
  BY CapacityAssumption DEF capacity_, Index, After, Dist

\* The facts about numbers that the steps below use.
LEMMA Sizes ==
    ASSUME QueueInv
    PROVE  /\ Held \in Nat /\ Len(pushed) \in Nat /\ Len(popped) \in Nat
           /\ Held <= Len(pushed) + Destroyed
           /\ reading # "idle" => Held > 0 /\ writeIdx_ # readIdx_
           /\ Len(pushed) - Held + Destroyed = Len(popped)
  <1>1. /\ writeIdx_ \in Index /\ readIdx_ \in Index /\ writeIdxCache_ \in Index
        /\ Len(pushed) \in Nat /\ Len(popped) \in Nat
    BY DEF QueueInv, Types
  <1>2. Held \in Nat /\ Destroyed \in {0, 1}
    BY <1>1, Ring DEF Held, Destroyed
  <1>3. Len(pushed) = Len(popped) + Held - Destroyed
    BY DEF QueueInv, Prefix
  <1>4. reading # "idle" => Held > 0 /\ writeIdx_ # readIdx_
    <2> SUFFICES ASSUME reading # "idle" PROVE Held > 0 /\ writeIdx_ # readIdx_
      OBVIOUS
    <2>1. readIdx_ # writeIdxCache_
      BY DEF QueueInv, Lagging, LooksEmpty
    <2>2. /\ Dist(readIdx_, writeIdxCache_) \in Nat /\ Dist(readIdx_, writeIdxCache_) # 0
          /\ Dist(writeIdxCache_, writeIdx_) \in Nat
      BY <1>1, <2>1, Ring, Distances
    <2>3. Dist(readIdx_, writeIdxCache_) + Dist(writeIdxCache_, writeIdx_) = Held
      BY DEF QueueInv, Lagging
    <2>4. Held > 0
      BY <2>2, <2>3, <1>2
    <2> QED
      BY <2>4, <1>1, Distances DEF Held
  <1> QED
    BY <1>1, <1>2, <1>3, <1>4

\* A constructed queue is empty, with all indices and their cached copies at 0.
LEMMA Initially == QueueInit => QueueInv
  <1> SUFFICES ASSUME QueueInit PROVE QueueInv
    OBVIOUS
  <1>1. Types
    BY Ring, CapacityAssumption DEF QueueInit, Types, Index
  <1>2. Held = 0
    BY Distances, <1>1 DEF QueueInit, Held, Types
  <1>3. Lagging
    BY <1>1, <1>2, Distances DEF QueueInit, Lagging, Types
  <1>4. Contents
    BY <1>2, Ring DEF QueueInit, Contents, Types
  <1>5. Prefix
    BY <1>2 DEF QueueInit, Prefix, Destroyed
  <1> QED
    BY <1>1, <1>3, <1>4, <1>5 DEF QueueInv

\* emplace() reads its own index and the cached one: nothing is shared yet.
LEMMA EmplaceStep == ASSUME QueueInv, NEW e \in Entry, Emplace(e) PROVE QueueInv'
  <1>1. Types'
    BY DEF QueueInv, Emplace, Types, consumer
  <1>2. Lagging' /\ Prefix'
    BY DEF QueueInv, Emplace, Lagging, Prefix, Held, Dist, Full, LooksEmpty, Destroyed, consumer
  <1>3. Contents'
    BY DEF QueueInv, Emplace, Contents, Held, Dist, consumer
  <1> QED
    BY <1>1, <1>2, <1>3 DEF QueueInv

\* A producer that finds the queue full takes a fresh copy of readIdx_.
LEMMA ReloadStep == ASSUME QueueInv, Reload PROVE QueueInv'
  <1>1. Types'
    BY DEF QueueInv, Reload, Types, consumer
  <1>2. Contents' /\ Prefix'
    BY DEF QueueInv, Reload, Contents, Prefix, Held, Dist, Destroyed, consumer
  <1>3. readIdx_ \in Index /\ writeIdx_ \in Index
    BY DEF QueueInv, Types
  <1>4. Dist(readIdx_, readIdx_) + Held = Dist(readIdx_, writeIdx_)
    BY <1>3, Distances, Ring DEF Held
  <1>5. Lagging'
    BY <1>4 DEF QueueInv, Reload, Lagging, Held, Dist, LooksEmpty, consumer
  <1> QED
    BY <1>1, <1>2, <1>5 DEF QueueInv

\* The entry is constructed in a slot the consumer does not hold.
LEMMA ConstructStep == ASSUME QueueInv, Construct PROVE QueueInv'
  <1>1. Types'
    BY DEF QueueInv, Construct, Types, consumer
  <1>2. Lagging' /\ Prefix'
    BY DEF QueueInv, Construct, Lagging, Prefix, Held, Dist, Full, LooksEmpty, Destroyed, consumer
  <1>3. Contents'
    <2>1. /\ readIdx_' = readIdx_ /\ writeIdx_' = writeIdx_ /\ pushed' = pushed
          /\ reading' = reading /\ entry' = entry /\ Held' = Held
          /\ writing = "waiting" /\ writing' = "constructed"
      BY DEF Construct, consumer, Held, Dist
    <2>2. \A i \in Index : slots'[i] = IF i = writeIdx_ THEN entry ELSE slots[i]
      BY DEF Construct, QueueInv, Types
    <2>3. Dist(readIdx_, writeIdx_) = Held /\ Held \in Nat
      BY Sizes DEF Held
    <2> SUFFICES ASSUME NEW i \in Index
                 PROVE  /\ Dist(readIdx_, i) < Held =>
                            slots'[i] = IF i = readIdx_ /\ reading = "destroyed" THEN Empty
                                        ELSE pushed[Len(pushed) - Held + Dist(readIdx_, i) + 1]
                        /\ Dist(readIdx_, i) >= Held =>
                            slots'[i] = IF i = writeIdx_ THEN entry ELSE Empty
      BY <2>1 DEF Contents, Dist
    <2> QED
      BY <2>1, <2>2, <2>3 DEF QueueInv, Contents
  <1> QED
    BY <1>1, <1>2, <1>3 DEF QueueInv

\* The store to writeIdx_ adds exactly the constructed entry to the held ones.
LEMMA PublishStep == ASSUME QueueInv, Publish PROVE QueueInv'
  <1>1. Types'
    BY Ring DEF QueueInv, Publish, Types, consumer
  <1>2. /\ readIdx_ \in Index /\ writeIdx_ \in Index
        /\ readIdxCache_ \in Index /\ writeIdxCache_ \in Index
    BY DEF QueueInv, Types
  <1>3. /\ readIdx_' = readIdx_ /\ readIdxCache_' = readIdxCache_
        /\ writeIdxCache_' = writeIdxCache_ /\ writeIdx_' = After(writeIdx_)
        /\ popped' = popped /\ reading' = reading /\ slots' = slots
        /\ writing = "constructed" /\ writing' = "idle"
    BY DEF Publish, consumer
  <1>4. /\ Len(pushed') = Len(pushed) + 1 /\ pushed'[Len(pushed) + 1] = entry
        /\ \A k \in 1 .. Len(pushed) : pushed'[k] = pushed[k]
    BY DEF Publish, QueueInv, Types
  <1>5. After(writeIdx_) # readIdxCache_
    BY <1>3 DEF QueueInv, Lagging, Full
  <1>6. /\ Dist(readIdxCache_, readIdx_) + Dist(readIdx_, writeIdx_)
             = Dist(readIdxCache_, writeIdx_)
        /\ Dist(readIdx_, writeIdxCache_) + Dist(writeIdxCache_, writeIdx_)
             = Dist(readIdx_, writeIdx_)
    BY DEF QueueInv, Lagging, Held
  <1>7. Held' = Dist(readIdx_, After(writeIdx_)) /\ Held' = Held + 1
    <2>1. Held' = Dist(readIdx_, After(writeIdx_))
      BY <1>3 DEF Held, Dist
    <2> QED
      BY <2>1, <1>2, <1>5, <1>6, Publishing DEF Held
  <1>8. Lagging'
    <2>1. /\ Dist(readIdxCache_, readIdx_) + Dist(readIdx_, After(writeIdx_))
               = Dist(readIdxCache_, After(writeIdx_))
          /\ Dist(readIdx_, writeIdxCache_) + Dist(writeIdxCache_, After(writeIdx_))
               = Dist(readIdx_, After(writeIdx_))
      BY <1>2, <1>5, <1>6, Publishing
    <2>2. /\ Dist(readIdxCache_, readIdx_)' = Dist(readIdxCache_, readIdx_)
          /\ Dist(readIdxCache_, writeIdx_)' = Dist(readIdxCache_, After(writeIdx_))
          /\ Dist(readIdx_, writeIdxCache_)' = Dist(readIdx_, writeIdxCache_)
          /\ Dist(writeIdxCache_, writeIdx_)' = Dist(writeIdxCache_, After(writeIdx_))
      BY <1>3 DEF Dist
    <2>3. (reading # "idle" => ~LooksEmpty)'
      BY <1>3 DEF QueueInv, Lagging, LooksEmpty
    <2> QED
      BY <2>1, <2>2, <2>3, <1>3, <1>7 DEF Lagging
  <1>9. Prefix'
    <2>1. Destroyed' = Destroyed /\ Destroyed \in {0, 1}
      BY <1>3 DEF Destroyed
    <2>2. Len(popped) <= Len(pushed)
      BY Sizes DEF Destroyed
    <2>3. \A k \in 1 .. Len(popped) : popped[k] = pushed'[k]
      BY <2>2, <1>4, Sizes DEF QueueInv, Prefix
    <2>4. Len(pushed') = Len(popped) + Held' - Destroyed
      BY <2>1, <1>4, <1>7, Sizes
    <2> QED
      BY <2>1, <2>3, <2>4, <1>3 DEF Prefix
  <1>10. Contents'
    <2> SUFFICES ASSUME NEW i \in Index
                 PROVE  /\ Dist(readIdx_, i) < Held + 1 =>
                            slots[i] = IF i = readIdx_ /\ reading = "destroyed" THEN Empty
                                       ELSE pushed'[Len(pushed) - Held + Dist(readIdx_, i) + 1]
                        /\ Dist(readIdx_, i) >= Held + 1 => slots[i] = Empty
      <3>1. Len(pushed') - Held' = Len(pushed) - Held
        BY <1>4, <1>7, Sizes
      <3> QED
        BY <3>1, <1>3, <1>7 DEF Contents, Dist
    <2>1. Dist(readIdx_, i) \in Nat /\ (Dist(readIdx_, i) = Held => i = writeIdx_)
      BY <1>2, Ring, Distances DEF Held
    <2>2. CASE i = writeIdx_
      <3>1. Dist(readIdx_, i) = Held
        BY <2>2 DEF Held
      <3>2. slots[i] = entry
        BY <3>1, <2>2, <1>3, Sizes DEF QueueInv, Contents
      <3>3. i # readIdx_ \/ reading # "destroyed"
        BY <2>2, Sizes
      <3> QED
        BY <3>1, <3>2, <3>3, <1>4, Sizes
    <2>3. CASE i # writeIdx_ /\ Dist(readIdx_, i) < Held
      <3>1. CASE i = readIdx_ /\ reading = "destroyed"
        BY <3>1, <2>3, <2>1, Sizes DEF QueueInv, Contents
      <3>2. CASE ~(i = readIdx_ /\ reading = "destroyed")
        <4>1. Len(pushed) - Held + Dist(readIdx_, i) + 1 \in 1 .. Len(pushed)
          BY <3>2, <2>1, <2>3, <1>2, Sizes, Distances DEF Destroyed
        <4> QED
          BY <4>1, <3>2, <2>1, <2>3, <1>4, Sizes DEF QueueInv, Contents
      <3> QED
        BY <3>1, <3>2
    <2>4. CASE i # writeIdx_ /\ ~(Dist(readIdx_, i) < Held)
      BY <2>4, <2>1, Sizes DEF QueueInv, Contents
    <2> QED
      BY <2>2, <2>3, <2>4
  <1> QED
    BY <1>1, <1>8, <1>9, <1>10 DEF QueueInv

\* front() with its reload of writeIdx_ moves only the cached copy.
LEMMA FrontStep ==
    ASSUME QueueInv, FrontCached \/ FrontFinds \/ FrontEmpty PROVE QueueInv'
  <1> USE DEF FrontCached, FrontFinds, FrontEmpty
  <1>1. Types'
    BY DEF QueueInv, Types, producer
  <1>2. /\ readIdx_' = readIdx_ /\ readIdxCache_' = readIdxCache_
        /\ writeIdx_' = writeIdx_ /\ slots' = slots /\ pushed' = pushed
        /\ popped' = popped /\ writing' = writing /\ entry' = entry
        /\ reading = "idle" /\ reading' \in {"idle", "found"}
        /\ writeIdxCache_' \in {writeIdxCache_, writeIdx_}
        /\ reading' = "found" => readIdx_ # writeIdxCache_'
    BY DEF producer, LooksEmpty
  <1>3. Held' = Held /\ Destroyed' = Destroyed
    BY <1>2 DEF Held, Dist, Destroyed
  <1>4. Contents' /\ Prefix'
    BY <1>2, <1>3 DEF QueueInv, Contents, Prefix, Dist
  <1>5. readIdx_ \in Index /\ writeIdx_ \in Index
    BY DEF QueueInv, Types
  <1>6. Dist(readIdx_, writeIdx_) + Dist(writeIdx_, writeIdx_) = Held
    BY <1>5, Distances, Ring DEF Held
  <1>7. Dist(readIdx_, writeIdxCache_') + Dist(writeIdxCache_', writeIdx_) = Held
    BY <1>2, <1>6 DEF QueueInv, Lagging
  <1>8. Lagging'
    <2>1. (Dist(readIdx_, writeIdxCache_) + Dist(writeIdxCache_, writeIdx_) = Held)'
      BY <1>2, <1>3, <1>7 DEF Dist
    <2>2. (Dist(readIdxCache_, readIdx_) + Held = Dist(readIdxCache_, writeIdx_))'
      BY <1>2, <1>3 DEF QueueInv, Lagging, Dist
    <2> QED
      BY <2>1, <2>2, <1>2 DEF QueueInv, Lagging, Full, LooksEmpty
  <1> QED
    BY <1>1, <1>4, <1>8 DEF QueueInv

\* The consumer reads and destroys the first entry held.
LEMMA TakeStep == ASSUME QueueInv, Take PROVE QueueInv'
  <1>1. /\ readIdx_' = readIdx_ /\ readIdxCache_' = readIdxCache_
        /\ writeIdx_' = writeIdx_ /\ writeIdxCache_' = writeIdxCache_ /\ pushed' = pushed
        /\ writing' = writing /\ entry' = entry
        /\ reading = "found" /\ reading' = "destroyed"
    BY DEF Take, producer
  <1>2. Held' = Held /\ Destroyed = 0 /\ Destroyed' = 1
    BY <1>1 DEF Held, Dist, Destroyed
  <1>3. /\ readIdx_ \in Index /\ writeIdx_ \in Index
        /\ \A i \in Index : slots'[i] = IF i = readIdx_ THEN Empty ELSE slots[i]
    BY DEF QueueInv, Types, Take
  <1>4. Dist(readIdx_, readIdx_) = 0 /\ Held > 0 /\ Len(pushed) - Held = Len(popped)
    BY <1>1, <1>2, <1>3, Distances, Sizes
  <1>5. Len(popped) + 1 \in 1 .. Len(pushed) /\ slots[readIdx_] = pushed[Len(popped) + 1]
    BY <1>1, <1>3, <1>4, Sizes DEF QueueInv, Contents
  <1>6. Types'
    <2>1. pushed[Len(popped) + 1] \in Entry
      BY <1>5 DEF QueueInv, Types
    <2> QED
      BY <2>1, <1>5 DEF QueueInv, Types, Take, producer
  <1>7. Lagging'
    BY <1>1, <1>2 DEF QueueInv, Lagging, Dist, Full, LooksEmpty
  <1>8. Contents'
    <2> SUFFICES ASSUME NEW i \in Index
                 PROVE  /\ Dist(readIdx_, i) < Held =>
                            slots'[i] = IF i = readIdx_ THEN Empty
                                        ELSE pushed[Len(pushed) - Held + Dist(readIdx_, i) + 1]
                        /\ Dist(readIdx_, i) >= Held =>
                            slots'[i] = IF i = writeIdx_ /\ writing = "constructed" THEN entry
                                        ELSE Empty
      BY <1>1, <1>2 DEF Contents, Dist
    <2> QED
      BY <1>1, <1>3, <1>4, Sizes DEF QueueInv, Contents
  <1>9. Prefix'
    <2>1. /\ Len(popped') = Len(popped) + 1 /\ popped'[Len(popped) + 1] = slots[readIdx_]
          /\ \A k \in 1 .. Len(popped) : popped'[k] = popped[k]
      BY DEF QueueInv, Types, Take
    <2>2. Len(pushed) = Len(popped') + Held - 1
      BY <2>1, <1>4, Sizes
    <2>3. \A k \in 1 .. Len(popped') : popped'[k] = pushed[k]
      BY <2>1, <1>5, Sizes DEF QueueInv, Prefix
    <2> QED
      BY <2>2, <2>3, <1>1, <1>2 DEF Prefix
  <1> QED
    BY <1>6, <1>7, <1>8, <1>9 DEF QueueInv

\* The store to readIdx_ gives the emptied slot back to the producer.
LEMMA GiveBackStep == ASSUME QueueInv, GiveBack PROVE QueueInv'
  <1>1. /\ readIdx_' = After(readIdx_) /\ readIdxCache_' = readIdxCache_
        /\ writeIdx_' = writeIdx_ /\ writeIdxCache_' = writeIdxCache_
        /\ pushed' = pushed /\ popped' = popped /\ slots' = slots
        /\ writing' = writing /\ entry' = entry
        /\ reading = "destroyed" /\ reading' = "idle"
    BY DEF GiveBack, producer
  <1>2. /\ readIdx_ \in Index /\ writeIdx_ \in Index
        /\ readIdxCache_ \in Index /\ writeIdxCache_ \in Index
    BY DEF QueueInv, Types
  <1>3. Types'
    BY Ring DEF QueueInv, Types, GiveBack, producer
  <1>4. /\ Dist(readIdxCache_, readIdx_) + Dist(readIdx_, writeIdx_)
             = Dist(readIdxCache_, writeIdx_)
        /\ Dist(readIdx_, writeIdxCache_) + Dist(writeIdxCache_, writeIdx_)
             = Dist(readIdx_, writeIdx_)
        /\ readIdx_ # writeIdxCache_
    BY <1>1 DEF QueueInv, Lagging, Held, LooksEmpty
  <1>5. /\ Dist(readIdxCache_, After(readIdx_)) + Dist(After(readIdx_), writeIdx_)
             = Dist(readIdxCache_, writeIdx_)
        /\ Dist(After(readIdx_), writeIdxCache_) + Dist(writeIdxCache_, writeIdx_)
             = Dist(After(readIdx_), writeIdx_)
        /\ Dist(After(readIdx_), writeIdx_) = Dist(readIdx_, writeIdx_) - 1
        /\ \A i \in Index :
             Dist(readIdx_, i) = IF i = readIdx_ THEN 0 ELSE Dist(After(readIdx_), i) + 1
        /\ Dist(After(readIdx_), readIdx_) >= Dist(After(readIdx_), writeIdx_)
    BY <1>2, <1>4, Returning
  <1>6. Held' = Dist(After(readIdx_), writeIdx_) /\ Held' = Held - 1
    <2>1. Held' = Dist(After(readIdx_), writeIdx_)
      BY <1>1 DEF Held, Dist
    <2> QED
      BY <2>1, <1>5 DEF Held
  <1>7. Lagging'
    <2>1. (Dist(readIdxCache_, readIdx_) + Held = Dist(readIdxCache_, writeIdx_))'
      BY <1>1, <1>5, <1>6 DEF Dist
    <2>2. (Dist(readIdx_, writeIdxCache_) + Dist(writeIdxCache_, writeIdx_) = Held)'
      BY <1>1, <1>5, <1>6 DEF Dist
    <2> QED
      BY <2>1, <2>2, <1>1 DEF QueueInv, Lagging, Full
  <1>8. Prefix'
    <2>1. Destroyed = 1 /\ Destroyed' = 0
      BY <1>1 DEF Destroyed
    <2>2. Len(pushed) = Len(popped) + Held' - 0
      BY <2>1, <1>6, Sizes
    <2> QED
      BY <2>1, <2>2, <1>1 DEF QueueInv, Prefix
  <1>9. Contents'
    <2> SUFFICES ASSUME NEW i \in Index
                 PROVE  /\ Dist(After(readIdx_), i) < Held - 1 =>
                            slots[i] = pushed[Len(pushed) - (Held - 1) + Dist(After(readIdx_), i) + 1]
                        /\ Dist(After(readIdx_), i) >= Held - 1 =>
                            slots[i] = IF i = writeIdx_ /\ writing = "constructed" THEN entry
                                       ELSE Empty
      BY <1>1, <1>6 DEF Contents, Dist
    <2>1. Dist(After(readIdx_), i) \in Nat /\ Dist(readIdx_, i) \in Nat
      BY <1>2, Ring
    <2>2. CASE i = readIdx_
      <3>1. Dist(readIdx_, i) = 0 /\ Held > 0 /\ i # writeIdx_
        BY <2>2, <1>1, <1>5, Sizes
      <3>2. slots[i] = Empty
        BY <3>1, <2>2, <1>1, Sizes DEF QueueInv, Contents
      <3>3. ~(Dist(After(readIdx_), i) < Held - 1)
        BY <2>2, <1>5, <1>6, Sizes, <2>1, <3>1
      <3> QED
        BY <3>1, <3>2, <3>3
    <2>3. CASE i # readIdx_
      <3>1. Dist(readIdx_, i) = Dist(After(readIdx_), i) + 1
        BY <2>3, <1>5
      <3>2. /\ Dist(readIdx_, i) < Held =>
                 slots[i] = pushed[Len(pushed) - Held + Dist(readIdx_, i) + 1]
            /\ Dist(readIdx_, i) >= Held =>
                 slots[i] = IF i = writeIdx_ /\ writing = "constructed" THEN entry ELSE Empty
        BY <2>3 DEF QueueInv, Contents
      <3>3. /\ Dist(After(readIdx_), i) < Held - 1 <=> Dist(readIdx_, i) < Held
            /\ Dist(After(readIdx_), i) >= Held - 1 <=> Dist(readIdx_, i) >= Held
            /\ Len(pushed) - (Held - 1) + Dist(After(readIdx_), i) + 1
                 = Len(pushed) - Held + Dist(readIdx_, i) + 1
        BY <3>1, <2>1, Sizes
      <3> QED
        BY <3>2, <3>3
    <2> QED
      BY <2>2, <2>3
  <1> QED
    BY <1>3, <1>7, <1>8, <1>9 DEF QueueInv

\* The inductive invariant implies what is claimed of the queue.
LEMMA Exact == QueueInv => QueueExact
  <1> SUFFICES ASSUME QueueInv PROVE QueueExact
    OBVIOUS
  <1>1. /\ readIdx_ \in Index /\ writeIdx_ \in Index
        /\ Dist(readIdx_, writeIdx_) = Held /\ Dist(readIdx_, readIdx_) = 0
    BY Distances DEF QueueInv, Types, Held
  <1>2. writing = "waiting" => slots[writeIdx_] = Empty
    BY <1>1, Sizes DEF QueueInv, Contents
  <1>3. Len(popped) <= Len(pushed)
    BY Sizes DEF Destroyed
  <1>4. ASSUME reading = "found" PROVE slots[readIdx_] \in Entry
    <2>1. Held > 0 /\ Held <= Len(pushed)
      BY <1>4, Sizes DEF Destroyed
    <2>2. slots[readIdx_] = pushed[Len(pushed) - Held + 0 + 1]
      BY <1>1, <1>4, <2>1, Sizes DEF QueueInv, Contents
    <2>3. Len(pushed) - Held + 0 + 1 \in 1 .. Len(pushed)
      BY <2>1, Sizes
    <2> QED
      BY <2>2, <2>3 DEF QueueInv, Types
  <1> QED
    BY <1>2, <1>3, <1>4 DEF QueueExact, QueueInv, Prefix

-----------------------------------------------------------------------------
\* The two indices and their stale copies keep the threads apart, whatever the
\* size of the ring and however emplace, front and pop interleave.
THEOREM QueueIsExact == QueueSpec => []QueueExact
  <1>1. QueueInv /\ UNCHANGED queue => QueueInv'
    BY DEF queue, QueueInv, Types, Lagging, Contents, Prefix, Held, Destroyed, Dist, Full,
           LooksEmpty
  <1>2. QueueInv /\ [QueueNext]_queue => QueueInv'
    BY <1>1, EmplaceStep, ReloadStep, ConstructStep, PublishStep, FrontStep, TakeStep,
       GiveBackStep DEF QueueNext, ProducerStep, ConsumerStep
  <1> QED
    BY <1>2, Initially, Exact, PTL DEF QueueSpec

\* The logger's two threads use the queue as SPSCQueue.h asks: what they do to
\* it are steps of the queue, so nothing the ring or the eventfd does, a lost
\* registration and a failed read included, makes them meet in a slot.
THEOREM LoggingIsExact == LogSpec => []QueueExact
  <1>1. LogInit => QueueInit
    BY DEF LogInit
  <1>2. [LogNext]_logvars => [QueueNext]_queue
    <2>1. ASSUME Log PROVE QueueNext
      BY <2>1 DEF Log, QueueNext, ProducerStep
    <2>2. ASSUME LogWaits \/ LogConstructs \/ LogPublishes PROVE QueueNext
      BY <2>2 DEF LogWaits, LogConstructs, LogPublishes, QueueNext, ProducerStep
    <2>3. ASSUME Drain \/ Drained PROVE QueueNext
      BY <2>3 DEF Drain, Drained, QueueNext, ConsumerStep
    <2>4. ASSUME \/ Run \/ GetSqe \/ SetData \/ PrepRead \/ Wake \/ Join \/ LogToStderr \/ Stop
                 \/ Kernel \/ ReadFails \/ Submit \/ HandleCompletion \/ AllHandled
                 \/ UNCHANGED logvars
          PROVE  UNCHANGED queue
      BY <2>4 DEF Run, GetSqe, SetData, PrepRead, Wake, Join, LogToStderr, Stop, Kernel,
                  ReadCompletes, ReadFails, Submit, HandleCompletion, AllHandled, logvars
    <2> QED
      BY <2>1, <2>2, <2>3, <2>4 DEF LogNext, MainStep, LoggerStep
  <1> QED
    BY <1>1, <1>2, QueueIsExact, PTL DEF LogSpec, QueueSpec
=============================================================================
