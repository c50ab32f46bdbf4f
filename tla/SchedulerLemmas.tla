--------------------------- MODULE SchedulerLemmas ---------------------------
(***************************************************************************)
(* Facts the proofs about the schedulers share: where an element occurs in *)
(* a sequence and how the operations on channels and queues change that,   *)
(* and the arithmetic of the admission controller.                         *)
(***************************************************************************)
EXTENDS AdmissionController, Sequences, FiniteSetTheorems, TLAPS

Occurs(x, s) == \E i \in DOMAIN s : s[i] = x

\* x stands at one place of s at most.
Unique(x, s) == \A i, j \in DOMAIN s : s[i] = x /\ s[j] = x => i = j

\* Nothing occurs in the empty sequence.
LEMMA OccursEmpty ==
  ASSUME NEW x
  PROVE  ~Occurs(x, <<>>) /\ Unique(x, <<>>)
  BY DEF Occurs, Unique

\* Taking the first element leaves the others; a unique one is gone.
LEMMA OccursTail ==
  ASSUME NEW S, NEW s \in Seq(S), s # <<>>, NEW x
  PROVE  /\ Tail(s) \in Seq(S)
         /\ Head(s) \in S
         /\ Occurs(Head(s), s)
         /\ Occurs(x, Tail(s)) => Occurs(x, s)
         /\ Unique(x, s) => Unique(x, Tail(s))
         /\ Unique(x, s) /\ Head(s) = x => ~Occurs(x, Tail(s))
<1>1. Len(s) \in Nat \ {0} /\ DOMAIN s = 1..Len(s)
  OBVIOUS
<1>2. /\ Tail(s) \in Seq(S) /\ Head(s) \in S
      /\ Len(Tail(s)) = Len(s) - 1
      /\ \A i \in 1..Len(Tail(s)) : Tail(s)[i] = s[i + 1]
  OBVIOUS
<1>3. DOMAIN Tail(s) = 1..(Len(s) - 1)
  BY <1>2
<1>4. Head(s) = s[1]
  BY <1>1
<1>5. \A i \in DOMAIN Tail(s) : i + 1 \in DOMAIN s /\ i + 1 # 1 /\ Tail(s)[i] = s[i + 1]
  BY <1>1, <1>2, <1>3
<1>6. \A i, j \in DOMAIN Tail(s) : i + 1 = j + 1 => i = j
  BY <1>1, <1>3
<1>7. 1 \in DOMAIN s
  BY <1>1
<1>8. Unique(x, s) => Unique(x, Tail(s))
  BY <1>5, <1>6 DEF Unique
<1>9. Unique(x, s) /\ Head(s) = x => ~Occurs(x, Tail(s))
  BY <1>4, <1>5, <1>7 DEF Unique, Occurs
<1> QED
  BY <1>2, <1>4, <1>5, <1>7, <1>8, <1>9 DEF Occurs

\* Appending adds one occurrence of the element appended.
LEMMA OccursAppend ==
  ASSUME NEW S, NEW s \in Seq(S), NEW e \in S, NEW x
  PROVE  /\ Append(s, e) \in Seq(S)
         /\ Occurs(x, Append(s, e)) <=> Occurs(x, s) \/ x = e
         /\ Unique(x, s) /\ (x = e => ~Occurs(x, s)) => Unique(x, Append(s, e))
<1>1. Len(s) \in Nat /\ DOMAIN s = 1..Len(s)
  OBVIOUS
<1>2. /\ Append(s, e) \in Seq(S)
      /\ Len(Append(s, e)) = Len(s) + 1
      /\ \A i \in 1..Len(s) : Append(s, e)[i] = s[i]
      /\ Append(s, e)[Len(s) + 1] = e
  OBVIOUS
<1>3. DOMAIN Append(s, e) = 1..(Len(s) + 1)
  BY <1>2
<1>4. /\ Len(s) + 1 \in DOMAIN Append(s, e)
      /\ \A i \in DOMAIN Append(s, e) : i \in DOMAIN s \/ i = Len(s) + 1
      /\ \A i \in DOMAIN s : i \in DOMAIN Append(s, e)
  BY <1>1, <1>3
<1> QED
  BY <1>1, <1>2, <1>4 DEF Occurs, Unique

\* A channel that loses a suffix loses occurrences and gains none.
LEMMA OccursPrefix ==
  ASSUME NEW S, NEW s \in Seq(S), NEW k \in 0..Len(s), NEW x
  PROVE  /\ SubSeq(s, 1, k) \in Seq(S)
         /\ Occurs(x, SubSeq(s, 1, k)) => Occurs(x, s)
         /\ Unique(x, s) => Unique(x, SubSeq(s, 1, k))
<1>1. Len(s) \in Nat /\ DOMAIN s = 1..Len(s) /\ \A i \in 1..Len(s) : s[i] \in S
  OBVIOUS
<1>2. k \in Int /\ \A i \in 1..k : s[i] \in S
  BY <1>1
<1> DEFINE p == SubSeq(s, 1, k)
<1>3. /\ p \in Seq(S)
      /\ Len(p) = IF 1 <= k THEN k - 1 + 1 ELSE 0
      /\ \A i \in 1..(k - 1 + 1) : p[i] = s[1 + i - 1]
  BY <1>2
<1> HIDE DEF p
<1>4. DOMAIN p = 1..Len(p) /\ Len(p) = k
  BY <1>1, <1>3
<1>5. \A i \in DOMAIN p : i \in DOMAIN s /\ p[i] = s[i]
  BY <1>1, <1>3, <1>4
<1>6. Occurs(x, p) => Occurs(x, s)
  BY <1>5 DEF Occurs
<1>7. Unique(x, s) => Unique(x, p)
  BY <1>5 DEF Unique
<1> QED
  BY <1>3, <1>6, <1>7 DEF p

\* What occurs in a concatenation occurs in one of its parts.
LEMMA OccursConcat ==
  ASSUME NEW S, NEW s \in Seq(S), NEW u \in Seq(S), NEW x
  PROVE  /\ s \o u \in Seq(S)
         /\ Occurs(x, s \o u) <=> Occurs(x, s) \/ Occurs(x, u)
         /\ Unique(x, s) /\ Unique(x, u) /\ ~(Occurs(x, s) /\ Occurs(x, u))
              => Unique(x, s \o u)
<1>1. /\ Len(s) \in Nat /\ DOMAIN s = 1..Len(s)
      /\ Len(u) \in Nat /\ DOMAIN u = 1..Len(u)
  OBVIOUS
<1> DEFINE c == s \o u
<1>2. /\ c \in Seq(S)
      /\ Len(c) = Len(s) + Len(u)
      /\ \A i \in 1..Len(s) : c[i] = s[i]
      /\ \A i \in 1..Len(u) : c[Len(s) + i] = u[i]
  BY <1>1
<1> HIDE DEF c
<1>3. DOMAIN c = 1..(Len(s) + Len(u))
  BY <1>2
<1>4. \A i \in DOMAIN c : \/ i \in DOMAIN s /\ c[i] = s[i]
                          \/ \E j \in DOMAIN u : i = Len(s) + j /\ c[i] = u[j]
  <2> TAKE i \in DOMAIN c
  <2>1. CASE i <= Len(s)
    BY <1>1, <1>2, <1>3, <2>1
  <2>2. CASE i > Len(s)
    <3>1. i - Len(s) \in DOMAIN u /\ i = Len(s) + (i - Len(s))
      BY <1>1, <1>3, <2>2
    <3> QED
      BY <1>1, <1>2, <3>1
  <2> QED
    BY <1>1, <1>3, <2>1, <2>2
<1>5. /\ \A i \in DOMAIN s : i \in DOMAIN c /\ c[i] = s[i]
      /\ \A j \in DOMAIN u : Len(s) + j \in DOMAIN c /\ c[Len(s) + j] = u[j]
  BY <1>1, <1>2, <1>3
<1>6. Occurs(x, c) <=> Occurs(x, s) \/ Occurs(x, u)
  BY <1>4, <1>5 DEF Occurs
<1>7. ASSUME Unique(x, s), Unique(x, u), ~(Occurs(x, s) /\ Occurs(x, u))
      PROVE  Unique(x, c)
  BY <1>4, <1>7 DEF Unique, Occurs
<1> QED
  BY <1>2, <1>6, <1>7 DEF c

\* Every non-empty set of natural numbers has a least element: the form of
\* induction used below.
LEMMA LeastElement ==
  ASSUME NEW T \in SUBSET Nat, T # {}
  PROVE  \E m \in T : \A k \in T : m <= k
<1> DEFINE R == {ss \in Nat \X Nat : ss[1] < ss[2]}
<1>1. IsWellFoundedOn(R, Nat)
  BY NatLessThanWellFounded DEF OpToRel
<1>2. \A k, m \in Nat : <<k, m>> \in R <=> k < m
  OBVIOUS
<1> HIDE DEF R
<1>3. PICK m \in T : \A k \in T : ~(<<k, m>> \in R)
  BY <1>1, WFMin
<1>4. \A k \in T : m <= k
  <2> TAKE k \in T
  <2>1. k \in Nat /\ m \in Nat /\ ~(k < m)
    BY <1>2, <1>3
  <2> QED
    BY <2>1
<1> QED
  BY <1>4

-------------------------------------------------------------------------------
(***************************************************************************)
(* Lemmas about the admission arithmetic, for every capability record and  *)
(* every word size.                                                        *)
(***************************************************************************)

\* A request is a natural number below the word size, 0 for a pool it does
\* not name.
LEMMA AmountType ==
  ASSUME NEW t \in Tasks, NEW p \in Pools
  PROVE  Amount(t, p) \in 0..(Word - 1)
  BY WordAssumption, TaskAssumption DEF Amount

\* The units of one task number exactly its requested amount.
LEMMA UnitsOne ==
  ASSUME NEW t \in Tasks, NEW p \in Pools
  PROVE  /\ IsFiniteSet({t} \X (1..Amount(t, p)))
         /\ Cardinality({t} \X (1..Amount(t, p))) = Amount(t, p)
<1> DEFINE n == Amount(t, p)
           I == 1..n
           S == {t}
<1>1. n \in Nat
  BY AmountType, WordAssumption
<1>2. IsFiniteSet(I) /\ Cardinality(I) = n
  BY <1>1, FS_Interval, FS_EmptySet
<1>3. IsFiniteSet(S) /\ Cardinality(S) = 1
  BY FS_Singleton
<1> HIDE DEF n, I, S
<1>4. IsFiniteSet(S \X I) /\ Cardinality(S \X I) = Cardinality(S) * Cardinality(I)
  BY <1>2, <1>3, FS_Product, Zenon
<1>5. Cardinality(S \X I) = n
  BY <1>1, <1>2, <1>3, <1>4
<1> QED
  BY <1>4, <1>5 DEF n, I, S

\* A finite set of admitted tasks uses finitely many units.
LEMMA UnitsFinite ==
  ASSUME NEW H \in SUBSET Tasks, IsFiniteSet(H), NEW p \in Pools
  PROVE  IsFiniteSet(Units(H, p))
<1>0. IsFiniteSet(1..Word)
  BY WordAssumption, FS_Interval
<1>1. IsFiniteSet(H \X (1..Word))
  BY <1>0, FS_Product
<1>2. Units(H, p) \in SUBSET (H \X (1..Word))
  <2> SUFFICES ASSUME NEW t \in H
               PROVE  {t} \X (1..Amount(t, p)) \subseteq H \X (1..Word)
    BY DEF Units
  <2>1. Amount(t, p) \in 0..(Word - 1)
    BY AmountType
  <2>2. 1..Amount(t, p) \subseteq 1..Word
    BY <2>1, WordAssumption
  <2> QED
    BY <2>2
<1> QED
  BY <1>1, <1>2, FS_Subset

\* Admitting one more task adds exactly its amount to a pool's units.
LEMMA UnitsAdd ==
  ASSUME NEW H \in SUBSET Tasks, IsFiniteSet(H), NEW t \in Tasks \ H, NEW p \in Pools
  PROVE  Cardinality(Units(H \cup {t}, p)) = Cardinality(Units(H, p)) + Amount(t, p)
<1> DEFINE U == Units(H, p)
           V == {t} \X (1..Amount(t, p))
<1>1. IsFiniteSet(U) /\ Cardinality(U) \in Nat
  BY UnitsFinite, FS_CardinalityType
<1>2. IsFiniteSet(V) /\ Cardinality(V) = Amount(t, p)
  BY UnitsOne
<1>3. Units(H \cup {t}, p) = U \cup V
  BY DEF Units
<1>4. U \cap V = {}
  BY DEF Units
<1>5. Amount(t, p) \in Nat
  BY AmountType, WordAssumption
<1> HIDE DEF U, V
<1>6. Cardinality(U \cup V) = Cardinality(U) + Cardinality(V) - 0
  BY <1>1, <1>2, <1>4, FS_Union, FS_EmptySet
<1>7. Cardinality(U \cup V) = Cardinality(U) + Amount(t, p)
  BY <1>1, <1>2, <1>5, <1>6
<1> QED
  BY <1>3, <1>7 DEF U

\* Likewise for the in-flight count of a type.
LEMMA OfTypeAdd ==
  ASSUME NEW H \in SUBSET Tasks, IsFiniteSet(H), NEW t \in Tasks \ H, NEW y \in Types
  PROVE  Cardinality(OfType(H \cup {t}, y)) =
           Cardinality(OfType(H, y)) + (IF TypeOf[t] = y THEN 1 ELSE 0)
<1>1. IsFiniteSet(OfType(H, y)) /\ Cardinality(OfType(H, y)) \in Nat
  BY FS_Subset, FS_CardinalityType DEF OfType
<1>2. CASE TypeOf[t] = y
  <2>1. OfType(H \cup {t}, y) = OfType(H, y) \cup {t} /\ t \notin OfType(H, y)
    BY <1>2 DEF OfType
  <2> QED
    BY <1>1, <1>2, <2>1, FS_AddElement
<1>3. CASE TypeOf[t] # y
  <2>1. OfType(H \cup {t}, y) = OfType(H, y)
    BY <1>3 DEF OfType
  <2> QED
    BY <1>1, <1>3, <2>1
<1> QED
  BY <1>2, <1>3

\* Releasing a held task takes exactly its amount away again.
LEMMA UnitsRemove ==
  ASSUME NEW H \in SUBSET Tasks, IsFiniteSet(H), NEW t \in H, NEW p \in Pools
  PROVE  Cardinality(Units(H, p)) = Cardinality(Units(H \ {t}, p)) + Amount(t, p)
<1> DEFINE G == H \ {t}
<1>1. IsFiniteSet(G) /\ G \in SUBSET Tasks /\ t \in Tasks \ G /\ G \cup {t} = H
  BY FS_RemoveElement
<1> HIDE DEF G
<1>2. Cardinality(Units(G \cup {t}, p)) = Cardinality(Units(G, p)) + Amount(t, p)
  BY <1>1, UnitsAdd
<1> QED
  BY <1>1, <1>2 DEF G

\* Likewise for the in-flight count of a type.
LEMMA OfTypeRemove ==
  ASSUME NEW H \in SUBSET Tasks, IsFiniteSet(H), NEW t \in H, NEW y \in Types
  PROVE  Cardinality(OfType(H, y)) =
           Cardinality(OfType(H \ {t}, y)) + (IF TypeOf[t] = y THEN 1 ELSE 0)
<1> DEFINE G == H \ {t}
<1>1. IsFiniteSet(G) /\ G \in SUBSET Tasks /\ t \in Tasks \ G /\ G \cup {t} = H
  BY FS_RemoveElement
<1> HIDE DEF G
<1>2. Cardinality(OfType(G \cup {t}, y)) =
        Cardinality(OfType(G, y)) + (IF TypeOf[t] = y THEN 1 ELSE 0)
  BY <1>1, OfTypeAdd
<1> QED
  BY <1>1, <1>2 DEF G

\* The counts are natural numbers.
LEMMA CountType ==
  ASSUME NEW H \in SUBSET Tasks, IsFiniteSet(H), NEW p \in Pools, NEW y \in Types
  PROVE  Cardinality(Units(H, p)) \in Nat /\ Cardinality(OfType(H, y)) \in Nat
  BY UnitsFinite, FS_CardinalityType, FS_Subset DEF OfType

\* In a state within capacity no uint64_t sum wraps: SharedFree is the exact
\* remainder of the pool.
LEMMA SharedFreeExact ==
  ASSUME NEW cap, IsCapabilities(cap), NEW a \in AdmissionStates,
         WithinCapacity(cap, a), NEW p \in DOMAIN cap.total
  PROVE  SharedFree(cap, a, p) = IF cap.total[p] > cap.reserved[p] + a.inUse[p]
                                   THEN cap.total[p] - cap.reserved[p] - a.inUse[p]
                                   ELSE 0
<1> DEFINE T == cap.total[p]
           R == cap.reserved[p]
           U == a.inUse[p]
<1>1. p \in Pools /\ T \in 0..(Word - 1) /\ R \in 0..(Word - 1) /\ U \in Nat
  BY DEF IsCapabilities, AdmissionStates
<1>2. U > 0 => R + U <= T
  BY <1>1 DEF WithinCapacity
<1>3. SharedFree(cap, a, p) = IF T > (R + U) % Word THEN (T - R - U) % Word ELSE 0
  BY DEF SharedFree
<1> HIDE DEF T, R, U
<1>4. R + U \in 0..(Word - 1)
  BY <1>1, <1>2, WordAssumption
<1>5. (R + U) % Word = R + U
  BY <1>4, WordAssumption
<1>6. T > R + U => (T - R - U) \in 0..(Word - 1)
  BY <1>1, <1>4, WordAssumption
<1>7. T > R + U => (T - R - U) % Word = T - R - U
  BY <1>6, WordAssumption
<1> QED
  BY <1>3, <1>5, <1>7 DEF T, R, U

\* A successful Admit keeps the maps exact and within capacity, without the
\* addition in Reserve ever wrapping.
LEMMA ReserveExact ==
  ASSUME NEW cap, IsCapabilities(cap), NEW a \in AdmissionStates,
         WithinCapacity(cap, a), NEW t \in Tasks, "OK" \in AdmitStatuses(cap, a, t)
  PROVE  /\ Reserve(a, t) \in AdmissionStates
         /\ WithinCapacity(cap, Reserve(a, t))
         /\ \A p \in Pools : Reserve(a, t).inUse[p] = a.inUse[p] + Amount(t, p)
<1> DEFINE b == Reserve(a, t)
<1>1. Undeclared(cap, t) = {} /\ Short(cap, a, t) = {} /\ ~AtConcurrencyLimit(cap, a, TypeOf[t])
  BY DEF AdmitStatuses
<1>2. TypeOf[t] \in Types
  BY TaskAssumption
<1>3. ASSUME NEW p \in Pools
      PROVE  /\ b.inUse[p] = a.inUse[p] + Amount(t, p)
             /\ b.inUse[p] \in Nat
             /\ b.inUse[p] > 0 => /\ p \in DOMAIN cap.total
                                  /\ cap.reserved[p] + b.inUse[p] <= cap.total[p]
  <2> DEFINE U == a.inUse[p]
             A == Amount(t, p)
  <2>1. U \in Nat /\ A \in 0..(Word - 1)
    BY AmountType DEF AdmissionStates
  <2>2. b.inUse[p] = (U + A) % Word
    BY DEF Reserve
  <2>3. cap.reserved[p] \in 0..(Word - 1)
    BY DEF IsCapabilities
  <2>4. CASE A = 0
    <3>1. U > 0 => p \in DOMAIN cap.total /\ cap.reserved[p] + U <= cap.total[p]
      BY DEF WithinCapacity
    <3>2. p \in DOMAIN cap.total => cap.total[p] \in 0..(Word - 1)
      BY DEF IsCapabilities
    <3> HIDE DEF U, A
    <3>3. U + A = U /\ U \in 0..(Word - 1)
      BY <2>1, <2>3, <2>4, <3>1, <3>2, WordAssumption
    <3>4. (U + A) % Word = U
      BY <3>3, WordAssumption
    <3>5. b.inUse[p] = U + A /\ b.inUse[p] = U
      BY <2>2, <3>3, <3>4
    <3> QED
      BY <2>1, <3>1, <3>5 DEF U, A
  <2>5. CASE A # 0
    <3>1. p \in DOMAIN Req[t] /\ A = Req[t][p]
      BY <2>5 DEF Amount
    <3>2. p \in DOMAIN cap.total
      BY <1>1, <3>1 DEF Undeclared
    <3>3. ~(A > SharedFree(cap, a, p))
      BY <1>1, <3>1, <3>2 DEF Short
    <3>4. cap.total[p] \in 0..(Word - 1)
      BY <3>2 DEF IsCapabilities
    <3>5. SharedFree(cap, a, p) = IF cap.total[p] > cap.reserved[p] + U
                                    THEN cap.total[p] - cap.reserved[p] - U ELSE 0
      BY <3>2, SharedFreeExact
    <3> HIDE DEF U, A
    <3>6. cap.reserved[p] + (U + A) <= cap.total[p]
      BY <2>1, <2>3, <2>5, <3>3, <3>4, <3>5
    <3>7. U + A \in 0..(Word - 1)
      BY <2>1, <2>3, <3>4, <3>6, WordAssumption
    <3>8. b.inUse[p] = U + A
      BY <2>2, <3>7, WordAssumption
    <3> QED
      BY <3>2, <3>6, <3>7, <3>8 DEF U, A
  <2> QED
    BY <2>4, <2>5
<1>4. b \in AdmissionStates
  BY <1>2, <1>3 DEF Reserve, AdmissionStates
<1>5. ASSUME NEW y \in Types, cap.concurrency[y] # 0
      PROVE  b.inFlight[y] <= cap.concurrency[y]
  BY <1>1, <1>2, <1>5 DEF Reserve, AdmissionStates, WithinCapacity, AtConcurrencyLimit, IsCapabilities
<1> HIDE DEF b
<1>6. WithinCapacity(cap, b)
  BY <1>3, <1>5 DEF WithinCapacity
<1> QED
  BY <1>3, <1>4, <1>6 DEF b

\* A release only lowers usage, so it stays within capacity.
LEMMA ReleaseWithin ==
  ASSUME NEW cap, IsCapabilities(cap), NEW a \in AdmissionStates,
         WithinCapacity(cap, a), NEW t \in Tasks
  PROVE  Release(a, t) \in AdmissionStates /\ WithinCapacity(cap, Release(a, t))
<1> DEFINE b == Release(a, t)
<1>1. ASSUME NEW p \in Pools
      PROVE  b.inUse[p] \in Nat /\ b.inUse[p] <= a.inUse[p]
  <2>1. a.inUse[p] \in Nat /\ Amount(t, p) \in Nat
    BY AmountType, WordAssumption DEF AdmissionStates
  <2> QED
    BY <2>1 DEF Release
<1>2. ASSUME NEW y \in Types
      PROVE  b.inFlight[y] \in Nat /\ b.inFlight[y] <= a.inFlight[y]
  <2>1. a.inFlight \in [Types -> Nat] /\ a.inFlight[y] \in Nat /\ TypeOf[t] \in Types
    BY TaskAssumption DEF AdmissionStates
  <2>2. b.inFlight[y] = IF y = TypeOf[t] THEN IF a.inFlight[y] = 0 THEN 0 ELSE a.inFlight[y] - 1
                                         ELSE a.inFlight[y]
    BY <2>1 DEF Release
  <2> HIDE DEF b
  <2> QED
    BY <2>1, <2>2
<1>3. b \in AdmissionStates
  BY <1>1, <1>2 DEF Release, AdmissionStates
<1>4. WithinCapacity(cap, b)
  <2>1. ASSUME NEW p \in Pools, b.inUse[p] > 0
        PROVE  p \in DOMAIN cap.total /\ cap.reserved[p] + b.inUse[p] <= cap.total[p]
    <3>1. a.inUse[p] \in Nat /\ a.inUse[p] > 0 /\ cap.reserved[p] \in Nat
      BY <1>1, <2>1 DEF AdmissionStates, IsCapabilities
    <3>2. p \in DOMAIN cap.total /\ cap.reserved[p] + a.inUse[p] <= cap.total[p]
      BY <3>1 DEF WithinCapacity
    <3>3. cap.total[p] \in Nat
      BY <3>2 DEF IsCapabilities
    <3> HIDE DEF b
    <3> QED
      BY <1>1, <3>1, <3>2, <3>3
  <2>2. ASSUME NEW y \in Types, cap.concurrency[y] # 0
        PROVE  b.inFlight[y] <= cap.concurrency[y]
    <3>1. a.inFlight[y] <= cap.concurrency[y] /\ a.inFlight[y] \in Nat /\ cap.concurrency[y] \in Nat
      BY <2>2 DEF AdmissionStates, WithinCapacity, IsCapabilities
    <3> HIDE DEF b
    <3> QED
      BY <1>2, <3>1
  <2> HIDE DEF b
  <2> QED
    BY <2>1, <2>2 DEF WithinCapacity
<1> QED
  BY <1>3, <1>4

\* Admit adds the admitted task to what the maps account for.
LEMMA ReserveAccounts ==
  ASSUME NEW cap, IsCapabilities(cap), NEW a \in AdmissionStates, WithinCapacity(cap, a),
         NEW H \in SUBSET Tasks, IsFiniteSet(H), AccountsFor(a, H),
         NEW t \in Tasks \ H, "OK" \in AdmitStatuses(cap, a, t)
  PROVE  AccountsFor(Reserve(a, t), H \cup {t})
<1>1. ASSUME NEW p \in Pools
      PROVE  Reserve(a, t).inUse[p] = Cardinality(Units(H \cup {t}, p))
  <2>1. Reserve(a, t).inUse[p] = a.inUse[p] + Amount(t, p)
    BY ReserveExact
  <2>2. a.inUse[p] = Cardinality(Units(H, p))
    BY DEF AccountsFor
  <2> QED
    BY <2>1, <2>2, UnitsAdd
<1>2. ASSUME NEW y \in Types
      PROVE  Reserve(a, t).inFlight[y] = Cardinality(OfType(H \cup {t}, y))
  <2>1. a.inFlight \in [Types -> Nat] /\ a.inFlight[y] \in Nat /\ TypeOf[t] \in Types
    BY TaskAssumption DEF AdmissionStates
  <2>2. Reserve(a, t).inFlight[y] = a.inFlight[y] + (IF TypeOf[t] = y THEN 1 ELSE 0)
    BY <2>1 DEF Reserve
  <2>3. a.inFlight[y] = Cardinality(OfType(H, y))
    BY DEF AccountsFor
  <2> QED
    BY <2>2, <2>3, OfTypeAdd
<1> QED
  BY <1>1, <1>2 DEF AccountsFor

\* Release of a task the maps account for takes exactly it away: none of the
\* underflow branches is taken, and the observers are notified.
LEMMA ReleaseAccounts ==
  ASSUME NEW a \in AdmissionStates, NEW H \in SUBSET Tasks, IsFiniteSet(H),
         AccountsFor(a, H), NEW t \in H
  PROVE  AccountsFor(Release(a, t), H \ {t}) /\ NotifiesCapacityReleased(a, t)
<1>0. IsFiniteSet(H \ {t}) /\ H \ {t} \in SUBSET Tasks
  BY FS_RemoveElement
<1>1. ASSUME NEW p \in Pools
      PROVE  Release(a, t).inUse[p] = Cardinality(Units(H \ {t}, p))
  <2>1. Amount(t, p) \in Nat
    BY AmountType, WordAssumption
  <2>2. Cardinality(Units(H \ {t}, p)) \in Nat
    BY <1>0, UnitsFinite, FS_CardinalityType
  <2>3. a.inUse[p] = Cardinality(Units(H \ {t}, p)) + Amount(t, p)
    BY UnitsRemove DEF AccountsFor
  <2>4. Release(a, t).inUse[p] =
          IF Amount(t, p) >= a.inUse[p] THEN 0 ELSE a.inUse[p] - Amount(t, p)
    BY DEF Release
  <2> QED
    BY <2>1, <2>2, <2>3, <2>4
<1>2. ASSUME NEW y \in Types
      PROVE  /\ Release(a, t).inFlight[y] = Cardinality(OfType(H \ {t}, y))
             /\ y = TypeOf[t] => a.inFlight[y] > 0
  <2>1. a.inFlight \in [Types -> Nat] /\ a.inFlight[y] \in Nat /\ TypeOf[t] \in Types
    BY TaskAssumption DEF AdmissionStates
  <2>2. Cardinality(OfType(H \ {t}, y)) \in Nat
    BY <1>0, FS_Subset, FS_CardinalityType DEF OfType
  <2>3. a.inFlight[y] =
          Cardinality(OfType(H \ {t}, y)) + (IF TypeOf[t] = y THEN 1 ELSE 0)
    BY OfTypeRemove DEF AccountsFor
  <2>4. Release(a, t).inFlight[y] =
          IF y = TypeOf[t] THEN IF a.inFlight[y] = 0 THEN 0 ELSE a.inFlight[y] - 1
                           ELSE a.inFlight[y]
    BY <2>1 DEF Release
  <2> QED
    BY <2>1, <2>2, <2>3, <2>4
<1>3. TypeOf[t] \in Types
  BY TaskAssumption
<1> QED
  BY <1>1, <1>2, <1>3 DEF AccountsFor, NotifiesCapacityReleased

\* Nothing is in use when nothing is held.
LEMMA NoUsageExact ==
  ASSUME NEW cap, IsCapabilities(cap)
  PROVE  NoUsage \in AdmissionStates /\ AccountsFor(NoUsage, {}) /\ WithinCapacity(cap, NoUsage)
<1>1. \A p \in Pools : Units({}, p) = {}
  BY DEF Units
<1>2. \A y \in Types : OfType({}, y) = {}
  BY DEF OfType
<1>3. AccountsFor(NoUsage, {})
  BY <1>1, <1>2, FS_EmptySet DEF AccountsFor, NoUsage
<1>4. WithinCapacity(cap, NoUsage)
  BY DEF WithinCapacity, NoUsage, IsCapabilities
<1> QED
  BY <1>3, <1>4 DEF NoUsage, AdmissionStates

\* The usage maps keep their type.
LEMMA UsageType ==
  ASSUME NEW a \in AdmissionStates, NEW t \in Tasks
  PROVE  Reserve(a, t) \in AdmissionStates /\ Release(a, t) \in AdmissionStates
<1>1. TypeOf[t] \in Types
  BY TaskAssumption
<1>2. \A p \in Pools : Amount(t, p) \in Nat /\ a.inUse[p] \in Nat
  BY TaskAssumption, WordAssumption DEF Amount, AdmissionStates
<1>3. \A x, y \in Nat : (x + y) % Word \in Nat
  <2> TAKE x, y \in Nat
  <2>1. x + y \in Int
    OBVIOUS
  <2> QED
    BY <2>1, WordAssumption
<1>4. Reserve(a, t) \in AdmissionStates
  BY <1>1, <1>2, <1>3 DEF Reserve, AdmissionStates
<1>5. Release(a, t) \in AdmissionStates
  BY <1>1, <1>2 DEF Release, AdmissionStates
<1> QED
  BY <1>4, <1>5
==============================================================================
