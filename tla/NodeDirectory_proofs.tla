------------------------ MODULE NodeDirectory_proofs ------------------------
(***************************************************************************)
(* The node directory for any addresses, identities and snapshots: what it *)
(* lists follows discovery whatever was rekeyed in between, and a record   *)
(* that counts as available has a connection.                              *)
(***************************************************************************)
EXTENDS NodeDirectory, WellFoundedInduction, TLAPS

\* The record of a node has many fields: SMT gets more than its 5 seconds, and a
\* leaf whose translation runs out of time is tried again.
USE SMTT(60), Z3T(60), ZenonT(60)

Infos == [id : NodeIds, addr : Addresses]

\* The values of nodes_.
Directories == UNION {[D -> Records] : D \in SUBSET NodeIds}

\* What AvailableHasConnection says of one record.
Usable(r) == /\ r.status = "connected" => r.conn # None
             /\ r.status = "connecting" => r.attempts # {}

AllUsable(ns) == \A i \in DOMAIN ns : Usable(ns[i])

DirTypeOK ==
  /\ nodes \in Directories
  /\ DOMAIN origin \subseteq NodeIds /\ origin \in [DOMAIN origin -> NodeIds]
  /\ callbacks \in Nat
  /\ snapshot \in Seq(Infos)

\* An origin leads to a record that is listed, unless a snapshot dropped it.
OriginsListed == \A o \in DOMAIN origin \ stranded : origin[o] \in DOMAIN nodes

\* The inductive invariant.
DirInv == DirTypeOK /\ MembersStay /\ OriginsListed /\ AllUsable(nodes)

-------------------------------------------------------------------------------
\* Every non-empty set of natural numbers has a least element: the form of
\* induction used for the loop over a snapshot.
LEMMA LeastElement ==
  ASSUME NEW T \in SUBSET Nat, T # {}
  PROVE  \E m \in T : \A k \in T : m <= k
<1> DEFINE R == {ss \in Nat \X Nat : ss[1] < ss[2]}
<1>1. IsWellFoundedOn(R, Nat)
  BY NatLessThanWellFounded DEF OpToRel
<1>2. \A k, m \in Nat : <<k, m>> \in R <=> k < m
  OBVIOUS
<1> HIDE DEF R
<1>3. PICK m \in T : \A k \in T : ~(<<k, m>> \in R)
  BY <1>1, WFMin, ZenonT(60)
<1>4. \A k \in T : m <= k
  <2> TAKE k \in T
  <2>1. k \in Nat /\ m \in Nat /\ ~(k < m)
    BY <1>2, <1>3, ZenonT(60)
  <2> QED
    BY <2>1
<1> QED
  BY <1>4

\* What it is to be a directory, without the union.
LEMMA DirectoryIs ==
  ASSUME NEW ns
  PROVE  ns \in Directories <=> DOMAIN ns \subseteq NodeIds /\ ns \in [DOMAIN ns -> Records]
<1>1. ASSUME ns \in Directories
      PROVE  DOMAIN ns \subseteq NodeIds /\ ns \in [DOMAIN ns -> Records]
  <2>1. PICK D \in SUBSET NodeIds : ns \in [D -> Records]
    BY <1>1 DEF Directories
  <2> QED
    BY <2>1
<1>2. ASSUME DOMAIN ns \subseteq NodeIds, ns \in [DOMAIN ns -> Records]
      PROVE  ns \in Directories
  BY <1>2 DEF Directories
<1> QED
  BY <1>1, <1>2

\* Listing or relisting one record.
LEMMA PutIs ==
  ASSUME NEW ns \in Directories, NEW i \in NodeIds, NEW r \in Records
  PROVE  /\ Put(ns, i, r) \in Directories
         /\ DOMAIN Put(ns, i, r) = DOMAIN ns \cup {i}
         /\ AllUsable(ns) /\ Usable(r) => AllUsable(Put(ns, i, r))
<1>1. DOMAIN ns \subseteq NodeIds /\ \A j \in DOMAIN ns : ns[j] \in Records
  BY DirectoryIs
<1>2. /\ DOMAIN Put(ns, i, r) = DOMAIN ns \cup {i}
      /\ \A j \in DOMAIN ns \cup {i} : Put(ns, i, r)[j] = IF j = i THEN r ELSE ns[j]
  BY DEF Put
<1>3. Put(ns, i, r) \in [DOMAIN ns \cup {i} -> Records]
  BY <1>1 DEF Put
<1>4. Put(ns, i, r) \in Directories
  BY <1>1, <1>2, <1>3, DirectoryIs
<1>5. AllUsable(ns) /\ Usable(r) => AllUsable(Put(ns, i, r))
  BY <1>2 DEF AllUsable
<1> QED
  BY <1>2, <1>4, <1>5

\* Unlisting records.
LEMMA WithoutIs ==
  ASSUME NEW ns \in Directories, NEW S
  PROVE  /\ Without(ns, S) \in Directories
         /\ DOMAIN Without(ns, S) = DOMAIN ns \ S
         /\ AllUsable(ns) => AllUsable(Without(ns, S))
<1>1. DOMAIN ns \subseteq NodeIds /\ \A j \in DOMAIN ns : ns[j] \in Records
  BY DirectoryIs
<1>2. /\ DOMAIN Without(ns, S) = DOMAIN ns \ S
      /\ \A j \in DOMAIN ns \ S : Without(ns, S)[j] = ns[j]
  BY DEF Without
<1>3. Without(ns, S) \in [DOMAIN ns \ S -> Records]
  BY <1>1 DEF Without
<1>4. Without(ns, S) \in Directories
  BY <1>1, <1>2, <1>3, DirectoryIs
<1>5. AllUsable(ns) => AllUsable(Without(ns, S))
  BY <1>2 DEF AllUsable
<1> QED
  BY <1>2, <1>4, <1>5

\* Changing the record of one node.
LEMMA UpdateIs ==
  ASSUME NEW ns \in Directories, NEW i \in DOMAIN ns, NEW r \in Records
  PROVE  /\ [ns EXCEPT ![i] = r] \in Directories
         /\ DOMAIN [ns EXCEPT ![i] = r] = DOMAIN ns
         /\ AllUsable(ns) /\ Usable(r) => AllUsable([ns EXCEPT ![i] = r])
<1>1. DOMAIN ns \subseteq NodeIds /\ ns \in [DOMAIN ns -> Records]
  BY DirectoryIs
<1>2. [ns EXCEPT ![i] = r] \in [DOMAIN ns -> Records] /\ DOMAIN [ns EXCEPT ![i] = r] = DOMAIN ns
  BY <1>1
<1>3. [ns EXCEPT ![i] = r] \in Directories
  BY <1>1, <1>2, DirectoryIs
<1>4. AllUsable(ns) /\ Usable(r) => AllUsable([ns EXCEPT ![i] = r])
  BY <1>1, <1>2 DEF AllUsable
<1> QED
  BY <1>2, <1>3, <1>4

\* A record that starts to connect is usable: its connect is under way.
LEMMA StartConnectIs ==
  ASSUME NEW r \in Records, NEW addr \in Addresses
  PROVE  StartConnect(r, addr) \in Records /\ Usable(StartConnect(r, addr))
<1> DEFINE c == StartConnect(r, addr)
<1>1. c \in Records
  BY ZenonT(60) DEF StartConnect, Records, Peer
<1>2. c.status = "connecting" /\ addr \in c.attempts
  BY DEF StartConnect, Records
<1> QED
  BY <1>1, <1>2 DEF Usable

\* One entry of a snapshot adds a record, moves one, or changes nothing.
LEMMA AnnounceIs ==
  ASSUME DirTypeOK, NEW ns \in Directories, NEW info \in Infos
  PROVE  /\ Announce(ns, info) \in Directories
         /\ DOMAIN ns \subseteq DOMAIN Announce(ns, info)
         /\ info.id \notin DOMAIN origin => info.id \in DOMAIN Announce(ns, info)
         /\ AllUsable(ns) => AllUsable(Announce(ns, info))
<1> DEFINE k == CanonicalOf(info.id)
<1>1. info.id \in NodeIds /\ info.addr \in Addresses
  BY DEF Infos
<1>2. info.id \notin DOMAIN origin => k = info.id
  BY DEF CanonicalOf
<1> HIDE DEF k
<1>3. CASE k \notin DOMAIN ns
  <2>1. Announce(ns, info) = Put(ns, info.id, StartConnect(Fresh(info.addr), info.addr))
    BY <1>3 DEF Announce, AddNode, k
  <2>2. Fresh(info.addr) \in Records
    BY <1>1 DEF Fresh, Records, Peer
  <2>3. PICK c \in Records : c = StartConnect(Fresh(info.addr), info.addr) /\ Usable(c)
    BY <1>1, <2>2, StartConnectIs
  <2>4. /\ Put(ns, info.id, c) \in Directories
        /\ DOMAIN Put(ns, info.id, c) = DOMAIN ns \cup {info.id}
        /\ AllUsable(ns) => AllUsable(Put(ns, info.id, c))
    BY <1>1, <2>3, PutIs, ZenonT(60)
  <2>5. Announce(ns, info) = Put(ns, info.id, c)
    BY <2>1, <2>3
  <2> QED
    BY <2>4, <2>5, ZenonT(60)
<1>4. CASE k \in DOMAIN ns /\ ns[k].addr # info.addr
  <2>1. Announce(ns, info) = [ns EXCEPT ![k] = StartConnect(ns[k], info.addr)]
    BY <1>4 DEF Announce, ReconnectTo, k
  <2>2. ns[k] \in Records
    BY <1>4, DirectoryIs
  <2>3. PICK c \in Records : c = StartConnect(ns[k], info.addr) /\ Usable(c)
    BY <1>1, <2>2, StartConnectIs
  <2>4. /\ [ns EXCEPT ![k] = c] \in Directories
        /\ DOMAIN [ns EXCEPT ![k] = c] = DOMAIN ns
        /\ AllUsable(ns) => AllUsable([ns EXCEPT ![k] = c])
    BY <1>4, <2>3, UpdateIs
  <2>5. Announce(ns, info) = [ns EXCEPT ![k] = c]
    BY <2>1, <2>3
  <2> QED
    BY <1>2, <1>4, <2>4, <2>5, ZenonT(60)
<1>5. CASE k \in DOMAIN ns /\ ns[k].addr = info.addr
  <2>1. Announce(ns, info) = ns
    BY <1>5 DEF Announce, k
  <2> QED
    BY <1>2, <1>5, <2>1
<1> QED
  BY <1>3, <1>4, <1>5

\* One round of the first loop of Reconcile.
LoopNext(s, f, i) == IF i = 0 THEN nodes ELSE Announce(f[i - 1], s[i])

\* The loop is well defined.
LEMMA LoopExists ==
  ASSUME DirTypeOK, NEW s \in Seq(Infos)
  PROVE  \E f \in [0..Len(s) -> Directories] :
           \A i \in 0..Len(s) : f[i] = LoopNext(s, f, i)
<1> DEFINE Good(n) == \E f \in [0..n -> Directories] :
                        \A i \in 0..n : f[i] = LoopNext(s, f, i)
           Bad == {n \in 0..Len(s) : ~Good(n)}
<1>1. Len(s) \in Nat /\ \A i \in 1..Len(s) : s[i] \in Infos
  OBVIOUS
<1>2. Good(0)
  <2> DEFINE f == [i \in 0..0 |-> nodes]
  <2>1. f \in [0..0 -> Directories]
    BY DEF DirTypeOK
  <2>2. \A i \in 0..0 : f[i] = LoopNext(s, f, i)
    BY DEF LoopNext
  <2> QED
    BY <2>1, <2>2, ZenonT(60)
<1>3. ASSUME NEW n \in 1..Len(s), Good(n - 1)
      PROVE  Good(n)
  <2>1. PICK f \in [0..(n - 1) -> Directories] :
               \A i \in 0..(n - 1) : f[i] = LoopNext(s, f, i)
    BY <1>3
  <2> DEFINE last == LoopNext(s, f, n)
             g == [i \in 0..n |-> IF i = n THEN last ELSE f[i]]
  <2>2. n \in Nat \ {0} /\ n - 1 \in 0..(n - 1) /\ s[n] \in Infos
    BY <1>1
  <2>3. f[n - 1] \in Directories
    BY <2>2
  <2>4. last \in Directories
    <3>1. last = Announce(f[n - 1], s[n])
      BY <2>2 DEF LoopNext
    <3> QED
      BY <2>2, <2>3, <3>1, AnnounceIs
  <2> HIDE DEF last
  <2>5. g \in [0..n -> Directories]
    BY <2>2, <2>4
  <2>6. ASSUME NEW i \in 0..n
        PROVE  g[i] = LoopNext(s, g, i)
    <3>1. i # 0 => g[i - 1] = f[i - 1]
      BY <2>2
    <3>2. CASE i = n
      BY <2>2, <3>1, <3>2 DEF last, LoopNext
    <3>3. CASE i # n
      <4>1. i \in 0..(n - 1) /\ g[i] = f[i]
        BY <2>2, <3>3
      <4> QED
        BY <2>1, <3>1, <4>1, ZenonT(60) DEF LoopNext
    <3> QED
      BY <3>2, <3>3
  <2> HIDE DEF g
  <2> QED
    BY <2>5, <2>6, ZenonT(60)
<1> HIDE DEF Good
<1>4. Bad = {}
  <2> SUFFICES ASSUME Bad # {} PROVE FALSE
    OBVIOUS
  <2>1. PICK m \in Bad : \A k \in Bad : m <= k
    <3>1. Bad \in SUBSET Nat
      BY <1>1
    <3> HIDE DEF Bad
    <3> QED
      BY <3>1, LeastElement
  <2>2. m \in 1..Len(s) /\ m - 1 \in 0..Len(s) /\ ~(m <= m - 1)
    BY <1>1, <1>2
  <2>3. Good(m - 1)
    BY <2>1, <2>2
  <2> QED
    BY <1>3, <2>2, <2>3
<1>5. Good(Len(s))
  BY <1>1, <1>4
<1> QED
  BY <1>5 DEF Good

\* After the loop everything that was listed still is, and everything announced
\* under a name that leads nowhere else.
LEMMA LoopIs ==
  ASSUME DirTypeOK, NEW s \in Seq(Infos), NEW added, added = AnnouncedUpTo(s)[Len(s)]
  PROVE  /\ added \in Directories
         /\ DOMAIN nodes \subseteq DOMAIN added
         /\ \A j \in 1..Len(s) : s[j].id \notin DOMAIN origin => s[j].id \in DOMAIN added
         /\ AllUsable(nodes) => AllUsable(added)
<1> DEFINE f == AnnouncedUpTo(s)
           Good(n) == /\ f[n] \in Directories
                      /\ DOMAIN nodes \subseteq DOMAIN f[n]
                      /\ \A j \in 1..n : s[j].id \notin DOMAIN origin => s[j].id \in DOMAIN f[n]
                      /\ AllUsable(nodes) => AllUsable(f[n])
           Bad == {n \in 0..Len(s) : ~Good(n)}
<1>1. Len(s) \in Nat /\ \A i \in 1..Len(s) : s[i] \in Infos
  OBVIOUS
<1>2. \A i \in 0..Len(s) : f[i] = LoopNext(s, f, i)
  <2>1. PICK g \in [0..Len(s) -> Directories] : \A i \in 0..Len(s) : g[i] = LoopNext(s, g, i)
    BY LoopExists, ZenonT(60)
  <2>2. g = [i \in 0..Len(s) |-> IF i = 0 THEN nodes ELSE Announce(g[i - 1], s[i])]
    BY <2>1 DEF LoopNext
  <2>3. f = [i \in 0..Len(s) |-> IF i = 0 THEN nodes ELSE Announce(f[i - 1], s[i])]
    BY <2>2, ZenonT(60) DEF AnnouncedUpTo
  <2> QED
    BY <2>3, ZenonT(60) DEF LoopNext
<1> HIDE DEF f
<1>3. Good(0)
  <2>1. f[0] = nodes
    BY <1>1, <1>2 DEF LoopNext
  <2> QED
    BY <2>1 DEF DirTypeOK
<1>4. ASSUME NEW n \in 1..Len(s), Good(n - 1)
      PROVE  Good(n)
  <2>1. n \in 0..Len(s) /\ n # 0 /\ s[n] \in Infos /\ \A j \in 1..n : j = n \/ j \in 1..(n - 1)
    BY <1>1
  <2>2. f[n] = Announce(f[n - 1], s[n])
    BY <1>2, <2>1 DEF LoopNext
  <2>3. /\ f[n] \in Directories
        /\ DOMAIN f[n - 1] \subseteq DOMAIN f[n]
        /\ s[n].id \notin DOMAIN origin => s[n].id \in DOMAIN f[n]
        /\ AllUsable(f[n - 1]) => AllUsable(f[n])
    BY <1>4, <2>1, <2>2, AnnounceIs
  <2> QED
    BY <1>4, <2>1, <2>3
<1> HIDE DEF Good
<1>5. Bad = {}
  <2> SUFFICES ASSUME Bad # {} PROVE FALSE
    OBVIOUS
  <2>1. PICK m \in Bad : \A k \in Bad : m <= k
    <3>1. Bad \in SUBSET Nat
      BY <1>1
    <3> HIDE DEF Bad
    <3> QED
      BY <3>1, LeastElement
  <2>2. m \in 1..Len(s) /\ m - 1 \in 0..Len(s) /\ ~(m <= m - 1)
    BY <1>1, <1>3
  <2>3. Good(m - 1)
    BY <2>1, <2>2
  <2> QED
    BY <1>4, <2>2, <2>3
<1>6. Good(Len(s)) /\ added = f[Len(s)]
  BY <1>1, <1>5 DEF f
<1> QED
  BY <1>6 DEF Good

-------------------------------------------------------------------------------
\* A step that lists the same ids and leaves the origins alone.
LEMMA SameMembers ==
  ASSUME DirInv, nodes' \in Directories, DOMAIN nodes' = DOMAIN nodes, AllUsable(nodes'),
         UNCHANGED <<origin, callbacks, history>>
  PROVE  DirInv'
<1>1. /\ origin' = origin /\ callbacks' = callbacks /\ snapshot' = snapshot
      /\ removed' = removed /\ stranded' = stranded /\ shadowed' = shadowed
  BY DEF history
<1>2. /\ \A i : CanonicalOf(i)' = CanonicalOf(i)
      /\ Announced(snapshot)' = Announced(snapshot)
  BY <1>1 DEF CanonicalOf, Announced
<1>3. Present(snapshot)' = Present(snapshot)
  BY <1>1, <1>2 DEF Present, CanonicalOf
<1>4. MembersStay'
  BY <1>1, <1>2, <1>3 DEF DirInv, MembersStay
<1>5. DirTypeOK' /\ OriginsListed' /\ AllUsable(nodes)'
  BY <1>1 DEF DirInv, DirTypeOK, OriginsListed
<1> QED
  BY <1>4, <1>5 DEF DirInv

\* Connects that complete and connections that end: the status of a record says
\* connected only with a connection, connecting only with a connect under way.
LEMMA RecordSteps ==
  ASSUME DirInv, NEW id \in NodeIds,
         \/ EndOfStream(id) \/ DeferredDelete(id)
         \/ \E a \in Addresses : ConnectOk(id, a) \/ ConnectFail(id, a)
  PROVE  DirInv'
<1>1. /\ nodes \in Directories /\ AllUsable(nodes) /\ id \in DOMAIN nodes
      /\ UNCHANGED <<origin, callbacks, history>>
  BY ZenonT(60) DEF DirInv, DirTypeOK, EndOfStream, DeferredDelete, ConnectOk, ConnectFail
<1>2. nodes[id] \in Records /\ Usable(nodes[id]) /\ nodes \in [DOMAIN nodes -> Records]
  BY <1>1, DirectoryIs DEF AllUsable
<1>3. ASSUME NEW r \in Records, Usable(r), nodes' = [nodes EXCEPT ![id] = r]
      PROVE  DirInv'
  BY <1>1, <1>3, UpdateIs, SameMembers, ZenonT(60)
<1>4. CASE EndOfStream(id)
  <2> DEFINE r == [nodes[id] EXCEPT !.closing = TRUE]
  <2>1. nodes' = [nodes EXCEPT ![id] = r]
    BY <1>4 DEF EndOfStream
  <2>2. r \in Records /\ Usable(r)
    BY <1>2, ZenonT(60) DEF Records, Usable
  <2> QED
    BY <1>3, <2>1, <2>2, ZenonT(60)
<1>5. CASE DeferredDelete(id)
  <2> DEFINE r == [nodes[id] EXCEPT !.closing = FALSE, !.conn = None, !.status = "disconnected"]
  <2>1. nodes' = [nodes EXCEPT ![id] = r]
    BY <1>1, <1>2, <1>5, ZenonT(60) DEF DeferredDelete
  <2>2. r \in Records /\ Usable(r)
    BY <1>2, ZenonT(60) DEF Records, Usable, Peer
  <2> QED
    BY <1>3, <2>1, <2>2, ZenonT(60)
<1>6. ASSUME NEW a \in Addresses, ConnectOk(id, a)
      PROVE  DirInv'
  <2> DEFINE c == IF nodes[id].fd = None THEN "badfd" ELSE nodes[id].fd
             r == [nodes[id] EXCEPT !.attempts = @ \ {a}, !.conn = c, !.fd = None,
                                    !.status = "connected"]
  <2>1. nodes' = [nodes EXCEPT ![id] = r]
    BY <1>1, <1>2, <1>6, ZenonT(60) DEF ConnectOk
  <2>2. c \in Peer /\ c # None
    BY <1>2, DirectoryAssumption DEF Records, Peer
  <2> HIDE DEF c
  <2>3. r \in Records /\ Usable(r)
    BY <1>2, <2>2, ZenonT(60) DEF Records, Usable
  <2> QED
    BY <1>3, <2>1, <2>3, ZenonT(60)
<1>7. ASSUME NEW a \in Addresses, ConnectFail(id, a)
      PROVE  DirInv'
  <2> DEFINE r == [nodes[id] EXCEPT !.attempts = @ \ {a}, !.fd = None, !.status = "disconnected"]
  <2>1. nodes' = [nodes EXCEPT ![id] = r]
    BY <1>1, <1>2, <1>7, ZenonT(60) DEF ConnectFail
  <2>2. r \in Records /\ Usable(r)
    BY <1>2, ZenonT(60) DEF Records, Usable
  <2> QED
    BY <1>3, <2>1, <2>2, ZenonT(60)
<1> QED
  BY <1>4, <1>5, <1>6, <1>7

\* RemoveNode unlists one record and every name that led to it.
LEMMA RemoveStep ==
  ASSUME DirInv, NEW id \in NodeIds, RemoveNode(id)
  PROVE  DirInv'
<1> DEFINE gone == {i \in Announced(snapshot) : CanonicalOf(i) = id}
<1>1. /\ nodes' = Without(nodes, {id}) /\ origin' = Without(origin, NamesOf(id))
      /\ removed' = removed \cup gone /\ stranded' = stranded \ NamesOf(id)
      /\ callbacks' = callbacks /\ snapshot' = snapshot /\ shadowed' = shadowed
  BY DEF RemoveNode
<1>2. nodes' \in Directories /\ DOMAIN nodes' = DOMAIN nodes \ {id} /\ AllUsable(nodes)'
  BY <1>1, WithoutIs, ZenonT(60) DEF DirInv, DirTypeOK
<1>3. /\ DOMAIN origin' = DOMAIN origin \ NamesOf(id)
      /\ \A o \in DOMAIN origin' : origin'[o] = origin[o] /\ origin[o] # id
  BY <1>1 DEF Without, NamesOf
<1>4. \A i : CanonicalOf(i) # id => CanonicalOf(i)' = CanonicalOf(i)
  BY <1>3 DEF CanonicalOf, NamesOf
<1>5. Announced(snapshot)' = Announced(snapshot)
  BY <1>1 DEF Announced
<1>6. DirTypeOK'
  <2>1. origin' \in [DOMAIN origin' -> NodeIds]
    BY <1>1, <1>3 DEF DirInv, DirTypeOK, Without
  <2> QED
    BY <1>1, <1>2, <1>3, <2>1 DEF DirInv, DirTypeOK
<1>7. OriginsListed'
  BY <1>1, <1>2, <1>3 DEF DirInv, OriginsListed, NamesOf
<1>8. DOMAIN nodes' \subseteq Present(snapshot)' \cup shadowed'
  <2> SUFFICES ASSUME NEW k \in DOMAIN nodes, k # id, k \notin shadowed
               PROVE  k \in Present(snapshot)'
    BY <1>1, <1>2
  <2>1. PICK i \in Announced(snapshot) : k = CanonicalOf(i)
    BY DEF DirInv, MembersStay, Present
  <2>2. i \in Announced(snapshot)' /\ CanonicalOf(i)' = k
    BY <1>4, <1>5, <2>1
  <2> QED
    BY <2>2 DEF Present
<1>9. \A i \in Announced(snapshot)' \ (removed' \cup stranded') : CanonicalOf(i)' \in DOMAIN nodes'
  <2> SUFFICES ASSUME NEW i \in Announced(snapshot), i \notin removed', i \notin stranded'
               PROVE  CanonicalOf(i)' \in DOMAIN nodes'
    BY <1>5
  <2>1. CanonicalOf(i) # id /\ i \notin removed
    BY <1>1
  <2>2. i \notin NamesOf(id)
    BY <2>1 DEF NamesOf, CanonicalOf
  <2>3. CanonicalOf(i) \in DOMAIN nodes
    BY <1>1, <2>1, <2>2 DEF DirInv, MembersStay
  <2> QED
    BY <1>2, <1>4, <2>1, <2>3
<1> QED
  BY <1>2, <1>6, <1>7, <1>8, <1>9 DEF DirInv, MembersStay

\* An advertisement rekeys the record and re-points every name that led to it;
\* only the name the record was listed under may have led to another record.
LEMMA AdvertiseStep ==
  ASSUME DirInv, NEW id \in NodeIds, Advertise(id)
  PROVE  DirInv'
<1> DEFINE to == Ident[nodes[id].conn]
           r == [nodes[id] EXCEPT !.caps = to]
<1>1. /\ nodes \in Directories /\ AllUsable(nodes) /\ id \in DOMAIN nodes
      /\ nodes[id].conn \in Addresses
      /\ callbacks' = callbacks /\ snapshot' = snapshot /\ removed' = removed
  BY DEF DirInv, DirTypeOK, Advertise
<1>2. to \in Ids /\ to \in NodeIds
  BY <1>1, DirectoryAssumption DEF NodeIds
<1>3. nodes[id] \in Records /\ Usable(nodes[id])
  BY <1>1, DirectoryIs DEF AllUsable
<1>4. r \in Records /\ Usable(r)
  BY <1>2, <1>3 DEF Records, Usable
<1>5. CASE to \in DOMAIN nodes
  <2>1. nodes' = [nodes EXCEPT ![id] = r] /\ UNCHANGED <<origin, callbacks, history>>
    BY <1>1, <1>5 DEF Advertise, history
  <2> QED
    BY <1>1, <1>4, <2>1, UpdateIs, SameMembers, ZenonT(60)
<1>6. CASE to \notin DOMAIN nodes
  <2>1. /\ nodes' = Put(Without(nodes, {id}), to, r) /\ origin' = Rekeyed(id, to)
        /\ stranded' = stranded \ (NamesOf(id) \cup {id})
        /\ shadowed' = (shadowed \ {id})
                         \cup {to : i \in shadowed \cap {id}}
                         \cup {origin[i] : i \in {id} \cap (DOMAIN origin \ NamesOf(id))}
    BY <1>6 DEF Advertise
  <2>2. PICK x \in NodeIds : x = to
    BY <1>2
  <2> HIDE DEF to, r
  <2>3. /\ nodes' \in Directories /\ AllUsable(nodes')
        /\ DOMAIN nodes' = (DOMAIN nodes \ {id}) \cup {x}
    <3>1. PICK w \in Directories : /\ w = Without(nodes, {id}) /\ AllUsable(w)
                                   /\ DOMAIN w = DOMAIN nodes \ {id}
      BY <1>1, WithoutIs
    <3>2. nodes' = Put(w, x, r)
      BY <2>1, <2>2, <3>1
    <3>3. /\ Put(w, x, r) \in Directories /\ AllUsable(Put(w, x, r))
          /\ DOMAIN Put(w, x, r) = DOMAIN w \cup {x}
      BY <1>4, <3>1, PutIs
    <3> QED
      BY <3>1, <3>2, <3>3
  <2>4. /\ id \in shadowed => x \in shadowed'
        /\ id \in DOMAIN origin /\ origin[id] # id => origin[id] \in shadowed'
        /\ \A k \in shadowed : k # id => k \in shadowed'
    BY <2>1, <2>2 DEF NamesOf
  <2>5. /\ DOMAIN origin' = DOMAIN origin \cup {id}
        /\ \A o \in DOMAIN origin \cup {id} :
             origin'[o] = IF o = id THEN x ELSE IF origin[o] = id THEN x ELSE origin[o]
        /\ origin' = [o \in DOMAIN origin \cup {id} |->
                        IF o = id THEN x ELSE IF origin[o] = id THEN x ELSE origin[o]]
    BY <2>1, <2>2 DEF Rekeyed, Put
  <2>6. \A i : /\ i = id \/ CanonicalOf(i) = id => CanonicalOf(i)' = x
               /\ i # id /\ CanonicalOf(i) # id => CanonicalOf(i)' = CanonicalOf(i)
    BY <2>5 DEF CanonicalOf
  <2>7. Announced(snapshot)' = Announced(snapshot)
    BY <1>1 DEF Announced
  <2>8. DirTypeOK'
    <3>1. DOMAIN origin \subseteq NodeIds /\ \A o \in DOMAIN origin : origin[o] \in NodeIds
      BY DEF DirInv, DirTypeOK
    <3>2. origin' \in [DOMAIN origin' -> NodeIds] /\ DOMAIN origin' \subseteq NodeIds
      BY <2>5, <3>1
    <3> QED
      BY <1>1, <2>3, <3>2 DEF DirInv, DirTypeOK
  <2>9. OriginsListed'
    <3> SUFFICES ASSUME NEW o \in DOMAIN origin', o \notin stranded'
                 PROVE  origin'[o] \in DOMAIN nodes'
      BY DEF OriginsListed
    <3>1. CASE o = id \/ origin[o] = id
      BY <2>3, <2>5, <3>1
    <3>2. CASE o # id /\ origin[o] # id
      <4>1. o \in DOMAIN origin /\ origin'[o] = origin[o] /\ o \notin stranded
        BY <2>1, <2>5, <3>2 DEF NamesOf
      <4>2. origin[o] \in DOMAIN nodes
        BY <4>1 DEF DirInv, OriginsListed
      <4> QED
        BY <2>3, <3>2, <4>1, <4>2
    <3> QED
      BY <3>1, <3>2
  <2>10. DOMAIN nodes' \subseteq Present(snapshot)' \cup shadowed'
    <3>1. ASSUME NEW i \in Announced(snapshot)
          PROVE  CanonicalOf(i)' \in Present(snapshot)'
      BY <2>7, <3>1 DEF Present
    <3>2. \A k \in DOMAIN nodes : k \in shadowed \/ \E i \in Announced(snapshot) : k = CanonicalOf(i)
      BY DEF DirInv, MembersStay, Present
    <3>3. x \in Present(snapshot)' \cup shadowed'
      <4>1. CASE id \in shadowed
        BY <2>4, <4>1
      <4>2. ASSUME NEW i \in Announced(snapshot), id = CanonicalOf(i)
            PROVE  x \in Present(snapshot)'
        <5>1. CanonicalOf(i)' = x
          BY <2>6, <4>2
        <5> QED
          BY <3>1, <5>1
      <4> QED
        BY <1>1, <3>2, <4>1, <4>2
    <3>4. ASSUME NEW k \in DOMAIN nodes, k # id
          PROVE  k \in Present(snapshot)' \cup shadowed'
      <4>1. CASE k \in shadowed
        BY <2>4, <3>4, <4>1
      <4>2. ASSUME NEW i \in Announced(snapshot), k = CanonicalOf(i)
            PROVE  k \in Present(snapshot)' \cup shadowed'
        <5>1. CASE i # id
          <6>1. CanonicalOf(i)' = k
            BY <2>6, <3>4, <4>2, <5>1
          <6> QED
            BY <3>1, <6>1
        <5>2. CASE i = id
          <6>1. id \in DOMAIN origin /\ origin[id] = k
            BY <3>4, <4>2, <5>2 DEF CanonicalOf
          <6> QED
            BY <2>4, <3>4, <6>1
        <5> QED
          BY <5>1, <5>2
      <4> QED
        BY <3>2, <3>4, <4>1, <4>2
    <3> QED
      BY <2>3, <3>3, <3>4
  <2>11. \A i \in Announced(snapshot)' \ (removed' \cup stranded') : CanonicalOf(i)' \in DOMAIN nodes'
    <3> SUFFICES ASSUME NEW i \in Announced(snapshot), i \notin removed', i \notin stranded'
                 PROVE  CanonicalOf(i)' \in DOMAIN nodes'
      BY <2>7
    <3>1. CASE i = id \/ CanonicalOf(i) = id
      BY <2>3, <2>6, <3>1
    <3>2. CASE i # id /\ CanonicalOf(i) # id
      <4>1. i \notin removed /\ i \notin stranded
        BY <1>1, <2>1, <3>2 DEF NamesOf, CanonicalOf
      <4>2. CanonicalOf(i) \in DOMAIN nodes
        BY <4>1 DEF DirInv, MembersStay
      <4> QED
        BY <2>3, <2>6, <3>2, <4>2
    <3> QED
      BY <3>1, <3>2
  <2> QED
    BY <2>3, <2>8, <2>9, <2>10, <2>11 DEF DirInv, MembersStay
<1> QED
  BY <1>5, <1>6

\* A snapshot lists what it names, and strands the names that led to the records
\* it drops.
LEMMA ReconcileStep ==
  ASSUME DirInv, NEW s \in Snapshots, Reconcile(s)
  PROVE  DirInv'
<1>1. PICK added : /\ added = AnnouncedUpTo(s)[Len(s)]
                   /\ nodes' = Without(added, DOMAIN added \ Present(s))
                   /\ stranded' = stranded \cup UNION {NamesOf(id) : id \in DOMAIN added \ Present(s)}
  BY ZenonT(60) DEF Reconcile
<1>2. /\ callbacks' = callbacks + 1 /\ snapshot' = s /\ removed' = {} /\ shadowed' = {}
      /\ origin' = origin /\ DirTypeOK
  BY DEF Reconcile, DirInv
<1>3. s \in Seq(Infos)
  BY DirectoryAssumption, ZenonT(60) DEF Infos
<1>4. /\ added \in Directories /\ DOMAIN nodes \subseteq DOMAIN added
      /\ \A j \in 1..Len(s) : s[j].id \notin DOMAIN origin => s[j].id \in DOMAIN added
      /\ AllUsable(added)
  BY <1>1, <1>2, <1>3, LoopIs DEF DirInv
<1>5. /\ nodes' \in Directories /\ AllUsable(nodes')
      /\ DOMAIN nodes' = DOMAIN added \ (DOMAIN added \ Present(s))
  BY <1>1, <1>4, WithoutIs, ZenonT(60)
<1>6. /\ Announced(snapshot)' = Announced(s) /\ Present(snapshot)' = Present(s)
      /\ \A i : CanonicalOf(i)' = CanonicalOf(i)
  BY <1>2 DEF Announced, Present, CanonicalOf
<1>7. ASSUME NEW o \in DOMAIN origin, o \notin stranded', origin[o] \in DOMAIN added
      PROVE  origin[o] \in Present(s)
  BY <1>1, <1>7 DEF NamesOf
<1>8. OriginsListed'
  <2> SUFFICES ASSUME NEW o \in DOMAIN origin, o \notin stranded'
               PROVE  origin[o] \in DOMAIN nodes'
    BY <1>2 DEF OriginsListed
  <2>1. origin[o] \in DOMAIN nodes
    BY <1>1 DEF DirInv, OriginsListed
  <2> QED
    BY <1>4, <1>5, <1>7, <2>1
<1>9. ASSUME NEW i \in Announced(s), i \notin stranded'
      PROVE  CanonicalOf(i) \in DOMAIN nodes'
  <2>1. CanonicalOf(i) \in Present(s)
    BY <1>9 DEF Present
  <2>2. CASE i \in DOMAIN origin
    BY <1>2, <1>8, <1>9, <2>2 DEF OriginsListed, CanonicalOf
  <2>3. CASE i \notin DOMAIN origin
    <3>1. PICK j \in 1..Len(s) : i = s[j].id
      BY <1>3, <1>9 DEF Announced
    <3>2. i \in DOMAIN added /\ CanonicalOf(i) = i
      BY <1>4, <2>3, <3>1 DEF CanonicalOf
    <3> QED
      BY <1>5, <2>1, <3>2
  <2> QED
    BY <2>2, <2>3
<1>10. MembersStay'
  BY <1>2, <1>5, <1>6, <1>9 DEF MembersStay
<1>11. DirTypeOK'
  BY <1>2, <1>3, <1>5 DEF DirTypeOK
<1> QED
  BY <1>5, <1>8, <1>10, <1>11 DEF DirInv

\* The invariant is inductive: it holds in every state the directory reaches,
\* for any addresses, identities, agents and sequences of snapshots.
THEOREM DirInvariance == DirSpec => []DirInv
<1>1. DirInit => DirInv
  <2> SUFFICES ASSUME DirInit
               PROVE  DirInv
    OBVIOUS
  <2>1. /\ nodes = EmptyMap /\ origin = EmptyMap /\ callbacks = 0 /\ snapshot = <<>>
        /\ DOMAIN EmptyMap = {}
    BY DEF DirInit, EmptyMap
  <2>2. EmptyMap \in [{} -> Records] /\ EmptyMap \in [{} -> NodeIds]
    BY DEF EmptyMap
  <2>3. DirTypeOK
    <3>1. EmptyMap \in Directories
      BY <2>1, <2>2, DirectoryIs, ZenonT(60)
    <3>2. <<>> \in Seq(Infos) /\ 0 \in Nat
      OBVIOUS
    <3> QED
      BY <2>1, <2>2, <3>1, <3>2, ZenonT(60) DEF DirTypeOK
  <2>4. Announced(snapshot) = {}
    BY <2>1 DEF Announced
  <2> QED
    BY <2>1, <2>3, <2>4 DEF DirInv, MembersStay, OriginsListed, AllUsable
<1>2. DirInv /\ [DirNext]_dirVars => DirInv'
  <2> SUFFICES ASSUME DirInv, [DirNext]_dirVars
               PROVE  DirInv'
    OBVIOUS
  <2>1. CASE UNCHANGED dirVars
    <3>1. nodes' = nodes /\ UNCHANGED <<origin, callbacks, history>>
      BY <2>1 DEF dirVars
    <3> QED
      BY <3>1, SameMembers DEF DirInv, DirTypeOK
  <2>2. ASSUME NEW s \in Snapshots, Reconcile(s)
        PROVE  DirInv'
    BY <2>2, ReconcileStep
  <2>3. ASSUME NEW id \in NodeIds, DirStep(id) \/ RemoveNode(id)
        PROVE  DirInv'
    BY <2>3, AdvertiseStep, RemoveStep, RecordSteps DEF DirStep
  <2> QED
    BY <2>1, <2>2, <2>3 DEF DirNext
<1> QED
  BY <1>1, <1>2, PTL DEF DirSpec

\* Whatever is rekeyed, moved, removed or refused an identity, the directory lists
\* what the latest snapshot names, with the exceptions MembersStay states.
THEOREM DirectoryFollowsDiscovery == DirSpec => []MembersStay
<1>1. DirInv => MembersStay
  BY DEF DirInv
<1> QED
  BY <1>1, DirInvariance, PTL

\* A record counts as connected only with a connection and as connecting only
\* with a connect under way, even with two connects outstanding.
THEOREM AvailableRecordsConnected == DirSpec => []AvailableHasConnection
<1>1. DirInv => AvailableHasConnection
  BY DEF DirInv, AllUsable, Usable, AvailableHasConnection
<1> QED
  BY <1>1, DirInvariance, PTL
==============================================================================
