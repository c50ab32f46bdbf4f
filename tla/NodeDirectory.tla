---------------------------- MODULE NodeDirectory ----------------------------
(***************************************************************************)
(* The gateway's node directory and node records                           *)
(* (src/src/gateway/core/node_directory.cc, node.cc): discovery snapshots  *)
(* are reconciled with the membership, a record connects to its address,   *)
(* and the advertisement read from the connection rekeys the record to the *)
(* identity the node agent chose.                                          *)
(*                                                                         *)
(* A record that is re-announced while its connect is under way has two    *)
(* connects outstanding and one descriptor, the later one.                 *)
(***************************************************************************)
EXTENDS Naturals, Sequences

CONSTANTS Addresses,
          Ids,         \* identities node agents choose for themselves
          Ident,       \* address |-> identity advertised by the agent there
          Snapshots,   \* bound: what discovery may report, each a sequence
                       \* of [id, addr]
          MaxSnapshots,\* bound on the number of discovery callbacks
          None

NodeIds == Addresses \cup Ids   \* a static source uses the address as the id

ASSUME DirectoryAssumption ==
  /\ Ident \in [Addresses -> Ids]
  /\ None \notin Addresses \cup Ids \cup {"badfd"}
  /\ MaxSnapshots \in Nat
  /\ \A s \in Snapshots : s \in Seq([id : NodeIds, addr : Addresses])

VARIABLES nodes,       \* id |-> record, for the ids listed (nodes_)
          origin,      \* placeholder id |-> canonical id (origin_to_canonical_)
          callbacks,   \* number of discovery callbacks so far
          snapshot,    \* the latest snapshot (history)
          removed,     \* identities RemoveNode unlisted since then (history)
          stranded,    \* identities whose record a snapshot dropped (history)
          shadowed     \* records whose announced identity another record took
                       \* over since the latest snapshot (history)

history == <<snapshot, removed, stranded, shadowed>>
dirVars == <<nodes, origin, callbacks, history>>

(***************************************************************************)
(* status is Node::Status; fd the address of the socket in fd_; conn the   *)
(* peer of connection_, None without one, and closing whether its end of   *)
(* stream was read and its deletion queued; attempts the addresses whose   *)
(* connect has not completed; caps the identity last advertised.           *)
(***************************************************************************)
Peer == Addresses \cup {"badfd", None}
Records == [addr : Addresses, status : {"connecting", "connected", "disconnected"},
            fd : Addresses \cup {None}, conn : Peer, closing : BOOLEAN,
            attempts : SUBSET Addresses, caps : Ids \cup {None}]

EmptyMap == [i \in {} |-> None]

DirInit ==
  /\ nodes = EmptyMap /\ origin = EmptyMap /\ callbacks = 0
  /\ snapshot = <<>> /\ removed = {} /\ stranded = {} /\ shadowed = {}

Put(f, i, v) == [j \in DOMAIN f \cup {i} |-> IF j = i THEN v ELSE f[j]]
Without(f, S) == [j \in DOMAIN f \ S |-> f[j]]

\* Node::StartConnect on a fresh or disconnected record.
StartConnect(r, addr) ==
  [r EXCEPT !.addr = addr, !.status = "connecting", !.fd = addr,
            !.conn = None, !.attempts = @ \cup {addr}]

Fresh(addr) ==
  [addr |-> addr, status |-> "disconnected", fd |-> None, conn |-> None,
   closing |-> FALSE, attempts |-> {}, caps |-> None]

AddNode(ns, id, addr) == Put(ns, id, StartConnect(Fresh(addr), addr))

\* Node::ReconnectTo closes the old connection; a connect under way goes on.
ReconnectTo(r, addr) == StartConnect(r, addr)

CanonicalOf(id) == IF id \in DOMAIN origin THEN origin[id] ELSE id

\* The body of Reconcile's first loop.
Announce(ns, info) ==
  LET k == CanonicalOf(info.id) IN
    IF k \notin DOMAIN ns THEN AddNode(ns, info.id, info.addr)
    ELSE IF ns[k].addr # info.addr THEN [ns EXCEPT ![k] = ReconnectTo(@, info.addr)]
    ELSE ns

\* The directory after each entry of the snapshot.
AnnouncedUpTo(s) ==
  LET ns[i \in 0..Len(s)] == IF i = 0 THEN nodes ELSE Announce(ns[i - 1], s[i])
  IN  ns

Announced(s) == {s[j].id : j \in DOMAIN s}
Present(s) == {CanonicalOf(i) : i \in Announced(s)}

\* The identities that lead to the record listed as id.
NamesOf(id) == {o \in DOMAIN origin : origin[o] = id}

\* The second loop erases what is not present; unlike RemoveNode it keeps the
\* origins of what it erases.
Reconcile(s) ==
  /\ callbacks < MaxSnapshots
  /\ \E added \in {AnnouncedUpTo(s)[Len(s)]} :
       /\ nodes' = Without(added, DOMAIN added \ Present(s))
       /\ stranded' = stranded \cup UNION {NamesOf(id) : id \in DOMAIN added \ Present(s)}
  /\ callbacks' = callbacks + 1
  /\ snapshot' = s /\ removed' = {} /\ shadowed' = {}
  /\ UNCHANGED origin

\* RemoveNode also forgets the origins of the node.
RemoveNode(id) ==
  /\ id \in DOMAIN nodes
  /\ nodes' = Without(nodes, {id})
  /\ origin' = Without(origin, NamesOf(id))
  /\ removed' = removed \cup {i \in Announced(snapshot) : CanonicalOf(i) = id}
  /\ stranded' = stranded \ NamesOf(id)
  /\ UNCHANGED <<callbacks, snapshot, shadowed>>

\* Node::HandleCompletion of one of the connects under way: the descriptor
\* taken is fd_, whichever connect completed.
ConnectOk(id, a) ==
  /\ id \in DOMAIN nodes /\ a \in nodes[id].attempts
  /\ nodes' = [nodes EXCEPT ![id].attempts = @ \ {a},
                            ![id].conn = IF nodes[id].fd = None THEN "badfd" ELSE nodes[id].fd,
                            ![id].fd = None,
                            ![id].status = "connected"]
  /\ UNCHANGED <<origin, callbacks, history>>

ConnectFail(id, a) ==
  /\ id \in DOMAIN nodes /\ a \in nodes[id].attempts
  /\ nodes' = [nodes EXCEPT ![id].attempts = @ \ {a}, ![id].fd = None,
                            ![id].status = "disconnected"]
  /\ UNCHANGED <<origin, callbacks, history>>

\* Faulty variant: the origins that led to the old key are left behind.
RekeyedLazily(from, to) == Put(origin, from, to)

\* RekeyNode re-points the origins that led to the old key.
Rekeyed(from, to) ==
  Put([o \in DOMAIN origin |-> IF origin[o] = from THEN to ELSE origin[o]], from, to)

\* handleNodeAdvertisementFrame: store the capabilities and rekey, unless the
\* advertised identity is listed already.
Advertise(id) ==
  /\ id \in DOMAIN nodes /\ nodes[id].conn \in Addresses /\ ~nodes[id].closing
  /\ LET to == Ident[nodes[id].conn]
         r == [nodes[id] EXCEPT !.caps = to] IN
       IF to \in DOMAIN nodes
         THEN nodes' = [nodes EXCEPT ![id] = r] /\ UNCHANGED <<origin, stranded, shadowed>>
         ELSE /\ nodes' = Put(Without(nodes, {id}), to, r)
              /\ origin' = Rekeyed(id, to)
              /\ stranded' = stranded \ (NamesOf(id) \cup {id})
              /\ shadowed' = (shadowed \ {id})
                               \cup {to : i \in shadowed \cap {id}}
                               \cup {origin[i] : i \in {id} \cap (DOMAIN origin \ NamesOf(id))}
  /\ UNCHANGED <<callbacks, snapshot, removed>>

\* Connection::onEndOfStream queues the deletion and Node::ProcessCommand does it
\* at the start of the next tick, also to a connection made in between. The model
\* lets any completion come in between, the program only those of the same tick.
EndOfStream(id) ==
  /\ id \in DOMAIN nodes /\ nodes[id].conn # None /\ ~nodes[id].closing
  /\ nodes' = [nodes EXCEPT ![id].closing = TRUE]
  /\ UNCHANGED <<origin, callbacks, history>>

\* Faulty variant: the record still counts as connected.
DeferredDeleteKeepsStatus(id) ==
  /\ id \in DOMAIN nodes /\ nodes[id].closing
  /\ nodes' = [nodes EXCEPT ![id].closing = FALSE, ![id].conn = None]
  /\ UNCHANGED <<origin, callbacks, history>>

DeferredDelete(id) ==
  /\ id \in DOMAIN nodes /\ nodes[id].closing
  /\ nodes' = [nodes EXCEPT ![id].closing = FALSE, ![id].conn = None, ![id].status = "disconnected"]
  /\ UNCHANGED <<origin, callbacks, history>>

DirStep(id) ==
  \/ Advertise(id) \/ EndOfStream(id) \/ DeferredDelete(id)
  \/ \E a \in Addresses : ConnectOk(id, a) \/ ConnectFail(id, a)

DirNext ==
  \/ \E s \in Snapshots : Reconcile(s)
  \/ \E id \in NodeIds : DirStep(id) \/ RemoveNode(id)

DirSpec == DirInit /\ [][DirNext]_dirVars

------------------------------------------------------------------------------
\* Whatever was rekeyed, re-announced or refused an identity in between, the
\* directory lists what the latest snapshot names (NodeDirectoryImpl::Reconcile):
\* nothing else, but a record whose own announced name another record was rekeyed
\* from in the meantime, and all of it, but what RemoveNode took out since and
\* what was announced again after an earlier snapshot dropped it, rekeyed.
MembersStay ==
  /\ DOMAIN nodes \subseteq Present(snapshot) \cup shadowed
  /\ \A i \in Announced(snapshot) \ (removed \cup stranded) : CanonicalOf(i) \in DOMAIN nodes

\* A record the schedulers may use has a connection, and a record with neither
\* a connection nor a connect under way is not used.
AvailableHasConnection ==
  \A i \in DOMAIN nodes : /\ nodes[i].status = "connected" => nodes[i].conn # None
                          /\ nodes[i].status = "connecting" => nodes[i].attempts # {}
=============================================================================
