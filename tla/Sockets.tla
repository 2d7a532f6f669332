------------------------------- MODULE Sockets -------------------------------
(***************************************************************************)
(* Setting up the sockets of one Umem: an IfInfo names an interface queue,  *)
(* sockets are created for it, fq_cq and rx_tx have the kernel size their   *)
(* rings, bind attaches them (src/src/xsk/iface.rs, socket.rs, umem.rs).    *)
(*                                                                         *)
(* One action per call. The steps of fq_cq and of a drop are the subject of *)
(* DeviceRegistry; here a call has an outcome. Something, a User or a ring, *)
(* keeps each descriptor open, so that the kernel forgets nothing. All is   *)
(* in one network namespace: the cookie of an IfCtx tells nothing apart.    *)
(***************************************************************************)
EXTENDS Naturals, FiniteSets

CONSTANTS
  Interface, \* indices of the network interfaces
  Queue,     \* queue ids
  Fd,        \* kernel sockets
  UmemFd,    \* the one that Umem::new creates
  Config,    \* SocketConfig values; a size of 0 is None
  Trusting   \* the client does not check what from_ifindex has done

PacketRing == {"rx", "tx"}
BindFlag == {"shared", "copy", "zerocopy", "need_wakeup"}

ASSUME SocketsAssumption ==
  /\ Interface \subseteq Nat \ {0}
  /\ Queue \subseteq Nat /\ 0 \in Queue
  /\ UmemFd \in Fd
  /\ Config \subseteq [rx : Nat, tx : Nat, bind_flags : SUBSET BindFlag]
  /\ Trusting \in BOOLEAN

VARIABLES
  info,     \* the client's IfInfo
  asked,    \* the interface queue that the client means by it
  sockets,  \* per fd: its Socket, with the ctx copied from info, and what was asked
  devices,  \* DeviceControl: the interface queues that are taken
  queues,   \* sockets with a DeviceQueue
  users,    \* User values, as [fd, config]
  device,   \* kernel: fill and completion rings that were sized
  packet,   \* kernel: entries of the RX and TX ring
  bound     \* kernel: the interface queue a socket is bound to

names == <<info, asked>>
registry == <<devices, queues>>
kernel == <<device, packet, bound>>
vars == <<names, sockets, registry, users, kernel>>

\* IfInfo::invalid, which also stands for a socket that is not bound.
Invalid == [ifindex |-> 0, queue_id |-> 0]
IfCtx == [ifindex : Interface \union {0}, queue_id : Queue]
NoSocket == [open |-> FALSE, ctx |-> Invalid, asked |-> Invalid]

Init ==
  /\ info = Invalid /\ asked = Invalid
  /\ sockets = [fd \in Fd |-> NoSocket]
  /\ devices = {} /\ queues = {} /\ users = {}
  /\ device = [fd \in Fd |-> {}]
  /\ packet = [fd \in Fd |-> [ring \in PacketRing |-> 0]]
  /\ bound = [fd \in Fd |-> Invalid]

-----------------------------------------------------------------------------
(* IfInfo *)

\* Mutant: the queue of the interface named before is kept.
FromNameKeepsQueue(i) ==
  /\ info' = [info EXCEPT !.ifindex = i]
  /\ asked' = [ifindex |-> i, queue_id |-> 0]
  /\ UNCHANGED <<sockets, registry, users, kernel>>

\* IfInfo::from_name; nothing changes when there is no such interface.
FromName(i) ==
  /\ info' = [ifindex |-> i, queue_id |-> 0]
  /\ asked' = [ifindex |-> i, queue_id |-> 0]
  /\ UNCHANGED <<sockets, registry, users, kernel>>

\* IfInfo::from_ifindex looks up the name and leaves ctx as it is.
FromIfindex(i) ==
  /\ asked' = [asked EXCEPT !.ifindex = i]
  /\ UNCHANGED <<info, sockets, registry, users, kernel>>

SetQueue(q) ==
  /\ info' = [info EXCEPT !.queue_id = q]
  /\ asked' = [asked EXCEPT !.queue_id = q]
  /\ UNCHANGED <<sockets, registry, users, kernel>>

-----------------------------------------------------------------------------
(* Sockets and their rings *)

\* Socket::new, and Socket::with_shared for the socket of the Umem, for an IfInfo
\* that was filled in. A client that is not Trusting looks at its ifindex() first.
NewSocket(fd) ==
  /\ ~sockets[fd].open
  /\ asked.ifindex # 0
  /\ Trusting \/ info.ifindex = asked.ifindex
  /\ sockets' = [sockets EXCEPT ![fd] = [open |-> TRUE, ctx |-> info, asked |-> asked]]
  /\ UNCHANGED <<names, registry, users, kernel>>

\* fq_cq gets past the registry, and the kernel sizes the first ring: it does so
\* once, and not for a socket that is bound.
SizesFirst(fd) ==
  /\ sockets[fd].open /\ sockets[fd].ctx \notin devices
  /\ device[fd] = {} /\ bound[fd] = Invalid

\* fq_cq returns a DeviceQueue.
Creates(fd) ==
  /\ devices' = devices \union {sockets[fd].ctx}
  /\ queues' = queues \union {fd}

\* Mutant: the fill ring is sized first.
FqCqFillFirst(fd) ==
  /\ SizesFirst(fd)
  /\ \/ device' = [device EXCEPT ![fd] = {"fill"}] /\ UNCHANGED registry
     \/ /\ device' = [device EXCEPT ![fd] = {"comp", "fill"}]
        /\ UNCHANGED registry \/ Creates(fd)
  /\ UNCHANGED <<names, sockets, users, packet, bound>>

\* Mutant: the guard is not forgotten, and removes the entry of the new queue.
FqCqGuarded(fd) ==
  /\ SizesFirst(fd)
  /\ \/ device' = [device EXCEPT ![fd] = {"comp"}] /\ UNCHANGED registry
     \/ /\ device' = [device EXCEPT ![fd] = {"comp", "fill"}]
        /\ queues' \in {queues, queues \union {fd}} /\ UNCHANGED devices
  /\ UNCHANGED <<names, sockets, users, packet, bound>>

\* Umem::fq_cq. It may fail between the completion and the fill ring, and after both
\* were sized.
FqCq(fd) ==
  /\ SizesFirst(fd)
  /\ \/ device' = [device EXCEPT ![fd] = {"comp"}] /\ UNCHANGED registry
     \/ /\ device' = [device EXCEPT ![fd] = {"comp", "fill"}]
        /\ UNCHANGED registry \/ Creates(fd)
  /\ UNCHANGED <<names, sockets, users, packet, bound>>

\* Drop of a DeviceQueue: the interface queue is given back, in use or not. Users
\* and rings keep the descriptor open, and the socket bound.
DropQueue(fd) ==
  /\ fd \in queues
  /\ devices' = devices \ {sockets[fd].ctx}
  /\ queues' = queues \ {fd}
  /\ UNCHANGED <<names, sockets, users, kernel>>

\* What setsockopt for a packet ring makes of its size: none asked for, sized, or an
\* error. The kernel sizes a ring once, and not when the socket is bound.
Sized(fd, ring, wanted) ==
  LET before == packet[fd][ring]
  IN  IF wanted = 0 THEN {[size |-> before, ok |-> TRUE]}
      ELSE {[size |-> before, ok |-> FALSE]} \union
           {[size |-> s, ok |-> TRUE] :
              s \in IF before = 0 /\ bound[fd] = Invalid THEN {wanted} ELSE {}}

\* Mutant: an error of the first setsockopt is ignored.
RxTxUnchecked(fd, config) ==
  /\ sockets[fd].open
  /\ \E rx \in Sized(fd, "rx", config.rx), tx \in Sized(fd, "tx", config.tx) :
       /\ packet' = [packet EXCEPT ![fd]["rx"] = rx.size, ![fd]["tx"] = tx.size]
       /\ users' = IF tx.ok THEN users \union {[fd |-> fd, config |-> config]} ELSE users
  /\ UNCHANGED <<names, sockets, registry, device, bound>>

\* Umem::rx_tx: configure_rt sizes RX, then TX; an error returns at once and leaves
\* behind what was sized before. The last query may fail, too.
RxTx(fd, config) ==
  /\ sockets[fd].open
  /\ \E rx \in Sized(fd, "rx", config.rx) :
       \/ /\ ~rx.ok
          /\ UNCHANGED <<packet, users>>
       \/ /\ rx.ok
          /\ \E tx \in Sized(fd, "tx", config.tx) :
               /\ packet' = [packet EXCEPT ![fd]["rx"] = rx.size, ![fd]["tx"] = tx.size]
               /\ users' \in {users, IF tx.ok THEN users \union {[fd |-> fd, config |-> config]}
                                     ELSE users}
  /\ UNCHANGED <<names, sockets, registry, device, bound>>

-----------------------------------------------------------------------------
(* bind *)

\* Mutant: the flag is set for DeviceQueue::bind only.
FlagsByQueue(user, owner) ==
  user.config.bind_flags \union (IF owner # UmemFd THEN {"shared"} ELSE {})

\* bind_at adds XDP_BIND_SHARED_UMEM, and the fd of the owner, for a socket other
\* than the owner.
Flags(user, owner) ==
  user.config.bind_flags \union (IF user.fd # owner THEN {"shared"} ELSE {})

HasRings(fd) == device[fd] = {"comp", "fill"}

\* The kernel's conditions: an interface, a packet ring, and one pair of fill and
\* completion ring for the interface queue, that of the socket itself or that of
\* the owner if it is bound there. With the flag for sharing there is an owner that
\* is bound, no memory of the socket's own and no other flag.
Binds(user, owner) ==
  LET fd == user.fd
      at == sockets[fd].ctx
  IN  /\ bound[fd] = Invalid /\ at.ifindex # 0
      /\ \E ring \in PacketRing : packet[fd][ring] # 0
      /\ \/ /\ "shared" \notin Flags(user, owner)
            /\ fd = UmemFd
         \/ /\ Flags(user, owner) = {"shared"}
            /\ fd # owner /\ fd # UmemFd /\ bound[owner] # Invalid
      /\ \/ bound[owner] = at /\ device[fd] = {}
         \/ HasRings(fd) /\ \A other \in Fd : bound[other] # at

\* Umem::bind, with the Umem's socket as the owner, and DeviceQueue::bind.
Bind(user, owner) ==
  /\ owner = UmemFd \/ owner \in queues
  /\ Binds(user, owner)
  /\ bound' = [bound EXCEPT ![user.fd] = sockets[user.fd].ctx]
  /\ UNCHANGED <<names, sockets, registry, users, device, packet>>

-----------------------------------------------------------------------------
Next ==
  \/ \E i \in Interface : FromName(i) \/ FromIfindex(i)
  \/ \E q \in Queue : SetQueue(q)
  \/ \E fd \in Fd : \/ NewSocket(fd)
                    \/ FqCq(fd)
                    \/ DropQueue(fd)
                    \/ \E config \in Config : RxTx(fd, config)
  \/ \E user \in users, owner \in Fd : Bind(user, owner)

Spec == Init /\ [][Next]_vars

-----------------------------------------------------------------------------
(* Properties *)

\* Every variable keeps its type; of the device rings the completion ring comes
\* first.
TypeOK ==
  /\ {info, asked} \subseteq IfCtx
  /\ sockets \in [Fd -> [open : BOOLEAN, ctx : IfCtx, asked : IfCtx]]
  /\ devices \subseteq IfCtx /\ queues \subseteq Fd
  /\ users \subseteq [fd : Fd, config : Config]
  /\ device \in [Fd -> {{}, {"comp"}, {"comp", "fill"}}]
  /\ packet \in [Fd -> [PacketRing -> Nat]]
  /\ bound \in [Fd -> IfCtx]

\* map_rx and map_tx map a ring with the size that the kernel gave it: a User knows
\* the sizes of its rings although rx_tx may be called again, with other sizes, and
\* may fail between the two rings.
RingsFit ==
  \A user \in users : \A ring \in PacketRing :
    user.config[ring] # 0 => packet[user.fd][ring] = user.config[ring]

\* A socket is bound to the interface queue that its IfInfo was told, also when
\* the client goes on to use the IfInfo for others: "Set the information from an
\* interface" (from_name, from_ifindex).
BoundAsAsked ==
  \A fd \in Fd : bound[fd] # Invalid => bound[fd] = sockets[fd].asked

\* Interface queues in use without a DeviceQueue: that of the socket that is bound
\* there with its rings was dropped, or fq_cq failed when they were sized already.
Strays == {bound[fd] : fd \in {g \in Fd : bound[g] # Invalid /\ HasRings(g) /\ g \notin queues}}

\* "A synchronized set for tracking which IfCtx are taken": whatever the client binds,
\* and through whom, the registry of fq_cq lists every interface queue that is in use,
\* except for strays.
TakenTracked ==
  \A fd \in Fd : bound[fd] # Invalid => bound[fd] \in devices \union Strays

Asks(user) == \E ring \in PacketRing : user.config[ring] # 0

\* The calls that the tree in the docs of Umem::bind shows: a socket with fill and
\* completion rings of its own is bound through the Umem, one without through the
\* socket that is bound to the same interface queue with them. (Of "fd7: socket +rx/tx
\* on ifq1" below "fd6: socket +fq/cq for ifq2" the comment in bind_at says why it
\* cannot work.) Only the Umem's socket passes flags.
InTree(user, owner) ==
  /\ Asks(user)
  /\ user.config.bind_flags \subseteq IF user.fd = UmemFd THEN BindFlag \ {"shared"} ELSE {}
  /\ \/ /\ user.fd \in queues
        /\ owner = UmemFd
        /\ user.fd = UmemFd \/ bound[UmemFd] # Invalid
     \/ /\ device[user.fd] = {} /\ user.fd # owner /\ user.fd # UmemFd
        /\ owner \in queues /\ bound[owner] = sockets[user.fd].asked

\* The kernel's conditions hold for those calls: bind_at passes the flag and the
\* owner that it wants, and what the registry of fq_cq has admitted is not busy unless
\* a stray is there, whatever calls of fq_cq and rx_tx have failed before, and
\* whichever DeviceQueues were dropped.
TreeBinds ==
  \A user \in users, owner \in Fd :
    InTree(user, owner) /\ bound[user.fd] = Invalid /\ sockets[user.fd].ctx \notin Strays
      => Binds(user, owner)
=============================================================================
