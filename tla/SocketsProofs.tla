---------------------------- MODULE SocketsProofs ----------------------------
(***************************************************************************)
(* Theorems about Sockets, for every set of interfaces, queues, sockets and *)
(* configurations.                                                         *)
(***************************************************************************)
EXTENDS Sockets, TLAPS

LEMMA Constants ==
  /\ Invalid \in IfCtx
  /\ \A i \in Interface : [ifindex |-> i, queue_id |-> 0] \in IfCtx
  /\ UmemFd \in Fd
BY SocketsAssumption DEF Invalid, IfCtx

\* The two sizes of a configuration.
LEMMA ConfigSizes ==
  ASSUME NEW config \in Config
  PROVE  /\ config.rx \in Nat /\ config.tx \in Nat
         /\ config["rx"] = config.rx /\ config["tx"] = config.tx
BY SocketsAssumption

\* A ring keeps its size or gets the one asked for, and only once.
LEMMA SizedFacts ==
  ASSUME NEW fd, NEW ring, packet[fd][ring] \in Nat,
         NEW wanted \in Nat, NEW s \in Sized(fd, ring, wanted)
  PROVE  /\ s.size \in Nat
         /\ packet[fd][ring] # 0 => s.size = packet[fd][ring]
         /\ s.ok /\ wanted # 0 => s.size = wanted
<1> DEFINE before == packet[fd][ring]
<1>1. \/ wanted = 0 /\ s = [size |-> before, ok |-> TRUE]
      \/ s = [size |-> before, ok |-> FALSE]
      \/ before = 0 /\ s = [size |-> wanted, ok |-> TRUE]
  BY DEF Sized
<1>2. \/ wanted = 0 /\ s.size = before
      \/ s.size = before /\ s.ok = FALSE
      \/ before = 0 /\ s.size = wanted
  BY <1>1
<1> QED
  BY <1>2, Zenon

-----------------------------------------------------------------------------
(* Types *)

LEMMA InitType == Init => TypeOK
BY Constants DEF Init, TypeOK, NoSocket

LEMMA RxTxPacket ==
  ASSUME TypeOK, NEW fd \in Fd, NEW config \in Config, RxTx(fd, config)
  PROVE  \E rx \in Nat, tx \in Nat :
           /\ \/ packet' = packet
              \/ packet' = [packet EXCEPT ![fd]["rx"] = rx, ![fd]["tx"] = tx]
           /\ packet[fd]["rx"] # 0 => rx = packet[fd]["rx"]
           /\ packet[fd]["tx"] # 0 => tx = packet[fd]["tx"]
           /\ \/ users' = users
              \/ /\ users' = users \union {[fd |-> fd, config |-> config]}
                 /\ packet' = [packet EXCEPT ![fd]["rx"] = rx, ![fd]["tx"] = tx]
                 /\ config.rx # 0 => rx = config.rx
                 /\ config.tx # 0 => tx = config.tx
<1>1. /\ packet[fd]["rx"] \in Nat /\ packet[fd]["tx"] \in Nat
      /\ config.rx \in Nat /\ config.tx \in Nat
  BY ConfigSizes DEF TypeOK, PacketRing
<1>2. CASE UNCHANGED <<packet, users>>
  BY <1>1, <1>2
<1>3. CASE ~UNCHANGED <<packet, users>>
  <2>1. PICK rx \in Sized(fd, "rx", config.rx) :
          /\ rx.ok
          /\ \E tx \in Sized(fd, "tx", config.tx) :
               /\ packet' = [packet EXCEPT ![fd]["rx"] = rx.size, ![fd]["tx"] = tx.size]
               /\ users' \in {users, IF tx.ok THEN users \union {[fd |-> fd, config |-> config]}
                                     ELSE users}
    BY <1>3 DEF RxTx
  <2>2. PICK tx \in Sized(fd, "tx", config.tx) :
          /\ packet' = [packet EXCEPT ![fd]["rx"] = rx.size, ![fd]["tx"] = tx.size]
          /\ users' \in {users, IF tx.ok THEN users \union {[fd |-> fd, config |-> config]}
                                ELSE users}
    BY <2>1
  <2>3. /\ rx.size \in Nat
        /\ packet[fd]["rx"] # 0 => rx.size = packet[fd]["rx"]
        /\ config.rx # 0 => rx.size = config.rx
    BY <1>1, <2>1, SizedFacts
  <2>4. /\ tx.size \in Nat
        /\ packet[fd]["tx"] # 0 => tx.size = packet[fd]["tx"]
        /\ tx.ok /\ config.tx # 0 => tx.size = config.tx
    BY <1>1, <2>2, SizedFacts
  <2> QED
    BY <2>2, <2>3, <2>4
<1> QED
  BY <1>2, <1>3

LEMMA NextType == TypeOK /\ [Next]_vars => TypeOK'
<1> SUFFICES ASSUME TypeOK, [Next]_vars PROVE TypeOK'
  OBVIOUS
<1> USE DEF TypeOK
<1>1. ASSUME NEW i \in Interface, FromName(i) PROVE TypeOK'
  BY <1>1, Constants DEF FromName, registry, kernel
<1>2. ASSUME NEW i \in Interface, FromIfindex(i) PROVE TypeOK'
  BY <1>2 DEF FromIfindex, registry, kernel, IfCtx
<1>3. ASSUME NEW q \in Queue, SetQueue(q) PROVE TypeOK'
  BY <1>3 DEF SetQueue, registry, kernel, IfCtx
<1>4. ASSUME NEW fd \in Fd, NewSocket(fd) PROVE TypeOK'
  BY <1>4 DEF NewSocket, names, registry, kernel
<1>5. ASSUME NEW fd \in Fd, FqCq(fd) PROVE TypeOK'
  BY <1>5 DEF FqCq, Creates, names, registry
<1>6. ASSUME NEW fd \in Fd, NEW config \in Config, RxTx(fd, config) PROVE TypeOK'
  <2>0. PICK rx \in Nat, tx \in Nat :
           /\ \/ packet' = packet
              \/ packet' = [packet EXCEPT ![fd]["rx"] = rx, ![fd]["tx"] = tx]
           /\ packet[fd]["rx"] # 0 => rx = packet[fd]["rx"]
           /\ packet[fd]["tx"] # 0 => tx = packet[fd]["tx"]
           /\ \/ users' = users
              \/ /\ users' = users \union {[fd |-> fd, config |-> config]}
                 /\ packet' = [packet EXCEPT ![fd]["rx"] = rx, ![fd]["tx"] = tx]
                 /\ config.rx # 0 => rx = config.rx
                 /\ config.tx # 0 => tx = config.tx
    <3> HIDE DEF TypeOK
    <3> QED
      BY <1>6, RxTxPacket
  <2>1. packet' \in [Fd -> [PacketRing -> Nat]]
    BY <2>0 DEF PacketRing
  <2>2. users' \subseteq [fd : Fd, config : Config]
    BY <2>0
  <2> QED
    BY <1>6, <2>1, <2>2 DEF RxTx, names, registry
<1>7. ASSUME NEW user \in users, NEW owner \in Fd, Bind(user, owner) PROVE TypeOK'
  BY <1>7 DEF Bind, names, registry
<1>8. ASSUME NEW fd \in Fd, DropQueue(fd) PROVE TypeOK'
  BY <1>8 DEF DropQueue, names, kernel
<1>9. CASE UNCHANGED vars
  BY <1>9 DEF vars, names, registry, kernel
<1> QED
  BY <1>1, <1>2, <1>3, <1>4, <1>5, <1>6, <1>7, <1>8, <1>9 DEF Next

\* The set-up of sockets keeps its types; no socket ever has a fill ring without a
\* completion ring.
THEOREM TypeCorrect == Spec => []TypeOK
<1>1. Init => TypeOK
  BY InitType
<1>2. TypeOK /\ [Next]_vars => TypeOK'
  BY NextType
<1> QED
  BY <1>1, <1>2, PTL DEF Spec

-----------------------------------------------------------------------------
(* Sizes of rings *)

LEMMA NextFit == TypeOK /\ RingsFit /\ [Next]_vars => RingsFit'
<1> SUFFICES ASSUME TypeOK, RingsFit, [Next]_vars PROVE RingsFit'
  OBVIOUS
<1>1. CASE UNCHANGED <<users, packet>>
  BY <1>1 DEF RingsFit
<1>2. ASSUME NEW fd \in Fd, NEW config \in Config, RxTx(fd, config) PROVE RingsFit'
  <2>1. PICK rx \in Nat, tx \in Nat :
           /\ \/ packet' = packet
              \/ packet' = [packet EXCEPT ![fd]["rx"] = rx, ![fd]["tx"] = tx]
           /\ packet[fd]["rx"] # 0 => rx = packet[fd]["rx"]
           /\ packet[fd]["tx"] # 0 => tx = packet[fd]["tx"]
           /\ \/ users' = users
              \/ /\ users' = users \union {[fd |-> fd, config |-> config]}
                 /\ packet' = [packet EXCEPT ![fd]["rx"] = rx, ![fd]["tx"] = tx]
                 /\ config.rx # 0 => rx = config.rx
                 /\ config.tx # 0 => tx = config.tx
    BY <1>2, RxTxPacket
  <2>2. packet \in [Fd -> [PacketRing -> Nat]] /\ users \subseteq [fd : Fd, config : Config]
    BY DEF TypeOK
  <2>3. ASSUME NEW g \in Fd, NEW ring \in PacketRing, packet[g][ring] # 0
        PROVE  packet'[g][ring] = packet[g][ring]
    BY <2>1, <2>2, <2>3 DEF PacketRing
  <2>4. ASSUME NEW user \in users, NEW ring \in PacketRing, user.config[ring] # 0
        PROVE  packet'[user.fd][ring] = user.config[ring]
    BY <2>2, <2>3, <2>4 DEF RingsFit
  <2>5. ASSUME NEW user \in users', user \notin users, NEW ring \in PacketRing, user.config[ring] # 0
        PROVE  packet'[user.fd][ring] = user.config[ring]
    BY <2>1, <2>2, <2>5, ConfigSizes DEF PacketRing
  <2> QED
    BY <2>4, <2>5 DEF RingsFit
<1> QED
  BY <1>1, <1>2 DEF Next, vars, kernel, FromName, FromIfindex, SetQueue, NewSocket, FqCq,
     DropQueue, Bind

\* A ring is mapped with the size the kernel gave it, whatever calls of rx_tx fail
\* and where.
THEOREM RingsFitHolds == Spec => []RingsFit
<1>1. Init => RingsFit
  BY DEF Init, RingsFit
<1>2. TypeOK /\ RingsFit /\ [Next]_vars => RingsFit'
  BY NextFit
<1> QED
  BY <1>1, <1>2, TypeCorrect, PTL DEF Spec

-----------------------------------------------------------------------------
(* Interface queues *)

\* What a User, a DeviceQueue or the kernel refers to is a Socket that was created;
\* it is bound where its ctx says.
Opened ==
  /\ \A user \in users : sockets[user.fd].open
  /\ \A fd \in queues : sockets[fd].open
  /\ \A fd \in Fd : bound[fd] # Invalid => sockets[fd].open /\ bound[fd] = sockets[fd].ctx

\* A DeviceQueue has both rings and an interface queue of its own; the registry
\* lists those and no others.
Queued ==
  /\ \A fd \in queues : HasRings(fd)
  /\ \A fd, other \in queues : sockets[fd].ctx = sockets[other].ctx => fd = other
  /\ devices = {sockets[fd].ctx : fd \in queues}

SetUpInv == TypeOK /\ Opened /\ Queued

LEMMA InitSetUp == Init => SetUpInv
BY InitType DEF SetUpInv, Init, Opened, Queued

LEMMA NewSocketSetUp ==
  ASSUME SetUpInv, NEW fd \in Fd, NewSocket(fd)
  PROVE  Opened' /\ Queued'
<1>1. /\ users \subseteq [fd : Fd, config : Config] /\ queues \subseteq Fd
      /\ UNCHANGED <<users, queues, devices, device, bound>>
  BY DEF SetUpInv, TypeOK, NewSocket, registry, kernel
<1>2. sockets'[fd].open /\ \A g \in Fd : g # fd => sockets'[g] = sockets[g]
  BY DEF SetUpInv, TypeOK, NewSocket
<1>3. fd \notin queues /\ bound[fd] = Invalid
  BY DEF SetUpInv, Opened, NewSocket
<1>4. Opened'
  BY <1>1, <1>2, <1>3 DEF SetUpInv, Opened, Invalid
<1>5. \A g \in queues : sockets'[g].ctx = sockets[g].ctx
  BY <1>1, <1>2, <1>3
<1>6. {sockets'[g].ctx : g \in queues} = {sockets[g].ctx : g \in queues}
  BY <1>5
<1>7. Queued'
  BY <1>1, <1>5, <1>6 DEF SetUpInv, Queued, HasRings
<1> QED
  BY <1>4, <1>7

\* What fq_cq does to the rings and the registry.
LEMMA FqCqFacts ==
  ASSUME TypeOK, NEW fd \in Fd, FqCq(fd)
  PROVE  /\ SizesFirst(fd)
         /\ \A g \in Fd : g # fd => device'[g] = device[g]
         /\ UNCHANGED registry \/ (Creates(fd) /\ device'[fd] = {"comp", "fill"})
         /\ UNCHANGED <<sockets, users, bound, info, asked>>
BY DEF TypeOK, FqCq, names

LEMMA FqCqSetUp ==
  ASSUME SetUpInv, NEW fd \in Fd, FqCq(fd)
  PROVE  Opened' /\ Queued'
<1>1. /\ SizesFirst(fd)
      /\ \A g \in Fd : g # fd => device'[g] = device[g]
      /\ UNCHANGED registry \/ (Creates(fd) /\ device'[fd] = {"comp", "fill"})
      /\ UNCHANGED <<sockets, users, bound>>
  BY FqCqFacts DEF SetUpInv
<1>2. /\ queues \subseteq Fd
      /\ fd \notin queues
      /\ \A g \in queues : sockets[g].ctx # sockets[fd].ctx
  BY <1>1 DEF SetUpInv, TypeOK, Queued, SizesFirst
<1>3. CASE UNCHANGED registry
  BY <1>1, <1>2, <1>3 DEF SetUpInv, Opened, Queued, HasRings, registry
<1>4. CASE Creates(fd) /\ device'[fd] = {"comp", "fill"}
  <2>1. Opened'
    BY <1>1, <1>4 DEF SetUpInv, Opened, SizesFirst, Creates
  <2>2. \A g \in queues' : HasRings(g)'
    BY <1>1, <1>2, <1>4 DEF SetUpInv, Queued, HasRings, Creates
  <2>3. devices' = {sockets'[g].ctx : g \in queues'}
    BY <1>1, <1>4 DEF SetUpInv, Queued, Creates
  <2> QED
    BY <1>1, <1>2, <1>4, <2>1, <2>2, <2>3 DEF SetUpInv, Queued, Creates
<1> QED
  BY <1>1, <1>3, <1>4

LEMMA DropQueueSetUp ==
  ASSUME SetUpInv, NEW fd \in Fd, DropQueue(fd)
  PROVE  Opened' /\ Queued'
<1>1. /\ fd \in queues
      /\ devices' = devices \ {sockets[fd].ctx}
      /\ queues' = queues \ {fd}
      /\ UNCHANGED <<sockets, users, device, bound>>
  BY DEF DropQueue, kernel
<1>2. devices' = {sockets'[g].ctx : g \in queues'}
  BY <1>1 DEF SetUpInv, Queued
<1> QED
  BY <1>1, <1>2 DEF SetUpInv, Opened, Queued, HasRings

LEMMA RxTxSetUp ==
  ASSUME SetUpInv, NEW fd \in Fd, NEW config \in Config, RxTx(fd, config)
  PROVE  Opened' /\ Queued'
<1>1. \/ users' = users
      \/ users' = users \union {[fd |-> fd, config |-> config]}
  BY DEF RxTx
<1>2. sockets[fd].open /\ UNCHANGED <<sockets, devices, queues, device, bound>>
  BY DEF RxTx, registry
<1>3. Opened'
  BY <1>1, <1>2 DEF SetUpInv, Opened
<1> QED
  BY <1>2, <1>3 DEF SetUpInv, Queued, HasRings

LEMMA BindSetUp ==
  ASSUME SetUpInv, NEW user \in users, NEW owner \in Fd, Bind(user, owner)
  PROVE  Opened' /\ Queued'
<1>1. user.fd \in Fd /\ bound \in [Fd -> IfCtx] /\ sockets[user.fd].open
  BY DEF SetUpInv, TypeOK, Opened
<1>2. UNCHANGED <<sockets, devices, queues, users, device>>
  BY DEF Bind, registry
<1>3. /\ bound'[user.fd] = sockets[user.fd].ctx
      /\ \A g \in Fd : g # user.fd => bound'[g] = bound[g]
  BY <1>1 DEF Bind
<1>4. Opened'
  BY <1>1, <1>2, <1>3 DEF SetUpInv, Opened
<1> QED
  BY <1>2, <1>4 DEF SetUpInv, Queued, HasRings

LEMMA NextSetUp == SetUpInv /\ [Next]_vars => SetUpInv'
<1> SUFFICES ASSUME SetUpInv, [Next]_vars PROVE SetUpInv'
  OBVIOUS
<1>1. TypeOK'
  BY NextType DEF SetUpInv
<1>2. CASE UNCHANGED <<sockets, registry, users, kernel>>
  BY <1>1, <1>2 DEF SetUpInv, Opened, Queued, HasRings, registry, kernel
<1>3. Opened' /\ Queued'
  BY <1>2, NewSocketSetUp, FqCqSetUp, DropQueueSetUp, RxTxSetUp, BindSetUp
     DEF SetUpInv, Next, vars, FromName, FromIfindex, SetQueue
<1> QED
  BY <1>1, <1>3 DEF SetUpInv

LEMMA SetUpInvariant == Spec => []SetUpInv
<1>1. Init => SetUpInv
  BY InitSetUp
<1>2. SetUpInv /\ [Next]_vars => SetUpInv'
  BY NextSetUp
<1> QED
  BY <1>1, <1>2, PTL DEF Spec

-----------------------------------------------------------------------------
(* What the client means *)

\* What the client means is what its IfInfo says, and what the socket was created
\* for. This takes a client that looks at its IfInfo.
Named ==
  /\ info.queue_id = asked.queue_id
  /\ \A fd \in Fd : sockets[fd].open =>
       sockets[fd].ctx = sockets[fd].asked /\ sockets[fd].ctx.ifindex # 0

LEMMA NextNamed ==
  ASSUME Trusting = FALSE, TypeOK, Named, [Next]_vars
  PROVE  Named'
<1>1. CASE UNCHANGED <<info, asked, sockets>>
  BY <1>1 DEF Named
<1>2. ASSUME NEW i \in Interface, FromName(i) PROVE Named'
  BY <1>2 DEF FromName, Named
<1>3. ASSUME NEW i \in Interface, FromIfindex(i) PROVE Named'
  <2>1. asked'.queue_id = asked.queue_id
    BY <1>3 DEF TypeOK, IfCtx, FromIfindex
  <2> QED
    BY <1>3, <2>1 DEF FromIfindex, Named
<1>4. ASSUME NEW q \in Queue, SetQueue(q) PROVE Named'
  <2>1. asked'.queue_id = q /\ info'.queue_id = q
    BY <1>4 DEF TypeOK, IfCtx, SetQueue
  <2> QED
    BY <1>4, <2>1 DEF SetQueue, Named
<1>5. ASSUME NEW fd \in Fd, NewSocket(fd) PROVE Named'
  <2>1. info = asked /\ info.ifindex # 0
    BY <1>5 DEF TypeOK, IfCtx, Named, NewSocket
  <2>2. /\ sockets'[fd].ctx = sockets'[fd].asked
        /\ sockets'[fd].ctx.ifindex # 0
        /\ \A g \in Fd : g # fd => sockets'[g] = sockets[g]
    BY <1>5, <2>1 DEF TypeOK, NewSocket
  <2> QED
    BY <1>5, <2>2 DEF NewSocket, names, Named
<1> QED
  BY <1>1, <1>2, <1>3, <1>4, <1>5
     DEF Next, vars, names, FqCq, DropQueue, RxTx, Bind

\* A client that looks at its IfInfo after from_ifindex gets sockets bound where it
\* said, however it reuses the IfInfo.
THEOREM BoundAsAskedHolds ==
  ASSUME Trusting = FALSE
  PROVE  Spec => []BoundAsAsked
<1>1. Init => Named
  BY DEF Init, Named, NoSocket
<1>2. SetUpInv /\ Named /\ [Next]_vars => Named'
  BY NextNamed DEF SetUpInv
<1>3. SetUpInv /\ Named => BoundAsAsked
  BY DEF SetUpInv, Opened, Named, BoundAsAsked
<1> QED
  BY <1>1, <1>2, <1>3, SetUpInvariant, PTL DEF Spec

-----------------------------------------------------------------------------
(* What the registry says of the kernel *)

\* Where a socket is bound, one is that has rings. Nobody takes these from it again,
\* but its DeviceQueue may be gone, or never have been there.
Served ==
  \A fd \in Fd : bound[fd] # Invalid => \E g \in Fd : HasRings(g) /\ bound[g] = bound[fd]

LEMMA FqCqServed ==
  ASSUME SetUpInv, Served, NEW fd \in Fd, FqCq(fd)
  PROVE  Served'
<1>1. /\ SizesFirst(fd)
      /\ \A g \in Fd : g # fd => device'[g] = device[g]
      /\ UNCHANGED bound
  BY FqCqFacts DEF SetUpInv
<1>2. ~HasRings(fd)
  BY <1>1 DEF SizesFirst, HasRings
<1>3. \A g \in Fd : HasRings(g) => HasRings(g)'
  BY <1>1, <1>2 DEF HasRings
<1> QED
  BY <1>1, <1>3 DEF Served, Invalid

LEMMA BindServed ==
  ASSUME SetUpInv, Served, NEW user \in users, NEW owner \in Fd, Bind(user, owner)
  PROVE  Served'
<1> DEFINE fd == user.fd
           at == sockets[user.fd].ctx
<1>1. fd \in Fd /\ bound \in [Fd -> IfCtx]
  BY DEF SetUpInv, TypeOK
<1>2. /\ bound[fd] = Invalid /\ at # Invalid
      /\ bound[owner] = at \/ HasRings(fd)
      /\ UNCHANGED device
  BY DEF Bind, Binds, Invalid
<1>3. bound'[fd] = at /\ \A g \in Fd : g # fd => bound'[g] = bound[g]
  BY <1>1 DEF Bind
<1>4. \A g \in Fd : HasRings(g)' = HasRings(g)
  BY <1>2 DEF HasRings
<1>5. \A g \in Fd : bound[g] # Invalid => bound'[g] = bound[g]
  BY <1>2, <1>3
<1>6. ASSUME NEW g \in Fd, bound[g] # Invalid
      PROVE  \E h \in Fd : HasRings(h)' /\ bound'[h] = bound'[g]
  <2>1. PICK h \in Fd : HasRings(h) /\ bound[h] = bound[g]
    BY <1>6 DEF Served
  <2> QED
    BY <1>4, <1>5, <1>6, <2>1
<1>7. \E h \in Fd : HasRings(h)' /\ bound'[h] = bound'[fd]
  <2>1. CASE HasRings(fd)
    BY <1>1, <1>4, <2>1
  <2>2. CASE bound[owner] = at
    BY <1>2, <1>3, <1>5, <1>6, <2>2
  <2> QED
    BY <1>2, <2>1, <2>2
<1>8. \A g \in Fd : bound'[g] # Invalid => g = fd \/ bound[g] # Invalid
  BY <1>3
<1> QED
  BY <1>6, <1>7, <1>8 DEF Served, Invalid

LEMMA ServedInvariant == Spec => []Served
<1>1. Init => Served
  BY DEF Init, Served
<1>2. SetUpInv /\ Served /\ [Next]_vars => Served'
  <2> SUFFICES ASSUME SetUpInv, Served, [Next]_vars PROVE Served'
    OBVIOUS
  <2>1. CASE UNCHANGED <<device, bound>>
    BY <2>1 DEF Served, HasRings
  <2> QED
    BY <2>1, FqCqServed, BindServed
       DEF Next, vars, kernel, FromName, FromIfindex, SetQueue, NewSocket, DropQueue, RxTx
<1> QED
  BY <1>1, <1>2, SetUpInvariant, PTL DEF Spec

\* Where no stray is, a socket with a DeviceQueue serves those that are bound.
LEMMA ServedByQueue ==
  ASSUME SetUpInv, Served, NEW fd \in Fd, bound[fd] # Invalid, bound[fd] \notin Strays
  PROVE  \E g \in queues : bound[g] = bound[fd] /\ sockets[g].ctx = bound[fd]
<1>1. PICK g \in Fd : HasRings(g) /\ bound[g] = bound[fd]
  BY DEF Served
<1>2. g \in queues
  BY <1>1 DEF Strays
<1> QED
  BY <1>1, <1>2 DEF SetUpInv, Opened

\* For every client, whatever has failed and whichever DeviceQueues were dropped, the
\* registry lists every interface queue in use except for strays.
THEOREM TakenTrackedHolds == Spec => []TakenTracked
<1>1. SetUpInv /\ Served => TakenTracked
  <2> SUFFICES ASSUME SetUpInv, Served,
                      NEW fd \in Fd, bound[fd] # Invalid, bound[fd] \notin Strays
               PROVE  bound[fd] \in devices
    BY DEF TakenTracked
  <2> QED
    BY ServedByQueue DEF SetUpInv, Queued
<1> QED
  BY <1>1, SetUpInvariant, ServedInvariant, PTL

\* For a client that looks at its IfInfo, bind_at passes the kernel what it wants for
\* the calls in the tree of Umem::bind, and fq_cq has admitted no queue that is busy
\* except with a stray: for every number of sockets and interface queues, every order
\* of set-up, every failure and every drop of a DeviceQueue.
THEOREM TreeBindsHolds ==
  ASSUME Trusting = FALSE
  PROVE  Spec => []TreeBinds
<1>1. Init => Named
  BY DEF Init, Named, NoSocket
<1>2. SetUpInv /\ Named /\ [Next]_vars => Named'
  BY NextNamed DEF SetUpInv
<1>3. SetUpInv /\ RingsFit /\ Named /\ Served => TreeBinds
  <2> SUFFICES ASSUME SetUpInv, RingsFit, Named, Served,
                      NEW user \in users, NEW owner \in Fd, InTree(user, owner),
                      bound[user.fd] = Invalid, sockets[user.fd].ctx \notin Strays
               PROVE  Binds(user, owner)
    BY DEF TreeBinds
  <2> DEFINE fd == user.fd
             at == sockets[user.fd].ctx
  <2>1. fd \in Fd /\ user.config \in Config /\ queues \subseteq Fd
    BY DEF SetUpInv, TypeOK
  <2>2. at = sockets[fd].asked /\ at.ifindex # 0 /\ at # Invalid
    BY <2>1 DEF SetUpInv, Opened, Named, Invalid
  <2>3. \E ring \in PacketRing : packet[fd][ring] # 0
    BY DEF InTree, Asks, RingsFit
  <2>4. CASE fd \in queues /\ owner = UmemFd /\ (fd = UmemFd \/ bound[UmemFd] # Invalid)
    <3>1. HasRings(fd)
      BY <2>4 DEF SetUpInv, Queued
    <3>2. ASSUME NEW other \in Fd, bound[other] = at PROVE FALSE
      <4>1. PICK h \in queues : bound[h] = at /\ sockets[h].ctx = at
        BY <2>2, <3>2, ServedByQueue
      <4>2. h = fd
        BY <2>4, <4>1 DEF SetUpInv, Queued
      <4> QED
        BY <2>2, <4>1, <4>2
    <3>3. \/ "shared" \notin Flags(user, owner) /\ fd = UmemFd
          \/ /\ Flags(user, owner) = {"shared"}
             /\ fd # owner /\ fd # UmemFd /\ bound[owner] # Invalid
      BY <2>4 DEF InTree, Flags
    <3> QED
      BY <2>2, <2>3, <3>1, <3>2, <3>3 DEF Binds
  <2>5. CASE /\ device[fd] = {} /\ fd # owner /\ fd # UmemFd
             /\ owner \in queues /\ bound[owner] = sockets[fd].asked
    <3>1. Flags(user, owner) = {"shared"}
      BY <2>5 DEF InTree, Flags
    <3> QED
      BY <2>2, <2>3, <2>5, <3>1 DEF Binds
  <2> QED
    BY <2>4, <2>5 DEF InTree
<1> QED
  BY <1>1, <1>2, <1>3, SetUpInvariant, RingsFitHolds, ServedInvariant, PTL DEF Spec
=============================================================================
