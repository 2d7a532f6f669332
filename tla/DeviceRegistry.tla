--------------------------- MODULE DeviceRegistry ---------------------------
(***************************************************************************)
(* The device queues of one Umem: Umem::fq_cq of src/src/xsk/umem.rs, which *)
(* registers an interface queue (IfCtx), sizes the completion and the fill  *)
(* ring of a socket and maps both, and the drop of a DeviceQueue, which     *)
(* takes all of that back.                                                 *)
(*                                                                         *)
(* Umem is not Sync, so one fq_cq runs at a time; a DeviceQueue is Send and *)
(* is dropped by any thread, between any two steps of that call. Every     *)
(* system call of fq_cq may fail, at any time.                             *)
(***************************************************************************)
EXTENDS FiniteSets

CONSTANTS
  Ctx,    \* interface queues: IfCtx values
  Fd,     \* kernel sockets
  UmemFd, \* the one that Umem::new creates
  Handle  \* DeviceQueue values that may exist at a time

ASSUME RegistryAssumption == UmemFd \in Fd /\ Ctx # {}

VARIABLES
  devices,    \* SpinLockedControlSet: the interface queues that are taken
  sockets,    \* Socket values of the client, as [ctx, fd]
  call,       \* the fq_cq in progress
  queues,     \* DeviceQueue values
  umem,       \* the Umem has not been dropped
  configured  \* kernel: the rings sized by setsockopt, per socket

vars == <<devices, sockets, call, queues, umem, configured>>

Ring == {"comp", "fill"}

\* A call between two of its steps; a queue that was not dropped, whose Drop has
\* run, or whose memory is gone.
CallStep == {"idle", "cq", "fq", "offsets", "fill", "comp", "unwind"}
QueueState == {"none", "live", "dropping"}

Owner(state, ctx, fd, rings) == [state |-> state, ctx |-> ctx, fd |-> fd, rings |-> rings]

Idle == Owner("idle", CHOOSE c \in Ctx : TRUE, UmemFd, {})
NoQueue == Owner("none", CHOOSE c \in Ctx : TRUE, UmemFd, {})

\* Some Arc<SocketFd> still refers to the socket.
Open(fd) ==
  \/ fd = UmemFd /\ umem
  \/ \E s \in sockets : s.fd = fd
  \/ call.state # "idle" /\ call.fd = fd
  \/ \E q \in Handle : queues[q].state # "none" /\ queues[q].fd = fd

Init ==
  /\ devices = {} /\ sockets = {}
  /\ call = Idle
  /\ queues = [q \in Handle |-> NoQueue]
  /\ umem = TRUE
  /\ configured = [fd \in Fd |-> {}]

-----------------------------------------------------------------------------
(* Sockets and the Umem *)

\* Socket::new: a socket of its own, which may get the number of a closed one.
NewSocket(ctx, fd) ==
  /\ ~Open(fd)
  /\ sockets' = sockets \union {[ctx |-> ctx, fd |-> fd]}
  /\ configured' = [configured EXCEPT ![fd] = {}]
  /\ UNCHANGED <<devices, call, queues, umem>>

\* Socket::with_shared: the socket of the Umem, once more.
SharedSocket(ctx) ==
  /\ umem
  /\ sockets' = sockets \union {[ctx |-> ctx, fd |-> UmemFd]}
  /\ UNCHANGED <<devices, call, queues, umem, configured>>

\* The client drops a Socket it does not lend to a call.
DropSocket(s) ==
  /\ call.state # "idle" => s # [ctx |-> call.ctx, fd |-> call.fd]
  /\ sockets' = sockets \ {s}
  /\ UNCHANGED <<devices, call, queues, umem, configured>>

DropUmem ==
  /\ umem /\ call.state = "idle"
  /\ umem' = FALSE
  /\ UNCHANGED <<devices, sockets, call, queues, configured>>

-----------------------------------------------------------------------------
(* Umem::fq_cq *)

\* Mutant: the result of insert is ignored.
RegisterAlways(s) ==
  /\ umem /\ call.state = "idle"
  /\ devices' = devices \union {s.ctx}
  /\ call' = Owner("cq", s.ctx, s.fd, {})
  /\ UNCHANGED <<sockets, queues, umem, configured>>

\* Mutant: the guard is set up before insert is looked at, and a refused call
\* removes the entry of the queue that holds it.
RegisterGuardFirst(s) ==
  /\ umem /\ call.state = "idle"
  /\ devices' = devices \union {s.ctx}
  /\ call' = Owner(IF s.ctx \in devices THEN "unwind" ELSE "cq", s.ctx, s.fd, {})
  /\ UNCHANGED <<sockets, queues, umem, configured>>

\* The call is refused, without a trace, when the interface queue is taken.
Register(s) ==
  /\ umem /\ call.state = "idle"
  /\ s.ctx \notin devices
  /\ devices' = devices \union {s.ctx}
  /\ call' = Owner("cq", s.ctx, s.fd, {})
  /\ UNCHANGED <<sockets, queues, umem, configured>>

\* Mutant: an error of setsockopt is ignored, and the call goes on.
ConfigureUnchecked(step, ring, next) ==
  /\ call.state = step
  /\ configured' \in {configured, [configured EXCEPT ![call.fd] = @ \union {ring}]}
  /\ call' = [call EXCEPT !.state = next]
  /\ UNCHANGED <<devices, sockets, queues, umem>>

\* configure_cq, one setsockopt at a time. The kernel sizes a ring once.
Configure(step, ring, next) ==
  /\ call.state = step
  /\ \/ /\ ring \notin configured[call.fd]
        /\ configured' = [configured EXCEPT ![call.fd] = @ \union {ring}]
        /\ call' = [call EXCEPT !.state = next]
     \/ /\ call' = [call EXCEPT !.state = "unwind"]
        /\ UNCHANGED configured
  /\ UNCHANGED <<devices, sockets, queues, umem>>

\* The offsets of the rings are asked for, which may fail.
QueryOffsets ==
  /\ call.state = "offsets"
  /\ \E next \in {"fill", "unwind"} : call' = [call EXCEPT !.state = next]
  /\ UNCHANGED <<devices, sockets, queues, umem, configured>>

\* RingProd::fill
MapFill ==
  /\ call.state = "fill"
  /\ \/ call' = [call EXCEPT !.state = "comp", !.rings = {"fill"}]
     \/ call' = [call EXCEPT !.state = "unwind"]
  /\ UNCHANGED <<devices, sockets, queues, umem, configured>>

\* Mutant: the guard is not forgotten, and removes the entry of the new queue.
MapCompGuarded(q) ==
  /\ call.state = "comp" /\ queues[q].state = "none"
  /\ \/ /\ queues' = [queues EXCEPT ![q] = Owner("live", call.ctx, call.fd, Ring)]
        /\ call' = Idle
        /\ devices' = devices \ {call.ctx}
     \/ /\ call' = [call EXCEPT !.state = "unwind"]
        /\ UNCHANGED <<queues, devices>>
  /\ UNCHANGED <<sockets, umem, configured>>

\* RingCons::comp, and the guard is forgotten: the entry now belongs to q.
MapComp(q) ==
  /\ call.state = "comp" /\ queues[q].state = "none"
  /\ \/ /\ queues' = [queues EXCEPT ![q] = Owner("live", call.ctx, call.fd, Ring)]
        /\ call' = Idle
     \/ /\ call' = [call EXCEPT !.state = "unwind"]
        /\ UNCHANGED queues
  /\ UNCHANGED <<devices, sockets, umem, configured>>

\* A failed call drops what it has mapped, then the guard.
UnwindRing ==
  /\ call.state = "unwind" /\ call.rings # {}
  /\ call' = [call EXCEPT !.rings = {}]
  /\ UNCHANGED <<devices, sockets, queues, umem, configured>>

UnwindGuard ==
  /\ call.state = "unwind" /\ call.rings = {}
  /\ devices' = devices \ {call.ctx}
  /\ call' = Idle
  /\ UNCHANGED <<sockets, queues, umem, configured>>

-----------------------------------------------------------------------------
(* Drop of a DeviceQueue *)

\* Drop::drop gives the interface queue back first, ...
Deregister(q) ==
  /\ queues[q].state = "live"
  /\ devices' = devices \ {queues[q].ctx}
  /\ queues' = [queues EXCEPT ![q].state = "dropping"]
  /\ UNCHANGED <<sockets, call, umem, configured>>

\* ... then the fields go, in order: the fill ring, the completion ring, ...
UnmapRing(q) ==
  /\ queues[q].state = "dropping"
  /\ \E ring \in queues[q].rings :
       /\ ring = "comp" => "fill" \notin queues[q].rings
       /\ queues' = [queues EXCEPT ![q].rings = @ \ {ring}]
  /\ UNCHANGED <<devices, sockets, call, umem, configured>>

\* ... and the reference to the socket.
DropFd(q) ==
  /\ queues[q].state = "dropping" /\ queues[q].rings = {}
  /\ queues' = [queues EXCEPT ![q] = NoQueue]
  /\ UNCHANGED <<devices, sockets, call, umem, configured>>

-----------------------------------------------------------------------------
FqCq ==
  \/ \E s \in sockets : Register(s)
  \/ Configure("cq", "comp", "fq")
  \/ Configure("fq", "fill", "offsets")
  \/ QueryOffsets
  \/ MapFill
  \/ \E q \in Handle : MapComp(q)
  \/ UnwindRing
  \/ UnwindGuard

DropQueue == \E q \in Handle : Deregister(q) \/ UnmapRing(q) \/ DropFd(q)

Next ==
  \/ \E ctx \in Ctx, fd \in Fd \ {UmemFd} : NewSocket(ctx, fd)
  \/ \E ctx \in Ctx : SharedSocket(ctx)
  \/ \E s \in sockets : DropSocket(s)
  \/ DropUmem
  \/ FqCq
  \/ DropQueue

Spec == Init /\ [][Next]_vars

-----------------------------------------------------------------------------
(* Properties *)

\* Calls and queues that hold rings or an entry of the registry.
Live == {q \in Handle : queues[q].state = "live"}
Holders == {call} \union {queues[q] : q \in Handle}

\* Every variable keeps its type; configure_cq leaves no socket with a fill ring and
\* without a completion ring, wherever it fails.
TypeOK ==
  /\ devices \subseteq Ctx
  /\ sockets \subseteq [ctx : Ctx, fd : Fd]
  /\ call \in [state : CallStep, ctx : Ctx, fd : Fd, rings : SUBSET Ring]
  /\ queues \in [Handle -> [state : QueueState, ctx : Ctx, fd : Fd, rings : SUBSET Ring]]
  /\ umem \in BOOLEAN
  /\ configured \in [Fd -> {{}, {"comp"}, Ring}]

\* An interface queue is registered exactly as long as a DeviceQueue controls it or
\* a call is about to create one: no failure of fq_cq leaks the entry, and no
\* refused or failed call and no drop takes away the entry of another queue.
RegistryExact ==
  devices = {queues[q].ctx : q \in Live} \union
            {c \in Ctx : call.state # "idle" /\ c = call.ctx}

\* "Only one controller/writer for the user-space portions of each queue is active
\* at a time": two DeviceQueues never control one interface queue, and fq_cq does
\* not set up a second one.
OneController ==
  /\ \A p, q \in Live : p # q => queues[p].ctx # queues[q].ctx
  /\ call.state # "idle" => \A q \in Live : queues[q].ctx # call.ctx

\* The fill and completion rings of a socket are mapped by one owner at most, also
\* when sockets of several interface queues share the descriptor of the Umem.
RingsExclusive ==
  /\ \A p, q \in Handle : p # q /\ queues[p].fd = queues[q].fd =>
       queues[p].rings \intersect queues[q].rings = {}
  /\ \A q \in Handle : queues[q].fd = call.fd => queues[q].rings \intersect call.rings = {}
=============================================================================
