------------------------ MODULE DeviceRegistryProofs ------------------------
(***************************************************************************)
(* Proofs about DeviceRegistry: the registry lists exactly the interface    *)
(* queues under control, and no two DeviceQueues control one, for any       *)
(* number of interface queues, sockets and DeviceQueues.                   *)
(***************************************************************************)
EXTENDS DeviceRegistry, TLAPS

\* What a call or a DeviceQueue may be.
CallType == [state : CallStep, ctx : Ctx, fd : Fd, rings : SUBSET Ring]
QueueType == [state : QueueState, ctx : Ctx, fd : Fd, rings : SUBSET Ring]

\* The values that stand for no call and no DeviceQueue.
LEMMA NoneType ==
  /\ Idle \in CallType /\ Idle.state = "idle" /\ Idle.rings = {}
  /\ NoQueue \in QueueType /\ NoQueue.state = "none" /\ NoQueue.rings = {}
<1>1. (CHOOSE c \in Ctx : TRUE) \in Ctx
  BY RegistryAssumption
<1>2. QED
  BY <1>1, RegistryAssumption DEF Idle, NoQueue, Owner, CallType, QueueType, CallStep, QueueState

-----------------------------------------------------------------------------
(* Types *)

\* The types of the variables, without the order in which the kernel sizes rings.
Types ==
  /\ devices \subseteq Ctx
  /\ sockets \subseteq [ctx : Ctx, fd : Fd]
  /\ call \in CallType
  /\ queues \in [Handle -> QueueType]
  /\ umem \in BOOLEAN
  /\ configured \in [Fd -> SUBSET Ring]

\* At the start nothing is registered.
LEMMA InitType == Init => Types
BY NoneType DEF Types, Init

\* Every step of a call, of a drop and of the client keeps the types.
LEMMA NextType == Types /\ [Next]_vars => Types'
<1> SUFFICES ASSUME Types, [Next]_vars PROVE Types'
  OBVIOUS
<1> DEFINE T == /\ devices' \subseteq Ctx
                /\ sockets' \subseteq [ctx : Ctx, fd : Fd]
                /\ call' \in CallType
                /\ queues' \in [Handle -> QueueType]
                /\ umem' \in BOOLEAN
                /\ configured' \in [Fd -> SUBSET Ring]
<1>0. SUFFICES T
  BY DEF Types
<1>1. /\ devices \subseteq Ctx /\ sockets \subseteq [ctx : Ctx, fd : Fd]
      /\ call \in CallType /\ queues \in [Handle -> QueueType]
      /\ umem \in BOOLEAN /\ configured \in [Fd -> SUBSET Ring]
  BY DEF Types
<1>2. ASSUME NEW ctx \in Ctx, NEW fd \in Fd, NewSocket(ctx, fd) PROVE T
  BY <1>1, <1>2 DEF NewSocket
<1>3. ASSUME NEW ctx \in Ctx, SharedSocket(ctx) PROVE T
  BY <1>1, <1>3, RegistryAssumption DEF SharedSocket
<1>4. ASSUME NEW s \in sockets, DropSocket(s) PROVE T
  BY <1>1, <1>4 DEF DropSocket
<1>5. CASE DropUmem
  BY <1>1, <1>5 DEF DropUmem
<1>6. ASSUME NEW s \in sockets, Register(s) PROVE T
  BY <1>1, <1>6 DEF Register, Owner, CallType, CallStep
<1>7. ASSUME NEW step, NEW ring \in Ring, NEW next \in CallStep, Configure(step, ring, next) PROVE T
  <2>1. [call EXCEPT !.state = next] \in CallType /\ [call EXCEPT !.state = "unwind"] \in CallType
    BY <1>1 DEF CallType, CallStep
  <2>2. call.fd \in Fd
    BY <1>1 DEF CallType
  <2>3. QED
    BY <1>1, <1>7, <2>1, <2>2 DEF Configure
<1>8. CASE QueryOffsets
  BY <1>1, <1>8 DEF QueryOffsets, CallType, CallStep
<1>9. CASE MapFill
  <2>1. /\ [call EXCEPT !.state = "comp", !.rings = {"fill"}] \in CallType
        /\ [call EXCEPT !.state = "unwind"] \in CallType
    BY <1>1 DEF CallType, CallStep, Ring
  <2>2. QED
    BY <1>1, <1>9, <2>1 DEF MapFill
<1>10. ASSUME NEW q \in Handle, MapComp(q) PROVE T
  <2>1. Owner("live", call.ctx, call.fd, Ring) \in QueueType /\ [call EXCEPT !.state = "unwind"] \in CallType
    BY <1>1 DEF Owner, CallType, CallStep, QueueType, QueueState
  <2>2. QED
    BY <1>1, <1>10, <2>1, NoneType DEF MapComp
<1>11. CASE UnwindRing
  BY <1>1, <1>11 DEF UnwindRing, CallType
<1>12. CASE UnwindGuard
  BY <1>1, <1>12, NoneType DEF UnwindGuard
<1>13. ASSUME NEW q \in Handle, Deregister(q) PROVE T
  <2>1. [queues[q] EXCEPT !.state = "dropping"] \in QueueType
    BY <1>1 DEF QueueType, QueueState
  <2>2. QED
    BY <1>1, <1>13, <2>1 DEF Deregister
<1>14. ASSUME NEW q \in Handle, UnmapRing(q) PROVE T
  <2>1. PICK ring \in queues[q].rings : queues' = [queues EXCEPT ![q].rings = @ \ {ring}]
    BY <1>14 DEF UnmapRing
  <2>2. [queues[q] EXCEPT !.rings = @ \ {ring}] \in QueueType
    BY <1>1 DEF QueueType
  <2>3. QED
    BY <1>1, <1>14, <2>1, <2>2 DEF UnmapRing
<1>15. ASSUME NEW q \in Handle, DropFd(q) PROVE T
  BY <1>1, <1>15, NoneType DEF DropFd
<1>16. CASE UNCHANGED vars
  BY <1>1, <1>16 DEF vars
<1>17. "fq" \in CallStep /\ "offsets" \in CallStep /\ "comp" \in Ring /\ "fill" \in Ring
  BY DEF CallStep, Ring
<1>18. QED
  BY <1>2, <1>3, <1>4, <1>5, <1>6, <1>7, <1>8, <1>9, <1>10, <1>11, <1>12, <1>13, <1>14, <1>15,
     <1>16, <1>17 DEF Next, FqCq, DropQueue

-----------------------------------------------------------------------------
(* The registry *)

\* Exactness is inductive only together with exclusiveness: taking an entry out is
\* right because no other holder has the same one.
RegistryInv == Types /\ RegistryExact /\ OneController

\* Nothing is registered and nobody is there.
LEMMA InitRegistry == Init => RegistryInv
<1> SUFFICES ASSUME Init PROVE RegistryExact /\ OneController
  BY InitType DEF RegistryInv
<1>1. Live = {} /\ call.state = "idle" /\ devices = {}
  BY NoneType DEF Init, Live
<1>2. QED
  BY <1>1 DEF RegistryExact, OneController

\* A step that neither begins nor ends a call or the life of a DeviceQueue.
LEMMA SameHolders ==
  ASSUME RegistryInv, devices' = devices,
         call'.ctx = call.ctx, call.state # "idle" <=> call'.state # "idle",
         Live' = Live, \A q \in Live : queues'[q].ctx = queues[q].ctx
  PROVE  RegistryExact' /\ OneController'
BY DEF RegistryInv, RegistryExact, OneController

\* Every step of fq_cq and of a drop keeps the registry exact.
LEMMA NextRegistry == RegistryInv /\ [Next]_vars => RegistryInv'
<1> SUFFICES ASSUME RegistryInv, [Next]_vars PROVE RegistryExact' /\ OneController'
  BY NextType DEF RegistryInv
<1>1. /\ call \in CallType /\ queues \in [Handle -> QueueType]
      /\ devices \subseteq Ctx /\ sockets \subseteq [ctx : Ctx, fd : Fd]
  BY DEF Types, RegistryInv
<1>2. ASSUME UNCHANGED <<devices, call, queues>> PROVE RegistryExact' /\ OneController'
  BY <1>2, SameHolders DEF Live
<1>3. ASSUME NEW s \in sockets, Register(s) PROVE RegistryExact' /\ OneController'
  <2>1. /\ call.state = "idle" /\ s.ctx \notin devices /\ devices' = devices \union {s.ctx}
        /\ call'.state # "idle" /\ call'.ctx = s.ctx /\ queues' = queues /\ s.ctx \in Ctx
    BY <1>1, <1>3 DEF Register, Owner
  <2>2. Live' = Live
    BY <2>1 DEF Live
  <2>3. QED
    BY <2>1, <2>2 DEF RegistryInv, RegistryExact, OneController
<1>4. ASSUME NEW step \in {"cq", "fq"}, NEW ring, NEW next \in {"fq", "offsets"}, Configure(step, ring, next)
      PROVE  RegistryExact' /\ OneController'
  <2>1. /\ call.state # "idle" /\ call'.state # "idle" /\ call'.ctx = call.ctx
        /\ devices' = devices /\ queues' = queues
    BY <1>1, <1>4 DEF Configure, CallType
  <2>2. QED
    BY <2>1, SameHolders DEF Live
<1>5. ASSUME QueryOffsets \/ MapFill \/ UnwindRing PROVE RegistryExact' /\ OneController'
  <2>1. /\ call.state # "idle" /\ call'.state # "idle" /\ call'.ctx = call.ctx
        /\ devices' = devices /\ queues' = queues
    BY <1>1, <1>5 DEF QueryOffsets, MapFill, UnwindRing, CallType
  <2>2. QED
    BY <2>1, SameHolders DEF Live
<1>6. ASSUME NEW q \in Handle, MapComp(q) PROVE RegistryExact' /\ OneController'
  <2>1. /\ call.state = "comp" /\ queues[q].state = "none" /\ devices' = devices
    BY <1>6 DEF MapComp
  <2>2. CASE call' = [call EXCEPT !.state = "unwind"] /\ queues' = queues
    <3>1. call'.state # "idle" /\ call'.ctx = call.ctx
      BY <1>1, <2>2 DEF CallType
    <3>2. QED
      BY <2>1, <2>2, <3>1, SameHolders DEF Live
  <2>3. CASE queues' = [queues EXCEPT ![q] = Owner("live", call.ctx, call.fd, Ring)] /\ call' = Idle
    <3>1. call'.state = "idle"
      BY <2>3, NoneType
    <3>2. /\ queues'[q].state = "live" /\ queues'[q].ctx = call.ctx
          /\ \A p \in Handle \ {q} : queues'[p] = queues[p]
      BY <1>1, <2>3 DEF Owner
    <3>3. Live' = Live \union {q} /\ q \notin Live
      BY <2>1, <3>2 DEF Live
    <3>4. \A p \in Live : queues'[p].ctx = queues[p].ctx /\ queues[p].ctx # call.ctx
      BY <2>1, <3>2, <3>3 DEF Live, RegistryInv, OneController
    <3>5. call.ctx \in Ctx
      BY <1>1 DEF CallType
    <3>6. OneController'
      BY <3>1, <3>2, <3>3, <3>4 DEF RegistryInv, OneController
    <3>7. RegistryExact'
      BY <2>1, <3>1, <3>2, <3>3, <3>4, <3>5 DEF RegistryInv, RegistryExact
    <3>8. QED
      BY <3>6, <3>7
  <2>4. QED
    BY <1>6, <2>2, <2>3 DEF MapComp
<1>7. CASE UnwindGuard
  <2>1. /\ call.state # "idle" /\ call'.state = "idle" /\ queues' = queues
        /\ devices' = devices \ {call.ctx}
    BY <1>7, NoneType DEF UnwindGuard
  <2>2. Live' = Live
    BY <2>1 DEF Live
  <2>3. QED
    BY <2>1, <2>2 DEF RegistryInv, RegistryExact, OneController
<1>8. ASSUME NEW q \in Handle, Deregister(q) PROVE RegistryExact' /\ OneController'
  <2>1. /\ queues[q].state = "live" /\ call' = call /\ devices' = devices \ {queues[q].ctx}
        /\ queues'[q].state = "dropping" /\ \A p \in Handle \ {q} : queues'[p] = queues[p]
    BY <1>1, <1>8 DEF Deregister, QueueType
  <2>2. Live' = Live \ {q} /\ q \in Live
    BY <2>1 DEF Live
  <2>3. \A p \in Live' : queues'[p].ctx = queues[p].ctx /\ p \in Live /\ queues[p].ctx # queues[q].ctx
    BY <2>1, <2>2 DEF Live, RegistryInv, OneController
  <2>4. QED
    BY <2>1, <2>2, <2>3 DEF RegistryInv, RegistryExact, OneController
<1>9. ASSUME NEW q \in Handle, UnmapRing(q) \/ DropFd(q) PROVE RegistryExact' /\ OneController'
  <2>1. /\ queues[q].state = "dropping" /\ call' = call /\ devices' = devices
        /\ queues'[q].state # "live" /\ \A p \in Handle \ {q} : queues'[p] = queues[p]
    BY <1>1, <1>9, NoneType DEF UnmapRing, DropFd, QueueType
  <2>2. Live' = Live /\ q \notin Live
    BY <2>1 DEF Live
  <2>3. \A p \in Live : queues'[p].ctx = queues[p].ctx
    BY <2>1, <2>2 DEF Live
  <2>4. QED
    BY <2>1, <2>2, <2>3, SameHolders
<1>10. ASSUME \/ \E ctx \in Ctx, fd \in Fd \ {UmemFd} : NewSocket(ctx, fd)
              \/ \E ctx \in Ctx : SharedSocket(ctx)
              \/ \E s \in sockets : DropSocket(s)
              \/ DropUmem \/ UNCHANGED vars
       PROVE  RegistryExact' /\ OneController'
  BY <1>2, <1>10 DEF NewSocket, SharedSocket, DropSocket, DropUmem, vars
<1>11. QED
  BY <1>3, <1>4, <1>5, <1>6, <1>7, <1>8, <1>9, <1>10 DEF Next, FqCq, DropQueue

\* No early return of fq_cq leaks a registry entry, and neither a refused or failed
\* call nor a drop takes the entry of another DeviceQueue.
THEOREM RegistryExactHolds == Spec => []RegistryExact
<1>1. RegistryInv => RegistryExact
  BY DEF RegistryInv
<1>2. QED
  BY <1>1, InitRegistry, NextRegistry, PTL DEF Spec

\* No two DeviceQueues control one interface queue, and no fq_cq sets up a second.
THEOREM OneControllerHolds == Spec => []OneController
<1>1. RegistryInv => OneController
  BY DEF RegistryInv
<1>2. QED
  BY <1>1, InitRegistry, NextRegistry, PTL DEF Spec

-----------------------------------------------------------------------------
(* The rings of a socket *)

\* Whoever maps a ring has had it sized by the kernel, which does so once per
\* socket: the call that got both rings sized finds nobody who has them mapped.
Unmapped(fd, ring) == \A q \in Handle : queues[q].fd = fd => ring \notin queues[q].rings

QueuesSized == \A q \in Handle : queues[q].rings \subseteq configured[queues[q].fd]
NoneEmpty == \A q \in Handle : queues[q].state = "none" => queues[q].rings = {}

RingsInv ==
  /\ Types
  /\ RingsExclusive
  /\ QueuesSized
  /\ NoneEmpty
  /\ call.rings \subseteq configured[call.fd]
  /\ call.state \in CallStep \ {"comp", "unwind"} => call.rings = {}
  /\ call.state \in {"fq", "offsets", "fill", "comp"} =>
       "comp" \in configured[call.fd] /\ Unmapped(call.fd, "comp")
  /\ call.state \in {"offsets", "fill", "comp"} =>
       "fill" \in configured[call.fd] /\ Unmapped(call.fd, "fill")

\* At the start no ring is mapped.
LEMMA InitRings == Init => RingsInv
<1> SUFFICES ASSUME Init PROVE RingsInv
  OBVIOUS
<1>1. /\ call.state = "idle" /\ call.rings = {}
      /\ \A q \in Handle : queues[q].rings = {}
  BY NoneType DEF Init
<1>2. QED
  BY <1>1, InitType DEF RingsInv, RingsExclusive, QueuesSized, NoneEmpty

\* Steps that leave the calls, the DeviceQueues and the kernel's sizes alone.
LEMMA SameRings ==
  ASSUME RingsInv, Types', UNCHANGED <<call, queues, configured>>
  PROVE  RingsInv'
BY DEF RingsInv, RingsExclusive, QueuesSized, NoneEmpty, Unmapped

\* A DeviceQueue that gives up rings, or is gone.
LEMMA FewerRings ==
  ASSUME RingsInv, Types', UNCHANGED <<call, configured>>, NEW q \in Handle,
         \A p \in Handle \ {q} : queues'[p] = queues[p],
         \/ queues'[q].rings = {}
         \/ /\ queues'[q].fd = queues[q].fd
            /\ queues'[q].rings \subseteq queues[q].rings,
         queues'[q].state = "none" => queues'[q].rings = {}
  PROVE  RingsInv'
<1>1. RingsExclusive'
  BY DEF RingsInv, RingsExclusive
<1>2. QueuesSized' /\ NoneEmpty'
  <2>1. QueuesSized /\ NoneEmpty
    BY DEF RingsInv
  <2>2. QED
    BY <2>1 DEF QueuesSized, NoneEmpty
<1>3. \A fd \in Fd, ring \in Ring : Unmapped(fd, ring) => Unmapped(fd, ring)'
  BY DEF Unmapped
<1>4. call.fd \in Fd /\ "comp" \in Ring /\ "fill" \in Ring
  BY DEF Types, RingsInv, CallType, Ring
<1>5. QED
  BY <1>1, <1>2, <1>3, <1>4 DEF RingsInv

\* Every step keeps the rings apart.
LEMMA NextRings == RingsInv /\ [Next]_vars => RingsInv'
<1> SUFFICES ASSUME RingsInv, [Next]_vars PROVE RingsInv'
  OBVIOUS
<1>1. /\ Types /\ Types' /\ call \in CallType /\ queues \in [Handle -> QueueType]
      /\ configured \in [Fd -> SUBSET Ring]
      /\ QueuesSized /\ NoneEmpty /\ \A q \in Handle : queues[q].fd \in Fd
  BY NextType DEF Types, RingsInv, QueueType
<1>2. ASSUME NEW ctx \in Ctx, NEW fd \in Fd, NewSocket(ctx, fd) PROVE RingsInv'
  <2>1. /\ configured' = [configured EXCEPT ![fd] = {}] /\ UNCHANGED <<call, queues>>
        /\ call.state # "idle" => call.fd # fd
        /\ \A q \in Handle : queues[q].state # "none" => queues[q].fd # fd
    BY <1>2 DEF NewSocket, Open
  <2>2. \A f \in Fd \ {fd} : configured'[f] = configured[f]
    BY <1>1, <2>1
  <2>3. /\ call.rings \subseteq configured'[call.fd]
        /\ call.state # "idle" => configured'[call.fd] = configured[call.fd]
    <3>1. CASE call.state = "idle"
      BY <3>1 DEF RingsInv, CallStep
    <3>2. CASE call.state # "idle"
      BY <1>1, <2>1, <2>2, <3>2 DEF RingsInv, CallType
    <3>3. QED
      BY <3>1, <3>2
  <2>4. QueuesSized'
    <3>1. SUFFICES ASSUME NEW q \in Handle PROVE queues[q].rings \subseteq configured'[queues[q].fd]
      BY <2>1 DEF QueuesSized
    <3>2. CASE queues[q].state = "none"
      BY <1>1, <3>2 DEF NoneEmpty
    <3>3. CASE queues[q].state # "none"
      BY <1>1, <2>1, <2>2, <3>3 DEF QueuesSized
    <3>4. QED
      BY <3>2, <3>3
  <2>5. QED
    BY <1>1, <2>1, <2>3, <2>4 DEF RingsInv, RingsExclusive, NoneEmpty, Unmapped
<1>3. ASSUME NEW s \in sockets, Register(s) PROVE RingsInv'
  <2>1. /\ call'.state = "cq" /\ call'.rings = {} /\ UNCHANGED <<queues, configured>>
    BY <1>3 DEF Register, Owner
  <2>2. QED
    BY <1>1, <2>1 DEF RingsInv, RingsExclusive, QueuesSized, NoneEmpty
<1>4. CASE Configure("cq", "comp", "fq")
  <2>1. call.state = "cq" /\ call.rings = {} /\ UNCHANGED queues
    BY <1>4 DEF Configure, RingsInv, CallStep
  <2>2. CASE call' = [call EXCEPT !.state = "unwind"] /\ configured' = configured
    <3>1. call'.state = "unwind" /\ call'.rings = {} /\ call'.fd = call.fd
      BY <1>1, <2>1, <2>2 DEF CallType
    <3>2. QED
      BY <1>1, <2>1, <2>2, <3>1 DEF RingsInv, RingsExclusive, QueuesSized, NoneEmpty
  <2>3. CASE /\ "comp" \notin configured[call.fd] /\ call' = [call EXCEPT !.state = "fq"]
             /\ configured' = [configured EXCEPT ![call.fd] = @ \union {"comp"}]
    <3>1. /\ call'.state = "fq" /\ call'.rings = {} /\ call'.fd = call.fd
          /\ "comp" \in configured'[call.fd]
          /\ \A f \in Fd : configured[f] \subseteq configured'[f]
      BY <1>1, <2>1, <2>3 DEF CallType
    <3>2. Unmapped(call.fd, "comp")
      BY <1>1, <2>3 DEF QueuesSized, Unmapped
    <3>3. QueuesSized'
      BY <1>1, <2>1, <3>1 DEF QueuesSized
    <3>4. QED
      BY <1>1, <2>1, <3>1, <3>2, <3>3 DEF RingsInv, RingsExclusive, NoneEmpty, Unmapped
  <2>4. QED
    BY <1>4, <2>2, <2>3 DEF Configure
<1>5. CASE Configure("fq", "fill", "offsets")
  <2>1. call.state = "fq" /\ call.rings = {} /\ UNCHANGED queues
    BY <1>5 DEF Configure, RingsInv, CallStep
  <2>2. CASE call' = [call EXCEPT !.state = "unwind"] /\ configured' = configured
    <3>1. call'.state = "unwind" /\ call'.rings = {} /\ call'.fd = call.fd
      BY <1>1, <2>1, <2>2 DEF CallType
    <3>2. QED
      BY <1>1, <2>1, <2>2, <3>1 DEF RingsInv, RingsExclusive, QueuesSized, NoneEmpty
  <2>3. CASE /\ "fill" \notin configured[call.fd] /\ call' = [call EXCEPT !.state = "offsets"]
             /\ configured' = [configured EXCEPT ![call.fd] = @ \union {"fill"}]
    <3>1. /\ call'.state = "offsets" /\ call'.rings = {} /\ call'.fd = call.fd
          /\ "fill" \in configured'[call.fd] /\ "comp" \in configured'[call.fd]
          /\ \A f \in Fd : configured[f] \subseteq configured'[f]
      BY <1>1, <2>1, <2>3 DEF CallType, RingsInv
    <3>2. Unmapped(call.fd, "fill") /\ Unmapped(call.fd, "comp")
      <4>1. Unmapped(call.fd, "fill")
        BY <1>1, <2>3 DEF QueuesSized, Unmapped
      <4>2. Unmapped(call.fd, "comp")
        BY <2>1 DEF RingsInv
      <4>3. QED
        BY <4>1, <4>2
    <3>3. QueuesSized'
      BY <1>1, <2>1, <3>1 DEF QueuesSized
    <3>4. QED
      BY <1>1, <2>1, <3>1, <3>2, <3>3 DEF RingsInv, RingsExclusive, NoneEmpty, Unmapped
  <2>4. QED
    BY <1>5, <2>2, <2>3 DEF Configure
<1>6. CASE QueryOffsets
  <2>1. /\ call.state = "offsets" /\ call.rings = {} /\ UNCHANGED <<queues, configured>>
        /\ call'.state \in {"fill", "unwind"} /\ call'.rings = {} /\ call'.fd = call.fd
    BY <1>1, <1>6 DEF QueryOffsets, RingsInv, CallType, CallStep
  <2>2. QED
    BY <1>1, <2>1 DEF RingsInv, RingsExclusive, QueuesSized, NoneEmpty, Unmapped
<1>7. CASE MapFill
  <2>1. call.state = "fill" /\ call.rings = {} /\ UNCHANGED <<queues, configured>>
    BY <1>7 DEF MapFill, RingsInv, CallStep
  <2>2. CASE call' = [call EXCEPT !.state = "comp", !.rings = {"fill"}]
    <3>1. call'.state = "comp" /\ call'.rings = {"fill"} /\ call'.fd = call.fd
      BY <1>1, <2>2 DEF CallType
    <3>2. QED
      BY <1>1, <2>1, <3>1 DEF RingsInv, RingsExclusive, QueuesSized, NoneEmpty, Unmapped
  <2>3. CASE call' = [call EXCEPT !.state = "unwind"]
    <3>1. call'.state = "unwind" /\ call'.rings = {} /\ call'.fd = call.fd
      BY <1>1, <2>1, <2>3 DEF CallType
    <3>2. QED
      BY <1>1, <2>1, <3>1 DEF RingsInv, RingsExclusive, QueuesSized, NoneEmpty
  <2>4. QED
    BY <1>7, <2>2, <2>3 DEF MapFill
<1>8. ASSUME NEW q \in Handle, MapComp(q) PROVE RingsInv'
  <2>1. call.state = "comp" /\ queues[q].state = "none" /\ UNCHANGED configured
    BY <1>8 DEF MapComp
  <2>2. CASE call' = [call EXCEPT !.state = "unwind"] /\ queues' = queues
    <3>1. call'.state = "unwind" /\ call'.rings = call.rings /\ call'.fd = call.fd
      BY <1>1, <2>2 DEF CallType
    <3>2. QED
      BY <1>1, <2>1, <2>2, <3>1 DEF RingsInv, RingsExclusive, QueuesSized, NoneEmpty
  <2>3. CASE queues' = [queues EXCEPT ![q] = Owner("live", call.ctx, call.fd, Ring)] /\ call' = Idle
    <3>1. call'.state = "idle" /\ call'.rings = {}
      BY <2>3, NoneType
    <3>2. /\ queues'[q].state = "live" /\ queues'[q].fd = call.fd /\ queues'[q].rings = Ring
          /\ \A p \in Handle \ {q} : queues'[p] = queues[p]
      BY <1>1, <2>3 DEF Owner
    <3>3. Ring \subseteq configured[call.fd]
      BY <2>1 DEF RingsInv, Ring
    <3>4. \A p \in Handle : queues[p].fd = call.fd => queues[p].rings \intersect Ring = {}
      BY <2>1 DEF RingsInv, Unmapped, Ring
    <3>5. RingsExclusive'
      BY <3>1, <3>2, <3>4 DEF RingsInv, RingsExclusive
    <3>6. QueuesSized' /\ NoneEmpty'
      BY <1>1, <2>1, <3>2, <3>3 DEF QueuesSized, NoneEmpty
    <3>7. QED
      BY <1>1, <2>1, <3>1, <3>5, <3>6 DEF RingsInv
  <2>4. QED
    BY <1>8, <2>2, <2>3 DEF MapComp
<1>9. CASE UnwindRing
  <2>1. /\ call'.state = "unwind" /\ call'.rings = {} /\ call'.fd = call.fd
        /\ UNCHANGED <<queues, configured>>
    BY <1>1, <1>9 DEF UnwindRing, CallType
  <2>2. QED
    BY <1>1, <2>1 DEF RingsInv, RingsExclusive, QueuesSized, NoneEmpty
<1>10. CASE UnwindGuard
  <2>1. call'.state = "idle" /\ call'.rings = {} /\ UNCHANGED <<queues, configured>>
    BY <1>10, NoneType DEF UnwindGuard
  <2>2. QED
    BY <1>1, <2>1 DEF RingsInv, RingsExclusive, QueuesSized, NoneEmpty
<1>11. ASSUME NEW q \in Handle, Deregister(q) PROVE RingsInv'
  <2>1. /\ UNCHANGED <<call, configured>> /\ \A p \in Handle \ {q} : queues'[p] = queues[p]
        /\ queues'[q].state = "dropping" /\ queues'[q].fd = queues[q].fd
        /\ queues'[q].rings = queues[q].rings
    BY <1>1, <1>11 DEF Deregister, QueueType
  <2>2. QED
    BY <1>1, <2>1, FewerRings
<1>12. ASSUME NEW q \in Handle, UnmapRing(q) PROVE RingsInv'
  <2>1. PICK ring \in queues[q].rings : queues' = [queues EXCEPT ![q].rings = @ \ {ring}]
    BY <1>12 DEF UnmapRing
  <2>2. queues[q].state = "dropping" /\ UNCHANGED <<call, configured>>
    BY <1>12 DEF UnmapRing
  <2>3. /\ \A p \in Handle \ {q} : queues'[p] = queues[p]
        /\ queues'[q].state = "dropping" /\ queues'[q].fd = queues[q].fd
        /\ queues'[q].rings \subseteq queues[q].rings
    BY <1>1, <2>1, <2>2 DEF QueueType
  <2>4. QED
    BY <1>1, <2>2, <2>3, FewerRings
<1>13. ASSUME NEW q \in Handle, DropFd(q) PROVE RingsInv'
  <2>1. /\ UNCHANGED <<call, configured>> /\ \A p \in Handle \ {q} : queues'[p] = queues[p]
        /\ queues'[q].rings = {}
    BY <1>1, <1>13, NoneType DEF DropFd
  <2>2. QED
    BY <1>1, <2>1, FewerRings
<1>14. ASSUME \/ \E ctx \in Ctx : SharedSocket(ctx)
              \/ \E s \in sockets : DropSocket(s)
              \/ DropUmem \/ UNCHANGED vars
       PROVE  RingsInv'
  BY <1>1, <1>14, SameRings DEF SharedSocket, DropSocket, DropUmem, vars
<1>15. QED
  BY <1>2, <1>3, <1>4, <1>5, <1>6, <1>7, <1>8, <1>9, <1>10, <1>11, <1>12, <1>13, <1>14
     DEF Next, FqCq, DropQueue

\* The fill and completion rings of a socket are never mapped by two owners, also
\* while a drop that gave its interface queue back still has to unmap them.
THEOREM RingsExclusiveHolds == Spec => []RingsExclusive
<1>1. RingsInv => RingsExclusive
  BY DEF RingsInv
<1>2. QED
  BY <1>1, InitRings, NextRings, PTL DEF Spec

-----------------------------------------------------------------------------
(* Type correctness *)

\* The kernel has sized the fill ring of no socket whose completion ring it has not.
CompFirst == configured \in [Fd -> {{}, {"comp"}, Ring}]

\* A call that has its fill ring sized got its completion ring sized before, and
\* nobody can have created the socket anew meanwhile: that is part of RingsInv.
LEMMA NextCompFirst == RingsInv /\ CompFirst /\ [Next]_vars => CompFirst'
<1> SUFFICES ASSUME RingsInv, CompFirst, [Next]_vars PROVE CompFirst'
  OBVIOUS
<1>1. CASE UNCHANGED configured
  BY <1>1 DEF CompFirst
<1>2. ASSUME NEW ctx \in Ctx, NEW fd \in Fd, NewSocket(ctx, fd) PROVE CompFirst'
  BY <1>2 DEF NewSocket, CompFirst
<1>3. CASE Configure("cq", "comp", "fq")
  <2>1. \A set \in {{}, {"comp"}, Ring} : set \union {"comp"} \in {{}, {"comp"}, Ring}
    BY DEF Ring
  <2>2. QED
    BY <1>3, <2>1 DEF Configure, CompFirst
<1>4. CASE Configure("fq", "fill", "offsets")
  <2>1. "comp" \in configured[call.fd] /\ call.fd \in Fd
    BY <1>4 DEF Configure, RingsInv, Types, CallType
  <2>2. configured[call.fd] \union {"fill"} = Ring
    BY <2>1 DEF CompFirst, Ring
  <2>3. QED
    BY <1>4, <2>2 DEF Configure, CompFirst
<1>5. QED
  BY <1>1, <1>2, <1>3, <1>4
     DEF Next, FqCq, DropQueue, SharedSocket, DropSocket, DropUmem, Register, QueryOffsets,
         MapFill, MapComp, UnwindRing, UnwindGuard, Deregister, UnmapRing, DropFd, vars

\* The registry, the call in progress and the DeviceQueues keep their types, and no
\* socket is left with a fill ring alone, wherever configure_cq fails.
THEOREM TypeCorrect == Spec => []TypeOK
<1>1. Init => CompFirst
  BY DEF Init, CompFirst
<1>2. RingsInv /\ CompFirst => TypeOK
  BY DEF RingsInv, Types, CompFirst, TypeOK, CallType, QueueType
<1>3. QED
  BY <1>1, <1>2, InitRings, NextRings, NextCompFirst, PTL DEF Spec
=============================================================================
