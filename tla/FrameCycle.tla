----------------------------- MODULE FrameCycle -----------------------------
(***************************************************************************)
(* The frames of a Umem on their way through the four rings of a socket:   *)
(* client -> fill -> kernel -> RX -> client -> TX -> kernel -> completion  *)
(* -> client. The writers and readers of src/src/xsk/user.rs move them, and *)
(* needs_wakeup and wake keep a kernel going that stops polling a ring.    *)
(*                                                                         *)
(* A ring is the bounded FIFO that RingProd and RingCons are shown to       *)
(* implement (RingChannel), reduced to the side user space is on: entries  *)
(* of a producer ring are staged and published, entries of a consumer ring *)
(* taken and released. The kernel moves one entry at a time.               *)
(***************************************************************************)
EXTENDS Naturals, Sequences, FiniteSets

CONSTANTS
  Frame,    \* frames of the Umem, all of them the client's at the start
  Depth,    \* entries of each ring, from UmemConfig and SocketConfig
  Draining  \* the client hands insert an iterator that gives its frames away

\* The kernel moves frames from a producer ring to the ring Out of it.
Prod == {"fill", "tx"}
Out(p) == IF p = "fill" THEN "rx" ELSE "comp"
Cons == {Out(p) : p \in Prod}
Ring == Prod \union Cons

ASSUME FrameCycleAssumption ==
  /\ IsFiniteSet(Frame)
  /\ Depth \in [Ring -> Nat \ {0}]
  /\ Draining \in BOOLEAN

VARIABLES
  queue,   \* published entries of each ring, oldest first
  staged,  \* producer rings: entries inserted but not committed
  taken,   \* consumer rings: how many entries of queue were read but not released
  pool,    \* frames the client may use
  handle,  \* the WriteFill, WriteTx, ReadRx or ReadComplete of each ring
  nic,     \* frames the kernel has taken from a producer ring
  power    \* kernel: does it poll the producer ring?

rings == <<queue, staged, taken>>
vars == <<rings, pool, handle, nic, power>>

NoHandle == [state |-> "closed", remain |-> 0]

Init ==
  /\ queue = [r \in Ring |-> <<>>]
  /\ staged = [p \in Prod |-> <<>>]
  /\ taken = [c \in Cons |-> 0]
  /\ pool = Frame
  /\ handle = [r \in Ring |-> NoHandle]
  /\ nic = [p \in Prod |-> {}]
  /\ power = [p \in Prod |-> "awake"]

Elements(s) == {s[i] : i \in DOMAIN s}

-----------------------------------------------------------------------------
(* The client *)

\* fill and complete borrow one DeviceQueue; TX and RX are values of their own.
Borrowed(r) ==
  \E b \in IF r \in {"fill", "comp"} THEN {"fill", "comp"} ELSE {r} :
    handle[b].state # "closed"

\* transmit, fill, receive and complete, for a batch of one at least: at most what
\* is there, and something unless nothing is.
Open(r, there) ==
  /\ ~Borrowed(r)
  /\ \E count \in 0 .. there :
       /\ count = 0 => there = 0
       /\ handle' = [handle EXCEPT ![r] = [state |-> "open", remain |-> count]]
  /\ UNCHANGED <<rings, pool, nic, power>>

OpenWriter(p) == Open(p, Depth[p] - Len(queue[p]))
OpenReader(c) == Open(c, Len(queue[c]))

\* The client's own use of the handle is over, it is dropped next.
Done == [state |-> "done", remain |-> 0]

\* Frames that the client has not inserted into a ring it is going to commit.
Spare == {f \in pool : \A p \in Prod : f \notin Elements(staged[p])}

\* What becomes of the pool when the iterator is polled for f.
Polled(f) == IF Draining THEN pool \ {f} ELSE pool

\* Mutant: the end of the reservation is not noticed, remain goes below zero.
InsertPastEnd(p, f) ==
  /\ handle[p].state = "open" /\ f \in Spare
  /\ pool' = Polled(f)
  /\ staged' = [staged EXCEPT ![p] = Append(@, f)]
  /\ handle' = [handle EXCEPT ![p].remain = @ - 1]
  /\ UNCHANGED <<queue, taken, nic, power>>

\* insert zips the client's iterator with the slots: it polls for a frame, ...
Insert(p, f) ==
  /\ handle[p].state = "open" /\ f \in Spare
  /\ pool' = Polled(f)
  /\ \/ /\ handle[p].remain > 0
        /\ staged' = [staged EXCEPT ![p] = Append(@, f)]
        /\ handle' = [handle EXCEPT ![p].remain = @ - 1]
     \* ... and only then finds out that no slot is left.
     \/ /\ handle[p].remain = 0
        /\ UNCHANGED <<staged, handle>>
  /\ UNCHANGED <<queue, taken, nic, power>>

\* commit; the client gives up what it has inserted.
Commit(p) ==
  /\ handle[p].state = "open"
  /\ queue' = [queue EXCEPT ![p] = @ \o staged[p]]
  /\ staged' = [staged EXCEPT ![p] = <<>>]
  /\ pool' = pool \ Elements(staged[p])
  /\ handle' = [handle EXCEPT ![p] = Done]
  /\ UNCHANGED <<taken, nic, power>>

\* Drop of a writer: what was not committed is cancelled. A client whose iterator
\* drains does not let that happen.
DropWriter(p) ==
  /\ handle[p].state # "closed"
  /\ Draining => staged[p] = <<>>
  /\ staged' = [staged EXCEPT ![p] = <<>>]
  /\ handle' = [handle EXCEPT ![p] = NoHandle]
  /\ UNCHANGED <<queue, taken, pool, nic, power>>

Read(c) ==
  /\ handle[c].state = "open" /\ handle[c].remain > 0
  /\ taken' = [taken EXCEPT ![c] = @ + 1]
  /\ handle' = [handle EXCEPT ![c].remain = @ - 1]
  /\ UNCHANGED <<queue, staged, pool, nic, power>>

Taken(c) == SubSeq(queue[c], 1, taken[c])
Untaken(c) == SubSeq(queue[c], taken[c] + 1, Len(queue[c]))

\* release; what was read is the client's from now on.
Release(c) ==
  /\ handle[c].state = "open"
  /\ queue' = [queue EXCEPT ![c] = Untaken(c)]
  /\ taken' = [taken EXCEPT ![c] = 0]
  /\ pool' = pool \union Elements(Taken(c))
  /\ handle' = [handle EXCEPT ![c] = Done]
  /\ UNCHANGED <<staged, nic, power>>

\* Mutant: what was read is released.
DropReaderReleases(c) ==
  /\ handle[c].state # "closed"
  /\ queue' = [queue EXCEPT ![c] = Untaken(c)]
  /\ taken' = [taken EXCEPT ![c] = 0]
  /\ handle' = [handle EXCEPT ![c] = NoHandle]
  /\ UNCHANGED <<staged, pool, nic, power>>

\* Drop of a reader: entries that were read and not released come again.
DropReader(c) ==
  /\ handle[c].state # "closed"
  /\ taken' = [taken EXCEPT ![c] = 0]
  /\ handle' = [handle EXCEPT ![c] = NoHandle]
  /\ UNCHANGED <<queue, staged, pool, nic, power>>

\* Mutant: the flag is tested the wrong way round.
NeedsWakeupInverted(p) == power[p] # "asleep"

\* check_flags() & XDP_RING_NEED_WAKEUP; the kernel sets the flag as it goes to sleep.
NeedsWakeup(p) == power[p] = "asleep"

\* needs_wakeup and wake, of the DeviceQueue or the RingTx. That poll or sendto
\* fails goes unnoticed.
Wake(p) ==
  /\ ~Borrowed(p)
  /\ NeedsWakeup(p)
  /\ \E result \in {"awake", power[p]} : power' = [power EXCEPT ![p] = result]
  /\ UNCHANGED <<rings, pool, handle, nic>>

-----------------------------------------------------------------------------
(* The kernel *)

\* A completion entry is reserved before a descriptor is taken from the TX ring.
CanTake(p) ==
  /\ queue[p] # <<>>
  /\ p = "tx" => Len(queue["comp"]) + Cardinality(nic["tx"]) < Depth["comp"]

KernelTake(p) ==
  /\ power[p] = "awake" /\ CanTake(p)
  /\ nic' = [nic EXCEPT ![p] = @ \union {Head(queue[p])}]
  /\ queue' = [queue EXCEPT ![p] = Tail(@)]
  /\ UNCHANGED <<staged, taken, pool, handle, power>>

\* A packet has arrived in f, or f was sent.
KernelFinish(p, f) ==
  /\ f \in nic[p] /\ Len(queue[Out(p)]) < Depth[Out(p)]
  /\ nic' = [nic EXCEPT ![p] = @ \ {f}]
  /\ queue' = [queue EXCEPT ![Out(p)] = Append(@, f)]
  /\ UNCHANGED <<staged, taken, pool, handle, power>>

\* The kernel finds nothing to do and, some time later, sets the flag and stops:
\* the client may commit, and look at the flag, in between.
KernelDoze(p) ==
  /\ power[p] = "awake" /\ ~CanTake(p)
  /\ power' = [power EXCEPT ![p] = "dozing"]
  /\ UNCHANGED <<rings, pool, handle, nic>>

KernelSleep(p) ==
  /\ power[p] = "dozing"
  /\ power' = [power EXCEPT ![p] = "asleep"]
  /\ UNCHANGED <<rings, pool, handle, nic>>

-----------------------------------------------------------------------------
Client ==
  \/ \E p \in Prod : \/ OpenWriter(p)
                     \/ \E f \in Frame : Insert(p, f)
                     \/ Commit(p)
                     \/ DropWriter(p)
                     \/ Wake(p)
  \/ \E c \in Cons : OpenReader(c) \/ Read(c) \/ Release(c) \/ DropReader(c)

Kernel ==
  \E p \in Prod : \/ KernelTake(p)
                  \/ \E f \in Frame : KernelFinish(p, f)
                  \/ KernelDoze(p)
                  \/ KernelSleep(p)

Next == Client \/ Kernel

Spec == Init /\ [][Next]_vars

\* The polling loop of the examples: the device is polled for completions, which
\* are read and released, handles are dropped, and needs_wakeup is looked at
\* again and again, until a wake succeeds. A kernel that is awake sends.
Fairness ==
  /\ WF_vars(DropWriter("fill")) /\ WF_vars(DropWriter("tx")) /\ WF_vars(DropReader("comp"))
  /\ SF_vars(OpenReader("comp") /\ handle'["comp"].remain > 0)
  /\ SF_vars(Read("comp"))
  /\ SF_vars(Release("comp") /\ taken["comp"] > 0)
  /\ SF_vars(Wake("tx") /\ power'["tx"] = "awake")
  /\ WF_vars(KernelTake("tx"))
  /\ \A f \in Frame : WF_vars(KernelFinish("tx", f))
  /\ WF_vars(KernelSleep("tx"))

FairSpec == Spec /\ Fairness

-----------------------------------------------------------------------------
(* Properties *)

\* Every variable keeps its type, and no ring is filled beyond its entries.
TypeOK ==
  /\ \A r \in Ring :
       Elements(queue[r]) \subseteq Frame /\ Len(queue[r]) <= Depth[r]
  /\ \A p \in Prod :
       Elements(staged[p]) \subseteq Frame /\ Len(queue[p]) + Len(staged[p]) <= Depth[p]
  /\ \A c \in Cons : taken[c] \in 0 .. Len(queue[c])
  /\ pool \subseteq Frame
  /\ handle \in [Ring -> [state : {"closed", "open", "done"}, remain : Nat]]
  /\ nic \in [Prod -> SUBSET Frame]
  /\ power \in [Prod -> {"awake", "dozing", "asleep"}]

Count(f, s) == Cardinality({i \in DOMAIN s : s[i] = f})
Held(f, set) == IF f \in set THEN 1 ELSE 0

\* How many times f is the client's, the kernel's, or on its way between them.
Places(f) ==
  Held(f, pool \union Elements(staged["fill"]) \union Elements(staged["tx"]))
    + Held(f, nic["fill"]) + Held(f, nic["tx"])
    + Count(f, queue["fill"]) + Count(f, queue["tx"])
    + Count(f, queue["rx"]) + Count(f, queue["comp"])

\* No frame is ever lost, and none is the client's and the kernel's, or in two
\* rings, at a time: whatever batches are granted, and however many of the
\* descriptors are inserted, committed, read and released before a handle goes.
FramesConserved == \A f \in Frame : Places(f) = 1

\* Everything committed to the TX ring comes back through the completion ring,
\* although the kernel may fall asleep between a commit and the check of the
\* flag, and although wakes fail: nothing but polling needs_wakeup is required.
TxCompletes ==
  \A f \in Frame : (f \in Elements(queue["tx"]) \union nic["tx"]) ~> (f \in pool)
=============================================================================
