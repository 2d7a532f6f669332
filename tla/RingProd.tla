------------------------------ MODULE RingProd ------------------------------
(***************************************************************************)
(* A producer ring (fill or TX): user space owns the producer head, the    *)
(* kernel the consumer head. RingProd of src/src/xsk/ring.rs, driven        *)
(* through the writers WriteFill and WriteTx of src/src/xsk/user.rs, with   *)
(* the kernel's side of the ring as the environment.                       *)
(*                                                                         *)
(* One action per call; insert is one action per descriptor, because the   *)
(* kernel runs between any two of them. A slot write is plain memory: the  *)
(* kernel is sure to see it only after a Release store of the producer     *)
(* head, and until then a read of the slot may return anything (dirty).    *)
(***************************************************************************)
EXTENDS XskIndex, Sequences

CONSTANTS
  Value,          \* descriptors
  None,           \* the kernel has read no descriptor yet
  MaxBatch,       \* bound of the batch sizes passed to transmit and fill
  OverflowChecks, \* the builds considered: with traps on overflow of + and -, or without
  ReuseWriter,    \* the client goes on inserting through a writer after a commit
  MapInFlight     \* the client maps a ring that holds unconsumed descriptors

\* Once a ring was mapped in flight, more of count_free and reserve can overflow
\* than CountFreeTraps covers: the two are not combined.
ASSUME RingProdAssumption ==
  /\ None \notin Value
  /\ Value # {}
  /\ MaxBatch \in Nat
  /\ OverflowChecks \subseteq BOOLEAN
  /\ {ReuseWriter, MapInFlight} \subseteq BOOLEAN
  /\ ~(TRUE \in OverflowChecks /\ MapInFlight)

VARIABLES
  \* shared with the kernel through the mmap
  producer, consumer, desc,
  \* XskRing of the mapped RingTx or DeviceQueue
  handle, cachedProducer, cachedConsumer,
  \* the WriteTx or WriteFill that borrows it
  writer,
  \* kernel: the next index to read, and the last descriptor read
  kernelHead, observed,
  \* memory order: consumer head of the last Acquire load, slots written since
  \* the last Release store
  acquired, dirty,
  \* the build: does it trap on overflow?
  checked

shared == <<producer, consumer, desc>>
cached == <<cachedProducer, cachedConsumer>>
kernel == <<kernelHead, observed>>
vars == <<shared, handle, cached, writer, kernel, acquired, dirty, checked>>

Batch == 0 .. MaxBatch

NoWriter == [open |-> FALSE, base |-> 0, buffers |-> 0, remain |-> 0, fresh |-> TRUE]

\* An overflow is fatal in a checked build and wraps in any other one.
AddTraps(a, b) == checked /\ a + b >= Modulus

Init ==
  /\ producer = 0 /\ consumer = 0
  /\ desc \in {[s \in Slots |-> v] : v \in Value} \* the kernel hands out cleared pages
  /\ handle = "unmapped"
  /\ cachedProducer = 0 /\ cachedConsumer = 0
  /\ writer = NoWriter
  /\ kernelHead = 0 /\ observed = None
  /\ acquired = 0 /\ dirty = {}
  /\ checked \in OverflowChecks

-----------------------------------------------------------------------------
(* Mapping and unmapping *)

\* XskRing::new: both heads are loaded Relaxed.
Map ==
  /\ handle = "unmapped"
  /\ MapInFlight \/ producer = consumer
  /\ handle' = "mapped"
  /\ cachedProducer' = producer
  /\ cachedConsumer' = consumer
  /\ UNCHANGED <<shared, writer, kernel, acquired, dirty, checked>>

\* Drop of the ring; a writer that borrows it must be gone.
Unmap ==
  /\ handle = "mapped"
  /\ ~writer.open
  /\ handle' = "unmapped"
  /\ UNCHANGED <<shared, cached, writer, kernel, acquired, dirty, checked>>

-----------------------------------------------------------------------------
(* Reserving slots *)

CachedFree == WSub(cachedConsumer, cachedProducer)

\* Mutant: the cache is extended without loading the consumer head.
CountFreeNoReload(minimum) ==
  IF CachedFree >= minimum
  THEN [free |-> CachedFree, consumer |-> cachedConsumer, acquired |-> acquired]
  ELSE LET ahead == WAdd(cachedConsumer, Size)
       IN  [free |-> WSub(ahead, cachedProducer), consumer |-> ahead, acquired |-> consumer]

\* Mutant: the consumer head is loaded Relaxed.
CountFreeRelaxed(minimum) ==
  IF CachedFree >= minimum
  THEN [free |-> CachedFree, consumer |-> cachedConsumer, acquired |-> acquired]
  ELSE LET ahead == WAdd(consumer, Size)
       IN  [free |-> WSub(ahead, cachedProducer), consumer |-> ahead, acquired |-> acquired]

\* count_free: the entries it reports and the cache it leaves behind. Only a
\* cache that cannot serve minimum loads the consumer head (Acquire).
CountFree(minimum) ==
  IF CachedFree >= minimum
  THEN [free |-> CachedFree, consumer |-> cachedConsumer, acquired |-> acquired]
  ELSE LET ahead == WAdd(consumer, Size)
       IN  [free |-> WSub(ahead, cachedProducer), consumer |-> ahead, acquired |-> consumer]

\* `cached_consumer += size` overflows; it is the only sum or difference of
\* count_free and reserve that can: without it the heads have not wrapped and
\* stay ordered.
CountFreeTraps(minimum) == CachedFree < minimum /\ AddTraps(consumer, Size)

\* reserve(1..=n): all that is free, up to n, or nothing.
Reserve(n) ==
  LET found == CountFree(1)
      empty == found.free < 1
  IN  [count    |-> IF empty THEN 0 ELSE AtMost(found.free, n),
       idx      |-> IF empty THEN 0 ELSE cachedProducer,
       consumer |-> found.consumer,
       acquired |-> found.acquired]

\* RingProd::cancel
Cancel(nb) == cachedProducer' = WSub(cachedProducer, nb)

-----------------------------------------------------------------------------
(* Writers *)

\* BufIdxIter over count slots from idx on.
NewIter(count, idx) ==
  [open |-> TRUE, base |-> idx, buffers |-> count, remain |-> count, fresh |-> TRUE]

\* RingTx::transmit and DeviceQueue::fill.
Transmit(n) ==
  LET got == Reserve(n)
  IN  /\ handle = "mapped"
      /\ ~writer.open
      /\ ~CountFreeTraps(1)
      /\ cachedConsumer' = got.consumer
      /\ acquired' = got.acquired
      /\ cachedProducer' = WAdd(cachedProducer, got.count)
      /\ writer' = NewIter(got.count, got.idx)
      /\ UNCHANGED <<shared, handle, kernel, dirty, checked>>

TransmitTraps ==
  /\ handle = "mapped"
  /\ ~writer.open
  /\ CountFreeTraps(1)
  /\ cachedConsumer' = consumer
  /\ acquired' = consumer
  /\ handle' = "panicked"
  /\ UNCHANGED <<shared, cachedProducer, writer, kernel, dirty, checked>>

\* BufIdxIter::next, once a slot is left.
Advance(idx) == [idx EXCEPT !.base = WAdd(@, 1), !.remain = @ - 1]

\* A slot is left, and the client's discipline allows to use it.
CanInsert ==
  /\ writer.open
  /\ writer.remain > 0
  /\ ReuseWriter \/ writer.fresh

\* Mutant: base is advanced without wrapping.
InsertNoWrap(v) ==
  /\ CanInsert
  /\ desc' = [desc EXCEPT ![Slot(writer.base)] = v]
  /\ dirty' = dirty \union {Slot(writer.base)}
  /\ writer' = [writer EXCEPT !.base = @ + 1, !.remain = @ - 1]
  /\ UNCHANGED <<producer, consumer, handle, cached, kernel, acquired, checked>>

\* One iteration of insert: BufIdxIter::next, then the write of the slot.
Insert(v) ==
  /\ CanInsert
  /\ desc' = [desc EXCEPT ![Slot(writer.base)] = v]
  /\ dirty' = dirty \union {Slot(writer.base)}
  /\ writer' = Advance(writer)
  /\ UNCHANGED <<producer, consumer, handle, cached, kernel, acquired, checked>>

\* Mutant: the producer head is stored Relaxed.
SubmitRelaxed(count) ==
  /\ producer' = WAdd(producer, count)
  /\ UNCHANGED dirty

\* submit: the producer head is advanced with a Release store.
Submit(count) ==
  /\ producer' = WAdd(producer, count)
  /\ dirty' = {}

Written == writer.buffers - writer.remain

\* Mutant: the whole reservation is published, written or not.
CommitAll ==
  /\ writer.open /\ writer.buffers > 0
  /\ ~AddTraps(writer.base, Written)
  /\ Submit(writer.buffers)
  /\ writer' = [writer EXCEPT !.buffers = 0, !.remain = 0,
                              !.base = WAdd(@, Written), !.fresh = @ /\ Written = 0]
  /\ UNCHANGED <<consumer, desc, handle, cached, kernel, acquired, checked>>

\* Mutant: `buffers -= count` is missing, so that drop cancels what was published.
CommitKeepsBuffers ==
  /\ writer.open /\ writer.buffers > 0
  /\ ~AddTraps(writer.base, Written)
  /\ Submit(Written)
  /\ writer' = [writer EXCEPT !.base = WAdd(@, Written), !.fresh = @ /\ Written = 0]
  /\ UNCHANGED <<consumer, desc, handle, cached, kernel, acquired, checked>>

\* commit_prod: publishes what was written. next() has already moved base past
\* the written slots, and commit_prod moves it again.
Commit ==
  /\ writer.open /\ writer.buffers > 0
  /\ ~AddTraps(writer.base, Written)
  /\ Submit(Written)
  /\ writer' = [writer EXCEPT !.buffers = writer.remain, !.base = WAdd(@, Written),
                              !.fresh = @ /\ Written = 0]
  /\ UNCHANGED <<consumer, desc, handle, cached, kernel, acquired, checked>>

\* `base.0 += count` overflows after the head was published; unwinding drops
\* the writer.
CommitTraps ==
  /\ writer.open /\ writer.buffers > 0
  /\ AddTraps(writer.base, Written)
  /\ Submit(Written)
  /\ Cancel(writer.remain)
  /\ writer' = NoWriter
  /\ handle' = "panicked"
  /\ UNCHANGED <<consumer, desc, cachedConsumer, kernel, acquired, checked>>

\* Mutant: only the slots that were not written are cancelled.
DropWriterUnwritten ==
  /\ writer.open
  /\ Cancel(writer.remain)
  /\ writer' = NoWriter
  /\ UNCHANGED <<shared, handle, cachedConsumer, kernel, acquired, dirty, checked>>

\* Drop of the writer: the reservation that was not committed is cancelled.
DropWriter ==
  /\ writer.open
  /\ Cancel(writer.buffers)
  /\ writer' = NoWriter
  /\ UNCHANGED <<shared, handle, cachedConsumer, kernel, acquired, dirty, checked>>

-----------------------------------------------------------------------------
(* The kernel's side *)

\* The kernel reads the next published descriptor; an unordered write makes the
\* value it sees arbitrary.
KernelRead ==
  /\ kernelHead # producer
  /\ observed' \in IF Slot(kernelHead) \in dirty THEN Value ELSE {desc[Slot(kernelHead)]}
  /\ kernelHead' = WAdd(kernelHead, 1)
  /\ UNCHANGED <<shared, handle, cached, writer, acquired, dirty, checked>>

\* The kernel returns everything it has read.
KernelRelease ==
  /\ consumer # kernelHead
  /\ consumer' = kernelHead
  /\ UNCHANGED <<producer, desc, handle, cached, writer, kernel, acquired, dirty, checked>>

-----------------------------------------------------------------------------
User ==
  \/ Map
  \/ Unmap
  \/ \E n \in Batch : Transmit(n)
  \/ TransmitTraps
  \/ \E v \in Value : Insert(v)
  \/ Commit
  \/ CommitTraps
  \/ DropWriter

Kernel == KernelRead \/ KernelRelease

Next == User \/ Kernel

Spec == Init /\ [][Next]_vars

\* The scheduling a polling client and a woken kernel give: the kernel drains
\* the ring, an open writer is committed and dropped in the end, and the client
\* keeps asking for slots (SF: between two writers the request is only now and
\* then possible).
Fairness ==
  /\ WF_vars(Map)
  /\ SF_vars(\E n \in Batch \ {0} : Transmit(n))
  /\ WF_vars(DropWriter)
  /\ WF_vars(KernelRead)
  /\ WF_vars(KernelRelease)

FairSpec == Spec /\ Fairness

-----------------------------------------------------------------------------
(* Properties *)

\* Every variable keeps its type; heads and BufIdx values stay u32.
TypeOK ==
  /\ {producer, consumer, cachedProducer, cachedConsumer, kernelHead, acquired} \subseteq Index
  /\ desc \in [Slots -> Value]
  /\ handle \in {"unmapped", "mapped", "panicked"}
  /\ writer \in [open : BOOLEAN, base : Index, buffers : Index, remain : Index, fresh : BOOLEAN]
  /\ observed \in Value \union {None}
  /\ dirty \subseteq Slots
  /\ checked \in OverflowChecks

InUse == WSub(consumer, acquired) + WSub(kernelHead, consumer)
           + WSub(producer, kernelHead) + WSub(cachedProducer, producer)

\* The heads keep their circular order within one ring length: what the kernel
\* may still read, what user space has reserved and what count_free would grant
\* from its cache never add up to more than the ring. This is what the wrapping
\* arithmetic of count_free, reserve, submit and cancel has to preserve.
HeadOrder ==
  /\ InUse <= Size
  /\ handle # "panicked" => InUse + CachedFree <= Size

\* A slot that a writer is still going to fill is never one the kernel may be
\* reading: not unread, and not read but unreleased (fill_addr, tx_desc).
ReservationOwned ==
  CanInsert =>
    Window(writer.base, writer.remain) \intersect Window(consumer, WSub(producer, consumer)) = {}

\* Those slots come from consumer heads that count_free loaded with Acquire, so
\* that the kernel's reads of their previous descriptors happened before.
ReservationAcquired ==
  CanInsert => \A k \in 1 .. writer.remain : WSub(WAdd(writer.base, k), acquired) <= Size

\* Every descriptor below the producer head was written before the Release store
\* of submit that made it visible.
PublishedOrdered ==
  Window(kernelHead, WSub(producer, kernelHead)) \intersect dirty = {}

Contents(idx, n) == [k \in 1 .. n |-> desc[Slot(WAdd(idx, k - 1))]]

\* The ring is a bounded FIFO of committed descriptors: the kernel receives what
\* was inserted, in order, once, and nothing a dropped writer took back.
Channel == INSTANCE RingChannel WITH
  Capacity <- Size,
  staged   <- Contents(producer, Written),
  queue    <- Contents(consumer, WSub(producer, consumer)),
  taken    <- WSub(kernelHead, consumer)

ImplementsChannel == Channel!Spec

\* RingTx::transmit: "The total number of available slots" (WriteTx::capacity)
\* is never more than the slots the kernel has given back.
CapacityAvailable ==
  handle = "mapped" => writer.buffers <= Size - WSub(producer, consumer)

\* Heads "operate on the 32-bit number range, silently mapping to the same range
\* of indices" (BufIdx): wrapping is not an error.
NeverPanics == handle # "panicked"

\* A client that keeps calling transmit gets slots again and again: count_free
\* notices that the kernel released entries although its cache says full.
SlotsAgain == ~checked => []<>(writer.open /\ writer.buffers > 0)
=============================================================================
