------------------------------ MODULE RingCons ------------------------------
(***************************************************************************)
(* A consumer ring (RX or completion): the kernel owns the producer head,   *)
(* user space the consumer head. RingCons of src/src/xsk/ring.rs, driven     *)
(* through the readers ReadRx and ReadComplete of src/src/xsk/user.rs, with  *)
(* the kernel's side of the ring as the environment.                       *)
(*                                                                         *)
(* One action per call, but count_available loads the producer head twice   *)
(* and the kernel runs in between, and a reader reads one descriptor at a   *)
(* time. A descriptor read is plain memory: it returns what the kernel      *)
(* wrote only if an Acquire load of the producer head covered it.           *)
(***************************************************************************)
EXTENDS XskIndex, Sequences

CONSTANTS
  Value,          \* descriptors
  None,           \* no descriptor has been read yet
  MaxBatch,       \* bound of the batch sizes passed to receive and complete
  OverflowChecks, \* the builds considered: with traps on overflow of + and -, or without
  ReuseReader,    \* the client goes on reading through a reader after a release
  MapInFlight     \* the client maps a ring the kernel has already written to

ASSUME RingConsAssumption ==
  /\ None \notin Value
  /\ Value # {}
  /\ MaxBatch \in Nat
  /\ OverflowChecks \subseteq BOOLEAN
  /\ {ReuseReader, MapInFlight} \subseteq BOOLEAN

VARIABLES
  \* shared with the kernel through the mmap
  producer, consumer, desc,
  \* XskRing of the mapped RingRx or DeviceQueue
  handle, cachedProducer, cachedConsumer,
  \* a count_available between its two loads
  peek,
  \* the ReadRx or ReadComplete that borrows the ring; what it returned last
  reader, observed,
  \* kernel: the next index to write
  kernelTail,
  \* memory order: producer head of the last Acquire load, slots read since the
  \* last Release store
  acquired, unordered,
  \* the build: does it trap on overflow?
  checked

shared == <<producer, consumer, desc>>
cached == <<cachedProducer, cachedConsumer>>
vars == <<shared, handle, cached, peek, reader, observed, kernelTail, acquired, unordered, checked>>

Batch == 0 .. MaxBatch

NoPeek == [active |-> FALSE, nb |-> 0, available |-> 0]
NoReader == [open |-> FALSE, base |-> 0, buffers |-> 0, remain |-> 0, fresh |-> TRUE]

\* An overflow is fatal in a checked build and wraps in any other one.
AddTraps(a, b) == checked /\ a + b >= Modulus

Init ==
  /\ producer = 0 /\ consumer = 0
  /\ desc \in {[s \in Slots |-> v] : v \in Value} \* the kernel hands out cleared pages
  /\ handle = "unmapped"
  /\ cachedProducer = 0 /\ cachedConsumer = 0
  /\ peek = NoPeek
  /\ reader = NoReader /\ observed = None
  /\ kernelTail = 0
  /\ acquired = 0 /\ unordered = {}
  /\ checked \in OverflowChecks

-----------------------------------------------------------------------------
(* Mapping and unmapping *)

\* XskRing::new: both heads are loaded Relaxed.
Map ==
  /\ handle = "unmapped"
  /\ MapInFlight \/ producer = consumer
  /\ handle' = "mapped"
  /\ cachedProducer' = producer
  /\ cachedConsumer' = consumer
  /\ UNCHANGED <<shared, peek, reader, observed, kernelTail, acquired, unordered, checked>>

\* The ring is mapped and no reader borrows it.
Idle == handle = "mapped" /\ ~reader.open /\ ~peek.active

\* Drop of the ring.
Unmap ==
  /\ Idle
  /\ handle' = "unmapped"
  /\ UNCHANGED <<shared, cached, peek, reader, observed, kernelTail,
                 acquired, unordered, checked>>

-----------------------------------------------------------------------------
(* Opening a reader *)

CachedAvailable == WSub(cachedProducer, cachedConsumer)

\* BufIdxIter over count entries from idx on.
NewIter(count, idx) ==
  [open |-> TRUE, base |-> idx, buffers |-> count, remain |-> count, fresh |-> TRUE]

\* Mutant: off by one in the bound of the batch.
GrantOneMore(available, n) ==
  LET count == IF available < 1 THEN 0 ELSE AtMost(available + 1, n)
  IN  \/ /\ ~AddTraps(cachedConsumer, count)
         /\ cachedConsumer' = WAdd(cachedConsumer, count)
         /\ reader' = NewIter(count, IF available < 1 THEN 0 ELSE cachedConsumer)
         /\ UNCHANGED handle
      \/ /\ AddTraps(cachedConsumer, count)
         /\ handle' = "panicked"
         /\ UNCHANGED <<cachedConsumer, reader>>

\* peek(1..=n) with what count_available found: `cached_consumer += count` is
\* the only sum that can overflow.
Grant(available, n) ==
  LET count == IF available < 1 THEN 0 ELSE AtMost(available, n)
  IN  \/ /\ ~AddTraps(cachedConsumer, count)
         /\ cachedConsumer' = WAdd(cachedConsumer, count)
         /\ reader' = NewIter(count, IF available < 1 THEN 0 ELSE cachedConsumer)
         /\ UNCHANGED handle
      \/ /\ AddTraps(cachedConsumer, count)
         /\ handle' = "panicked"
         /\ UNCHANGED <<cachedConsumer, reader>>

\* receive or complete, when the cached producer head shows an entry.
PeekCached(n) ==
  /\ Idle
  /\ CachedAvailable >= 1
  /\ Grant(CachedAvailable, n)
  /\ UNCHANGED <<shared, cachedProducer, peek, observed, kernelTail,
                 acquired, unordered, checked>>

\* Otherwise count_available looks at the shared head: a Relaxed load tells how
\* much is available, ...
PeekLoad(n) ==
  /\ Idle
  /\ CachedAvailable < 1
  /\ peek' = [active |-> TRUE, nb |-> n, available |-> WSub(producer, cachedConsumer)]
  /\ UNCHANGED <<shared, handle, cached, reader, observed, kernelTail,
                 acquired, unordered, checked>>

\* Mutant: the second load is Relaxed as well.
PeekAcquireRelaxed ==
  /\ peek.active
  /\ peek' = NoPeek
  /\ cachedProducer' = producer
  /\ Grant(peek.available, peek.nb)
  /\ UNCHANGED <<shared, observed, kernelTail, acquired, unordered, checked>>

\* ... and a second, Acquire load refreshes the cache.
PeekAcquire ==
  /\ peek.active
  /\ peek' = NoPeek
  /\ cachedProducer' = producer
  /\ acquired' = producer
  /\ Grant(peek.available, peek.nb)
  /\ UNCHANGED <<shared, observed, kernelTail, unordered, checked>>

\* RingCons::cancel
Cancel(nb) == cachedConsumer' = WSub(cachedConsumer, nb)

-----------------------------------------------------------------------------
(* Reading and releasing *)

\* BufIdxIter::next, once an entry is left.
Advance(idx) == [idx EXCEPT !.base = WAdd(@, 1), !.remain = @ - 1]

\* An entry is left, and the client's discipline allows to read it.
CanRead ==
  /\ reader.open
  /\ reader.remain > 0
  /\ ReuseReader \/ reader.fresh

\* The entry was published no later than the last head loaded with Acquire.
Synchronised(idx) == WSub(acquired, idx) \in 1 .. Size

\* Mutant: base is advanced without wrapping.
ReadNoWrap ==
  /\ CanRead
  /\ observed' \in IF Synchronised(reader.base) THEN {desc[Slot(reader.base)]} ELSE Value
  /\ reader' = [reader EXCEPT !.base = @ + 1, !.remain = @ - 1]
  /\ unordered' = unordered \union {Slot(reader.base)}
  /\ UNCHANGED <<shared, handle, cached, peek, kernelTail, acquired, checked>>

\* read: BufIdxIter::next, then the load of the descriptor.
Read ==
  /\ CanRead
  /\ observed' \in IF Synchronised(reader.base) THEN {desc[Slot(reader.base)]} ELSE Value
  /\ reader' = Advance(reader)
  /\ unordered' = unordered \union {Slot(reader.base)}
  /\ UNCHANGED <<shared, handle, cached, peek, kernelTail, acquired, checked>>

Taken == reader.buffers - reader.remain

\* Mutant: the consumer head is stored Relaxed.
PublishRelaxed(count) ==
  /\ consumer' = WAdd(consumer, count)
  /\ UNCHANGED unordered

\* RingCons::release: the consumer head is advanced with a Release store.
Publish(count) ==
  /\ consumer' = WAdd(consumer, count)
  /\ unordered' = {}

\* Mutant: everything peeked is released, read or not.
ReleaseAll ==
  /\ reader.open /\ reader.buffers > 0
  /\ ~AddTraps(reader.base, Taken)
  /\ Publish(reader.buffers)
  /\ reader' = [reader EXCEPT !.buffers = 0, !.remain = 0, !.base = WAdd(@, Taken),
                              !.fresh = @ /\ Taken = 0]
  /\ UNCHANGED <<producer, desc, handle, cached, peek, observed, kernelTail,
                 acquired, checked>>

\* Mutant: `buffers -= count` is missing, so that drop cancels what was released.
ReleaseKeepsBuffers ==
  /\ reader.open /\ reader.buffers > 0
  /\ ~AddTraps(reader.base, Taken)
  /\ Publish(Taken)
  /\ reader' = [reader EXCEPT !.base = WAdd(@, Taken), !.fresh = @ /\ Taken = 0]
  /\ UNCHANGED <<producer, desc, handle, cached, peek, observed, kernelTail,
                 acquired, checked>>

\* release_cons: returns what was read. next() has already moved base past the
\* entries that were read, and release_cons moves it again.
Release ==
  /\ reader.open /\ reader.buffers > 0
  /\ ~AddTraps(reader.base, Taken)
  /\ Publish(Taken)
  /\ reader' = [reader EXCEPT !.buffers = reader.remain, !.base = WAdd(@, Taken),
                              !.fresh = @ /\ Taken = 0]
  /\ UNCHANGED <<producer, desc, handle, cached, peek, observed, kernelTail,
                 acquired, checked>>

\* `base.0 += count` overflows after the head was published; unwinding drops
\* the reader.
ReleaseTraps ==
  /\ reader.open /\ reader.buffers > 0
  /\ AddTraps(reader.base, Taken)
  /\ Publish(Taken)
  /\ Cancel(reader.remain)
  /\ reader' = NoReader
  /\ handle' = "panicked"
  /\ UNCHANGED <<producer, desc, cachedProducer, peek, observed, kernelTail,
                 acquired, checked>>

\* Mutant: only the entries that were not read are cancelled.
DropReaderUnread ==
  /\ reader.open
  /\ Cancel(reader.remain)
  /\ reader' = NoReader
  /\ UNCHANGED <<shared, handle, cachedProducer, peek, observed, kernelTail,
                 acquired, unordered, checked>>

\* Drop of the reader: what was not released will be peeked again.
DropReader ==
  /\ reader.open
  /\ Cancel(reader.buffers)
  /\ reader' = NoReader
  /\ UNCHANGED <<shared, handle, cachedProducer, peek, observed, kernelTail,
                 acquired, unordered, checked>>

-----------------------------------------------------------------------------
(* The kernel's side *)

\* The kernel fills the next slot user space has given back.
KernelWrite(v) ==
  /\ WSub(kernelTail, consumer) < Size
  /\ desc' = [desc EXCEPT ![Slot(kernelTail)] = v]
  /\ kernelTail' = WAdd(kernelTail, 1)
  /\ UNCHANGED <<producer, consumer, handle, cached, peek, reader, observed,
                 acquired, unordered, checked>>

\* The kernel publishes everything it has written.
KernelPublish ==
  /\ producer # kernelTail
  /\ producer' = kernelTail
  /\ UNCHANGED <<consumer, desc, handle, cached, peek, reader, observed, kernelTail>>
  /\ UNCHANGED <<acquired, unordered, checked>>

-----------------------------------------------------------------------------
User ==
  \/ Map
  \/ Unmap
  \/ \E n \in Batch : PeekCached(n) \/ PeekLoad(n)
  \/ PeekAcquire
  \/ Read
  \/ Release
  \/ ReleaseTraps
  \/ DropReader

Kernel == KernelPublish \/ \E v \in Value : KernelWrite(v)

Next == User \/ Kernel

Spec == Init /\ [][Next]_vars

\* A polling client: it maps the ring, keeps asking for entries, finishes a peek
\* it started, and of the readers it opens it does not drop every one before
\* reading and releasing (SF: these steps are possible only now and then). The
\* kernel owes nothing.
Fairness ==
  /\ WF_vars(Map)
  /\ SF_vars(\E n \in Batch \ {0} : PeekCached(n) \/ PeekLoad(n))
  /\ WF_vars(PeekAcquire)
  /\ SF_vars(Read)
  /\ SF_vars(Release /\ Taken > 0)
  /\ WF_vars(DropReader)

FairSpec == Spec /\ Fairness

-----------------------------------------------------------------------------
(* Properties *)

\* Every variable keeps its type; heads and BufIdx values stay u32.
TypeOK ==
  /\ {producer, consumer, cachedProducer, cachedConsumer, kernelTail, acquired} \subseteq Index
  /\ desc \in [Slots -> Value]
  /\ handle \in {"unmapped", "mapped", "panicked"}
  /\ peek \in [active : BOOLEAN, nb : Batch, available : Index]
  /\ reader \in [open : BOOLEAN, base : Index, buffers : Index, remain : Index, fresh : BOOLEAN]
  /\ observed \in Value \union {None}
  /\ unordered \subseteq Slots
  /\ checked \in OverflowChecks

\* The heads keep their circular order within one ring length: released, peeked,
\* known to be available, published, and written entries never overtake each
\* other. This is what the two loads of count_available, peek, release and cancel
\* have to preserve whatever the kernel does in between.
HeadOrder ==
  WSub(cachedConsumer, consumer) + WSub(cachedProducer, cachedConsumer)
    + WSub(producer, cachedProducer) + WSub(kernelTail, producer) <= Size

\* "An acquire barrier, such as performed by RingRx::receive, is always needed
\* before reading any of the written descriptors": everything an open reader is
\* going to read is covered by an Acquire load of the producer head.
ReadsAcquired ==
  CanRead => \A k \in 0 .. reader.remain - 1 : Synchronised(WAdd(reader.base, k))

\* A slot an open reader is going to read is not one the kernel may write.
PeekedNotOverwritten ==
  CanRead =>
    Window(reader.base, reader.remain)
      \intersect Window(kernelTail, Size - WSub(kernelTail, consumer)) = {}

\* The kernel gets a slot back only when all reads of its descriptor are ordered
\* before the Release store of the consumer head that returned it.
ReleasedOrdered ==
  Window(kernelTail, Size - WSub(kernelTail, consumer)) \intersect unordered = {}

Contents(idx, n) == [k \in 1 .. n |-> desc[Slot(WAdd(idx, k - 1))]]

\* The ring is a bounded FIFO: readers get what the kernel published, in order;
\* what is released is exactly what was read, the rest is read again.
Channel == INSTANCE RingChannel WITH
  Capacity <- Size,
  staged   <- Contents(producer, WSub(kernelTail, producer)),
  queue    <- Contents(consumer, WSub(producer, consumer)),
  taken    <- Taken

ImplementsChannel == Channel!Spec

\* Heads "operate on the 32-bit number range, silently mapping to the same range
\* of indices" (BufIdx): wrapping is not an error.
NeverPanics == handle # "panicked"

\* What the kernel published is released in the end: while the ring is mapped it
\* is empty again and again, or its consumer head moves again and again, whatever
\* the cached heads of previous readers say.
Drained ==
  ~checked =>
    \/ []<>(producer = consumer \/ handle = "unmapped")
    \/ []<><<consumer' # consumer>>_vars
=============================================================================
