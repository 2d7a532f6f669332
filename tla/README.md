# TLA+ models of xdpilone

xdpilone is the user-space side of AF_XDP sockets: it registers packet memory
(a *Umem*) with the kernel, maps the four rings of a socket, and moves frame
descriptors through them. The rings are shared memory; the kernel works on them
at any time, and the library's correctness rests on wrapping 32-bit heads, cached
copies of the other side's head, and acquire/release orders. These models check
that part, and what is built on it.

Paths are relative to the repository, e.g. `src/src/xsk/ring.rs`.

## Inventory

| Part | State | Operations | Talks to |
|---|---|---|---|
| Index arithmetic (`BufIdx`, `mask`; `xsk.rs`, `ring.rs`) | none | `wrapping_add`, `wrapping_sub`, masking | used by the rings |
| Producer ring `RingProd` (fill, TX; `ring.rs`) with `WriteFill`, `WriteTx` (`user.rs`) | shared heads and descriptors, cached heads, one open writer | `fill`/`transmit`, `insert`, `insert_once`, `commit`, drop, map, unmap, `count_pending`, `check_flags` | the kernel, through the mmap |
| Consumer ring `RingCons` (RX, completion) with `ReadRx`, `ReadComplete` | the same, one open reader | `receive`/`complete`, `read`, `release`, drop, map, unmap, `count_pending` | the kernel, through the mmap |
| `DeviceQueue` (`user.rs`, `umem.rs`) | fill and completion ring, a `Socket`, a reference to the registry | `fill`, `complete`, `needs_wakeup`, `wake`, `bind`, drop | rings, registry, kernel |
| `RingTx`, `RingRx` | one ring, an `Arc<SocketFd>` | `transmit`, `receive`, `needs_wakeup`, `wake` | rings, kernel |
| `Umem` (`umem.rs`) | memory area, configuration, socket, registry of interface queues (`DeviceControl`) | `new`, `fq_cq`, `rx_tx`, `bind`, `frame`, `len_frames` | kernel (`setsockopt`, `bind`), registry |
| `Socket`, `IfInfo` (`socket.rs`, `iface.rs`) | file descriptor, interface queue | `new`, `with_shared`, `from_name`, `from_ifindex`, `set_queue` | kernel |
| `User` (`umem.rs`) | socket, configuration, mmap offsets | `map_rx`, `map_tx`, `statistics` | kernel, rings |
| `SocketMmapOffsets`, statistics (`iface.rs`) | values copied from the kernel | `new`, `set_from_fd` | kernel |
| `Errno` (`lib.rs`), ABI bindings (`xdp.rs`), `mmap.rs` (empty) | none | | |
| Examples `flood`, `flood-mt` | counters of sent and completed frames | polling loops, several threads in `flood-mt` | everything above |

What is hard:

* **Two sides, no locks.** The kernel runs between any two instructions. A cached
  head may be arbitrarily old; `count_available` loads the producer head twice and
  the kernel may move it in between; a slot written or read outside of the
  Release/Acquire order is a data race.
* **Wrapping heads.** Every comparison is a wrapping difference. `count_free` keeps
  `cached_consumer` a whole ring length ahead.
* **Partial use of a reservation.** A writer may be filled in part, committed in
  part, committed twice, or dropped before it was committed. The cached head has
  to come back to exactly the committed position.
* **Several owners.** One socket may be shared by a `Umem`, by `Socket`s of several
  interface queues and by a `DeviceQueue`; `fq_cq` has five steps that may fail, and
  a `DeviceQueue` may be dropped by another thread meanwhile.
* **Set-up by parts.** `rx_tx` and `fq_cq` size two rings each, once; one of the two
  may fail. An `IfInfo` is reused from socket to socket. Whether `bind` succeeds depends on
  who owns the fill and completion rings, over several sockets. The registry that guards
  `fq_cq` is told when a `DeviceQueue` is created and dropped, but not what `bind` does.
* **Counters without a lock.** The threads of `flood-mt` reserve, use and give back a
  shared budget, and end on what they read of each other's counters.
* **Progress.** The kernel stops polling a ring and sets a flag that the client reads
  without synchronisation; `wake` ignores its errors; the TX ring stands still when
  the completion ring is full.

What makes each part correct:

* rings: a bounded FIFO; no slot touched that belongs to the other side; all
  accesses ordered; progress for a client that keeps asking;
* set-up: a socket is bound to the interface queue it was asked for, its rings are mapped
  with the size the kernel gave them; the registry lists the interface queues in use, so
  that `bind` finds free what `fq_cq` has admitted;
* memory: a descriptor names bytes of the area only, two chunks share none;
* `flood-mt`: the threads send and complete exactly the packets asked for, and end;
* registry: it lists exactly the controlled interface queues, one controller each;
  each ring of a socket mapped by one owner;
* frames: each is in one place at a time and never lost; what is sent completes.

`PROJECT.json` lists the hazards at the lines where they bite, and which property
watches each.

## Modules

| Module | What it is |
|---|---|
| `XskIndex` | head arithmetic, slots and windows; `Size` and `Modulus` are constants, with the assumption that a power-of-two ring gives (`Size` divides `Modulus` at least twice) |
| `RingChannel` | abstract specification of one ring: entries are staged, published at once or discarded, taken in order, released or handed out again |
| `RingProd` | producer ring, the writers that drive it, the kernel as its reader |
| `RingCons` | consumer ring, the readers that drive it, the kernel as its writer |
| `DeviceRegistry` | `Umem::fq_cq`, the registry, shared sockets, drop of a `DeviceQueue` |
| `Sockets` | `IfInfo`, `Socket`s and the calls that make them usable: `fq_cq`, `rx_tx`, `bind`; what the drop of a `DeviceQueue` leaves behind |
| `FrameCycle` | frames through fill, RX, TX and completion ring; wake-ups |
| `UmemFrames` | `Umem::frame`, `len_frames`, descriptors of a chunk, as operators |
| `UmemCycle` | composes `FrameCycle` and `UmemFrames`: frames are chunks of the area |
| `FloodCounters` | the threads of `examples/flood-mt.rs` |
| `MC*` | instances for TLC |
| `XskIndexProofs`, `RingProdProofs`, `RingConsProofs`, `DeviceRegistryProofs`, `UmemFramesProofs`, `FrameCycleProofs`, `SocketsProofs`, `FloodCountersProofs` | theorems; `FrameCycleProofs` is also about `UmemCycle` |

`RingProd` and `RingCons` are both shown to implement `RingChannel`; `FrameCycle`
composes four rings at the level of that FIFO and adds who owns the frames.
`DeviceRegistry` takes `fq_cq` and the drop of a `DeviceQueue` apart, step by step and on
two threads; `Sockets` sees the same call from outside, as one action with its outcomes,
and what is done with its result.

### RingProd and RingCons

`producer`, `consumer`, `desc` are the shared memory, `cachedProducer` and
`cachedConsumer` the `XskRing` fields; `writer` (`reader`) is the open proxy object with
its `BufIdxIter`. `handle` says whether the ring is mapped. One action per call:

| Action | Code |
|---|---|
| `Map`, `Unmap` | `XskRing::new`/`map`, `Drop for RingProd` |
| `Transmit`, `TransmitTraps` | `RingTx::transmit`, `DeviceQueue::fill` → `BufIdxIter::reserve` → `reserve` → `count_free` |
| `Insert` | one iteration of `WriteTx::insert`, `WriteFill::insert` |
| `Commit`, `CommitTraps` | `commit` → `commit_prod` → `submit` |
| `DropWriter` | `Drop for WriteTx`, `WriteFill` → `cancel` |
| `PeekCached`, `PeekLoad`, `PeekAcquire` | `RingRx::receive`, `DeviceQueue::complete` → `peek` → `count_available`, whose two loads are two actions |
| `Read`, `Release`, `ReleaseTraps`, `DropReader` | `read`, `release` → `release_cons`, drop → `cancel` |
| `KernelRead`, `KernelRelease`, `KernelWrite`, `KernelPublish` | the kernel's side (external) |

`insert` and `read` are split by descriptor because the kernel runs in between. Fill
and TX rings differ only in their descriptor type, as do RX and completion rings: one
module stands for both.

*Memory order* is ghost state. `dirty` holds the slots written since the last Release
store of the producer head; the kernel reading one may see any value. `acquired` is
the consumer head that the last Acquire load saw (`RingCons`: producer head);
`unordered` holds slots read since the last Release store of the consumer head.

*Overflow.* The code mixes wrapping and plain sums. `checked` is the build: in a
build with overflow checks a plain sum that overflows ends the ring's life
(`handle = "panicked"`, with the writer dropped by unwinding); in any other build it
wraps.

*Client discipline* is a constant. `ReuseWriter` (`ReuseReader`) lets the client insert
(read) again after a commit (release) on the same object, `MapInFlight` lets it map a
ring that is not drained. The positive results need both to be FALSE; `prod_reuse` and
the runs `*_remap` show why. No run has `ReuseReader`: `release_cons` has the fault of
`commit_prod`, and a reader used again goes on behind what it peeked. Two theorems are
about such clients as well (`HeadOrderHolds`, `TypeCorrect`).

### DeviceRegistry

`call` is the `fq_cq` in progress, with the step it is at; `Umem` is not `Sync`, so
there is one. `queues` are the `DeviceQueue`s, `devices` the set behind
`DeviceControl`, `configured` the rings that the kernel has sized for each socket
(it does so once: `setsockopt` fails afterwards). `Open` is the reference count of
`Arc<SocketFd>`. `Register` is the insert at the top of `fq_cq`, `Configure` each of
the two calls of `configure_cq`, then `QueryOffsets`, `MapFill`, `MapComp`; an error
leads to `UnwindRing` and `UnwindGuard` (drop of the mapped fill ring and of
`DropableDevice`). Of the query of the offsets only that it may fail is modelled. `Deregister`, `UnmapRing`, `DropFd` are the drop of a
`DeviceQueue`: the registry entry goes first, the memory maps later.

### FrameCycle

`queue`, `staged`, `taken` are the rings as FIFOs, `pool` the frames the client may use,
`nic` those the kernel holds, `power` the state of the kernel's polling of a producer
ring. `Borrowed` is the borrow checker: `fill` and `complete` borrow one
`DeviceQueue`. A client inserts only frames of its pool, gives them up when it
commits, and regards frames as its own when it releases what it read. `Draining`
says that it hands `insert` an iterator that gives frames away (`Vec::drain`) instead
of one that copies.

`KernelDoze` and `KernelSleep` separate the kernel's last look at a ring from the
moment it sets `XDP_RING_NEED_WAKEUP`; a commit, and a check of the flag, may fall
between.

### UmemFrames and UmemCycle

`frame(idx)` is the code's test, with `Option` as a sequence of at most one element
(`None` is less than any `Some`, which the code relies on where the area is smaller
than a chunk). The product of two `u32` fits the `u64` it is computed in, so it is not
reduced. `U32Max` is a constant: the instance for TLC saturates at 4. A frame of
`UmemCycle` is an index that `frame` accepts, so that `MemoryExclusive` speaks of bytes:
whoever holds a frame in `FrameCycle` may touch the bytes of its chunk.

### Sockets

`info` is the `IfInfo` a client fills in and reuses; `asked` is ghost state, the
interface and queue its calls name. (`from_ifindex` keeps the queue of `asked`, as no doc
says what becomes of it; so only the interface is compared in `sockets_by_index`.)
`sockets` has the `ctx` that a `Socket` copies from it. `devices` is the registry, `queues`
the sockets with a `DeviceQueue`. `device` and `packet` are the rings the kernel has
sized, `users` the `User`s that `rx_tx` returned, `bound` the kernel's side of `bind`.

| Action | Code |
|---|---|
| `FromName`, `FromIfindex`, `SetQueue` | `IfInfo`; `FromIfindex` leaves `ctx` alone, as the code does |
| `NewSocket` | `Socket::new`, or `with_shared` for the socket of the `Umem`, once per file descriptor |
| `FqCq` | `Umem::fq_cq`: failed after the completion ring, failed later, or successful; a call that is refused by the registry, or fails at once, changes nothing |
| `DropQueue` | `Drop for DeviceQueue`: the registry forgets the interface queue; `User`s and rings keep the descriptor open, so the kernel forgets neither rings nor binding |
| `RxTx` | `Umem::rx_tx`: `configure_rt` for RX, then for TX, with the early return of each, then the query of the offsets |
| `Bind` | `Umem::bind`, `DeviceQueue::bind` → `bind_at`, with the flags of the configuration and `XDP_BIND_SHARED_UMEM` (`Flags`); a call that the kernel refuses changes nothing |

`Sized` and `Binds` are the kernel. `setsockopt` sizes a ring once, never for a bound
socket, and may fail. `bind` wants an interface, a packet ring, and one pair of fill and
completion ring for the interface queue: the socket's own, if no other socket is bound
there, or that of the owner. With `XDP_BIND_SHARED_UMEM` the owner has to be bound, the
socket must not be the one with the memory, and no other flag may be set: only the
`Umem`'s socket can ask for `XDP_BIND_NEED_WAKEUP`. Whether a driver supports a mode that
the flags force is not modelled; `TreeBinds` says that these conditions hold.

A client may bind a socket whose `fq_cq` has failed with both rings already sized, since
`bind_at` does not look at the registry, and it may drop the `DeviceQueue` of an interface
queue to which sockets are bound. Either way the queue is in use while the registry
regards it as free (`Strays`), and the next `fq_cq` for it admits a socket that `bind` will
refuse. `TakenTracked` and `TreeBinds` say that this happens in no other way, and to no
other queue; without the exception TLC finds both cases at once.

`InTree` has the calls of the documented tree but one: "fd7: socket +rx/tx on ifq1" below
"fd6: socket +fq/cq for ifq2" (`umem.rs:264`) is refused by the kernel, also when fd3
serves ifq1. The comment in `bind_at` says why: "using a separate socket with shared umem
requires one dedicated configured cq for the interface indicated" (`umem.rs:279`).

`Trusting` lets the client create a socket without a look at `ifindex()` after
`from_ifindex`.

### FloodCounters

`sender` and `completer` are the two closures of the example, split between any two
accesses to `sent_reserved`, `sent`, `completed`, `stall_count` or a ring that another
thread could tell apart. The loop of a sender: `CheckEnd`, `Reserve` (`fetch_update`),
`Transmit` (`transmit`, `insert`, `commit`), `GiveBack` (`wake`, `fetch_sub`), `CountSent`;
of a completer: `LoadCurrent`, `LoadBatch`, `Reap`, `CountCompleted`. All packets name
one frame, so that rings are counts. A ring may grant less than is there (its cached
heads are behind), but something if something is there. `stalls` is the distance of
`stall_count` to a sender's `stall_threshold`, capped at `MaxStalls`, since both grow for
ever (a wrap of the counter is left out).

## Runs

| Run | Bounds | What it shows |
|---|---|---|
| `prod_fifo` | `Size` 4, `Modulus` 8, batches to 5, two values, both builds | type, head order, reserved slots are owned and acquired, published slots ordered, `RingProd` implements `RingChannel`; a client that keeps asking gets slots again and again |
| `cons_fifo` | same | the same for `RingCons`, with the kernel between the two loads of `count_available`; every published entry is released in the end |
| `prod_reuse` | `Size` 4, `Modulus` 8 | **finding**: `commit_prod` advances `base` although `next` already has; a writer used after a commit overwrites a published slot |
| `prod_remap` | same | **finding**: a producer ring mapped with unconsumed entries grants slots the kernel still reads |
| `cons_remap` | same | **finding**: a consumer ring mapped with published entries reads descriptors no Acquire load covers |
| `prod_overflow` | same | **finding**: a build with overflow checks panics when a head wraps |
| `registry` | two interface queues, three sockets, two `DeviceQueue`s | the registry is exact through every failure, one controller per queue, rings mapped once, the completion ring sized first |
| `frames_kept` | an area of 8 bytes with chunks of 3 (two frames), fill and TX of 2 entries, RX and completion of 1 | frames are conserved, client and kernel share no byte, everything sent completes |
| `frames_drained` | three frames | **finding**: `insert` polls its iterator once more than there are slots and loses the item |
| `flood` | two senders, two completers on a ring each, 2 packets, batches of 2, rings of 1 entry, wake after 2 stalls | the budget is shared out exactly, each packet is completed and counted once, all four threads end |
| `sockets` | the `Umem`'s socket and two more, one interface with two queues, a config with TX only and one with both rings, another TX size and a flag | rings are mapped with their size, sockets bound where asked, the registry lists every queue in use, the kernel's conditions hold for the documented calls of `bind`; failed calls and dropped `DeviceQueue`s are strays at most |
| `sockets_by_index` | one socket, two interfaces with two queues | **finding**: `from_ifindex` leaves `ctx` alone, the socket is bound to another interface |

*Why the bounds are enough.* The heads are used only through differences and through
their slot. With `Modulus = 2 * Size` every head wraps after two rounds, at all
positions relative to the others, so all combinations of wrapped and unwrapped heads
occur; 4 slots let a batch be partly inserted, partly committed, partly cancelled
while the kernel has read part of an earlier one; batches to 5 ask for more than the
ring. (The program's ratio is 2^32 / `Size`; the theorems cover it.) Two descriptor
values distinguish any two entries that a wrong order could exchange. In the
registry two interface queues and a shared socket are what a confusion between
queues needs, and a second own socket allows for descriptors used again after a
close. In `FrameCycle` the consumer rings are full with a single entry, so that both
kernel paths have to wait for the client.

In `flood` a batch is the whole budget and twice what a ring holds, so that a reservation
is given back in part, one sender waits for the budget of the other, and the kernel
waits for completions. In `sockets` a tree of `bind` with both branches needs the `Umem`'s
socket, one with rings of its own and one that shares them; the two own sockets are
interchangeable (symmetry). One interface is enough there, since a second interface is
told apart like a second queue; in `sockets_by_index` two are needed.

A second call of `rx_tx` may ask for another size of a TX ring that exists.

`frames_kept` has the last, partial chunk of an area. That an area smaller than one chunk has
no frame is a case only the theorems cover.

`prod_fifo`, `cons_fifo` and `flood` are checked without deadlock detection: after a panic
a drained ring really stops, and the threads of `flood-mt` end.

*Fairness.* The rings' owner polls: the loops of `src/examples/flood.rs` and
`flood-mt.rs` call `transmit`, `needs_wakeup` and `complete` in every iteration, read
until nothing is left, release, and drop the proxies at the end of a block. So
handles are dropped (weak fairness), and requests, reads, releases that are possible
again and again happen (strong fairness, because another proxy may hold the ring in
between). A `wake` succeeds if tried often enough. For producer rings the kernel is
assumed to drain what it can see; for consumer rings it owes nothing. Nothing is
assumed of a kernel that sleeps, nor that packets arrive. In `flood` every thread runs, a
kernel that is awake sends, and a `wake` that is tried again and again succeeds; the
kernel may stop after any packet, because the example binds without
`XDP_BIND_NEED_WAKEUP`, and starts asleep. Liveness of a ring that is mapped in flight
is not checked.

## Theorems

Those of the rings are proved for every `Size` and `Modulus` with
`Modulus = k * Size`, `k >= 2`, every set of values and every client allowed by the
constants; those of the registry for every non-empty `Ctx`, every `Handle`, and every
`Fd` with `UmemFd \in Fd`; those of `UmemFrames` for every area, every positive
`frame_size` and every width of an index; those of `FrameCycle` for every finite set of
frames and every depth of each ring; those of `Sockets` for all sets of interfaces,
queues, sockets and configurations; those of `FloodCounters` for every finite number of
threads, every assignment of senders to completion rings, and every budget, batch and
size of the rings.

| Theorem | Statement | Assumes |
|---|---|---|
| `RingProdProofs!TypeCorrect` | `Spec => []TypeOK` | |
| `RingProdProofs!HeadOrderHolds` | `Spec => []HeadOrder` | `MapInFlight = FALSE` |
| `RingProdProofs!ReservationOwnedHolds` | `Spec => []ReservationOwned` | `MapInFlight = ReuseWriter = FALSE` |
| `RingProdProofs!ReservationAcquiredHolds` | `Spec => []ReservationAcquired` | same |
| `RingProdProofs!PublishedOrderedHolds` | `Spec => []PublishedOrdered` | same |
| `RingProdProofs!ImplementsChannelHolds` | `Spec => ImplementsChannel` | same |
| `RingConsProofs!TypeCorrect` | `Spec => []TypeOK` | |
| `RingConsProofs!HeadOrderHolds` | `Spec => []HeadOrder` | none: also for rings mapped in flight and readers used again |
| `RingConsProofs!PeekedNotOverwrittenHolds` | `Spec => []PeekedNotOverwritten` | `ReuseReader = FALSE` |
| `RingConsProofs!ReleasedOrderedHolds` | `Spec => []ReleasedOrdered` | same |
| `RingConsProofs!ReadsAcquiredHolds` | `Spec => []ReadsAcquired` | `MapInFlight = ReuseReader = FALSE` |
| `RingConsProofs!ImplementsChannelHolds` | `Spec => ImplementsChannel` | same |
| `DeviceRegistryProofs!TypeCorrect` | `Spec => []TypeOK` | |
| `DeviceRegistryProofs!RegistryExactHolds` | `Spec => []RegistryExact` | |
| `DeviceRegistryProofs!OneControllerHolds` | `Spec => []OneController` | |
| `DeviceRegistryProofs!RingsExclusiveHolds` | `Spec => []RingsExclusive` | |
| `UmemFramesProofs!DescriptorInBounds` | descriptors of a chunk stay in the chunk, and the chunk in the area | `len <= frame_size`, as the code's debug assertion |
| `UmemFramesProofs!ChunksDisjoint` | chunks of different indices share no byte | |
| `UmemFramesProofs!LenFramesCounts` | `HasFrame(idx) <=> idx < len_frames` | `idx < U32Max` |
| `FrameCycleProofs!TypeCorrect` | `Spec => []TypeOK` | none: also for a client that drains |
| `FrameCycleProofs!FramesConservedHolds` | `Spec => []FramesConserved` | `Draining = FALSE` |
| `FrameCycleProofs!MemoryExclusiveHolds` | `Spec => []MemoryExclusive` | same, and `UmemCycleAssumption`: frames are the chunks of the area |
| `SocketsProofs!TypeCorrect` | `Spec => []TypeOK` | |
| `SocketsProofs!RingsFitHolds` | `Spec => []RingsFit` | |
| `SocketsProofs!BoundAsAskedHolds` | `Spec => []BoundAsAsked` | `Trusting = FALSE` |
| `SocketsProofs!TakenTrackedHolds` | `Spec => []TakenTracked` | |
| `SocketsProofs!TreeBindsHolds` | `Spec => []TreeBinds` | `Trusting = FALSE` |
| `FloodCountersProofs!TypeCorrect` | `Spec => []TypeOK` | |
| `FloodCountersProofs!BudgetExactHolds` | `Spec => []BudgetExact` | |
| `FloodCountersProofs!PacketsExactHolds` | `Spec => []PacketsExact` | |

The arguments.

`XskIndexProofs` has the facts about the circle of heads: differences of consecutive
heads add up as long as they stay below `Modulus`, advancing a head moves a
distance from one side of it to the other, and windows of the ring that lie in one
stretch of `Size` indices use disjoint slots.

`TypeCorrect` needs that a writer's `remain <= buffers`, and nothing about the heads.

`HeadOrder` bounds a sum of four (five) distances by `Size`. It is not inductive by
itself: a commit moves the producer head by what was written, and a drop moves the
cached head back by what is left of the reservation. The invariant `OrderInv` adds
`cachedProducer - producer = writer.buffers` (zero while no writer is open) and
`remain <= buffers`; then every action exchanges one summand for another. In
`RingCons` it adds that what the first load of `count_available` found is still there
at the second.

`ReservationOwned`, `ReservationAcquired` and `PublishedOrdered` need to know where the
writer's slots are. `SlotInv` adds to `OrderInv` that a fresh writer has
`base = producer + (buffers - remain)`: what it is going to fill is the end of the
reservation, and with `HeadOrder` these slots are disjoint from everything the kernel
may read. `next` keeps the equation, since it moves `base` and `remain` together; a
commit of written slots ends freshness, because `commit_prod` moves `base` a second
time, which is the finding of `prod_reuse`.

The read side mirrors this. `ReadInv` adds to the `OrderInv` of `RingCons` that a fresh
reader has `base = consumer + (buffers - remain)`, so that what it is going to read lies
between the consumer head and the slot the kernel writes next. `AcquireInv` adds that
`acquired = cachedProducer` whenever the cache shows entries that were not released;
`Map` breaks it when it finds entries in the ring, which is the finding of `cons_remap`
and the reason for the assumption `MapInFlight = FALSE`.

`ImplementsChannelHolds` shows for both rings that the initial states map to the initial
state of `RingChannel` and every step to a step of it or to none. The mapping reads an
entry of the channel out of the descriptors between two heads; `Segment` of
`XskIndexProofs` is such a stretch, with lemmas for what an append at its end, a move of
its first head, or a write elsewhere in the ring does to it. That a write is elsewhere is
`SlotInv` (`ReadInv`, `AcquireInv`): the refinement needs the same strengthening as
the ownership of slots, and fails without it, as `prod_reuse` shows.

`RegistryExact` and `OneController` are inductive only together (`RegistryInv`): taking
an entry out of the registry is right because nobody else holds the same interface
queue, and an insert finds no second holder because the registry is exact.

`RingsExclusive` does not follow from the registry, which is given back before the rings
are unmapped. `RingsInv` uses the kernel instead: whoever maps a ring had it sized
(`rings \subseteq configured`), the kernel sizes a ring once per socket, and so a call
that has got past `configure_cq` finds nobody with that ring mapped. `TypeCorrect` uses
`RingsInv` as well: that a socket with a fill ring has a completion ring (`CompFirst`)
rests on what a call between the two `setsockopt`s has already got.

The lemmas of `UmemFramesProofs` turn the comparison of `Option`s into
`offset + frame_size <= area_size`; disjointness is then `(i + 1) * frame_size <=
j * frame_size` for `i < j`. `LenFramesCounts` leaves out the last index: with an area of
2^32 chunks or more, `frame(u32::MAX)` is a chunk and `len_frames` saturates below it.

`TypeOK` of `FrameCycle` bounds each ring by its depth. It becomes inductive with what a
handle was granted: `used + pending + remain <= Depth` for a writer, `taken + remain <=
used` for a reader, and nothing staged or taken unless the handle is open
(`TypeInv`). The kernel takes its part of these sums from the other end.

`FramesConserved` counts a staged frame as the client's once. It is not inductive: a
frame staged twice, or in both rings, would be counted once until it is committed.
`FrameInv` adds `StagedOnce`, and `Tally` groups the places of a frame by path (fill to
RX, TX to completion), so that each action moves a frame within one path or between it
and the pool. How often a frame is in a sequence is a cardinality; the `Count` lemmas
say what appending, taking the head, concatenating and splitting do to it, which is
where the order of the rings stops to matter. A client that drains breaks it: `Insert`
then takes frames out of the pool that it does not stage (`frames_drained`).
`MemoryExclusive` follows from `FrameInv` and the lemmas on chunks.

In `FloodCounters` a sum over threads is the number of elements of a disjoint union, so
that the change of one thread's part changes the sum by as much (`SumChange`) and a sum
of smaller parts is smaller (`SumLess`). `FloodInv` joins the counters to a chain: what
was sent is no more than what was reserved, since each sender's `sent_now <= send_batch`,
and what was completed no more than what was sent. `TypeOK` needs the chain, because
`fetch_sub` must not take `sent_reserved` below zero and `completed` must not pass
`total`. It also says that no number of an earlier round is left at the top of a loop.

`RingsFit` is inductive with the types, because a size that is not zero never changes
(`SizedFacts`) and `rx_tx` returns a `User` only when both calls gave what it asked for.
The other theorems use three invariants. `SetUpInv`: whatever is bound is open and bound
where its `ctx` says (`Opened`); two `DeviceQueue`s never have the same `ctx`, and the
registry lists exactly theirs (`Queued`). `Served`: wherever any socket is bound, one with
both rings is. A bind through an owner keeps it because the owner is bound there already,
and no call takes rings away. `Named`, for a client that is not `Trusting`: a socket's
`ctx` is what was asked. If no stray is there, the socket of `Served` has a `DeviceQueue`
(`ServedByQueue`), and `TakenTracked` follows with `Queued`. `BoundAsAsked` follows from
`Opened` and `Named`. `TreeBinds` needs all of them and `RingsFit`: a bound socket in the way
of a `DeviceQueue` would be served by one with the same `ctx`, and so by that itself, which
is not bound.

Only model-checked: the liveness properties `SlotsAgain`, `Drained`, `TxCompletes` and
`Ends`. Liveness under fairness and `ENABLED` are beyond TLAPS, as are `RECURSIVE`
operators and induction over data; none of the modules that are proved about uses
recursion. All invariants that a passing run checks, and both refinements, are proved.

## Not modelled

* The kernel beyond its use of the rings, of `setsockopt`, `bind` and the wake-up flag.
* A ring mapped by two handles: the code acknowledges it (`umem.rs:409`, FIXME), and
  promises nothing for it.
* The names of interfaces, the namespace cookie (all sockets are in one namespace),
  `SocketMmapOffsets`, statistics: one system call each, whose results are passed on.
  That the offsets may fail is part of `fq_cq` and `rx_tx`.
* Several `Socket`s with different interface queues on the `Umem`'s descriptor
  (`with_shared` called twice) in `Sockets`; the sharing itself is in `DeviceRegistry`.
* The close of a descriptor in `Sockets` (the last `Socket`, `User`, ring or `DeviceQueue` is
  dropped), after which the kernel gives the binding back; `DeviceRegistry` has the close.
* `Umem::configure`: one `setsockopt` in `Umem::new`.
* `Errno`, ABI bindings, configuration structs: data without behaviour.
* Weak memory for the counters of `flood-mt`: they are read sequentially consistently. A
  stale value of a counter that only grows is one that was read earlier.
* The counters of `flood`, its packets and its printing.
* `core::mem::forget` of a writer or reader.
* `count_pending` and `available`: they read two heads and change nothing.
* Stale values of the wake-up flag: `needs_wakeup` reads it sequentially consistently in
  `FrameCycle`. A client that reads an old value is one that looked earlier.

## Plan

1. More of the system: the two readings of the wake-up flag in `FrameCycle`, with stale
   values; the single-threaded `flood` loop over `RingProd` and `RingCons`.
2. More proofs, of what holds of clients that the assumptions exclude: a writer used
   again keeps the heads of its ring in order (proved), but which slots it may still
   trust is not stated; nor is it that a client whose iterator drains loses frames but has
   none in two places.
