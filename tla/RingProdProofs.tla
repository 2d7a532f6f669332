--------------------------- MODULE RingProdProofs ---------------------------
(***************************************************************************)
(* Proofs about RingProd, for every Size, Modulus, Value and MaxBatch.      *)
(***************************************************************************)
EXTENDS RingProd, XskIndexProofs

-----------------------------------------------------------------------------
(* Types *)

\* A writer has no more slots left to write than it still holds.
WriterOK == writer.remain <= writer.buffers

TypeInv == TypeOK /\ WriterOK

\* NoWriter is a writer.
LEMMA NoWriterType ==
  NoWriter \in [open : BOOLEAN, base : Index, buffers : Index, remain : Index, fresh : BOOLEAN]
BY SizeFacts DEF NoWriter, Index

\* A batch is a number.
LEMMA BatchType == Batch \subseteq Nat
BY RingProdAssumption DEF Batch

\* What reserve returns are u32 values, and it reserves no more than was free.
LEMMA ReserveType ==
  ASSUME TypeOK, NEW n \in Batch
  PROVE  /\ CountFree(1).free \in Index
         /\ Reserve(n).count \in Index
         /\ Reserve(n).count <= CountFree(1).free
         /\ Reserve(n).idx \in Index
         /\ Reserve(n).consumer \in Index
         /\ Reserve(n).acquired \in Index
<1> USE DEF TypeOK
<1>1. /\ CountFree(1).free \in Index
      /\ CountFree(1).consumer \in Index
      /\ CountFree(1).acquired \in Index
  <2>1. /\ WAdd(consumer, Size) \in Index
        /\ WSub(WAdd(consumer, Size), cachedProducer) \in Index
        /\ CachedFree \in Index
    <3>1. Size \in Index
      BY SizeFacts DEF Index
    <3>2. WAdd(consumer, Size) \in Index
      BY <3>1, WrapType
    <3>3. QED
      BY <3>2, WrapType DEF CachedFree
  <2>2. QED
    BY <2>1 DEF CountFree
<1> DEFINE free == CountFree(1).free
<1>2. n \in Nat /\ free \in Nat
  BY <1>1, BatchType, SizeFacts DEF Index
<1>3. AtMost(free, n) \in Index /\ AtMost(free, n) <= free
  <2> HIDE DEF free
  <2>1. free \in Index
    BY <1>1 DEF free
  <2>2. QED
    BY <1>2, <2>1, SizeFacts DEF AtMost, Index
<1>4. 0 \in Index /\ 0 <= free
  BY <1>2, SizeFacts DEF Index
<1>5. cachedProducer \in Index
  OBVIOUS
<1>6. QED
  BY <1>1, <1>3, <1>4, <1>5 DEF Reserve

\* Init establishes the types.
LEMMA InitType == Init => TypeInv
<1> SUFFICES ASSUME Init PROVE TypeInv
  OBVIOUS
<1>1. 0 \in Index
  BY SizeFacts DEF Index
<1>2. desc \in [Slots -> Value]
  BY DEF Init
<1>3. writer.remain <= writer.buffers
  BY DEF Init, NoWriter
<1>4. QED
  BY <1>1, <1>2, <1>3, NoWriterType DEF Init, TypeInv, TypeOK, WriterOK

\* Every step preserves them.
LEMMA NextType == TypeInv /\ [Next]_vars => TypeInv'
<1> SUFFICES ASSUME TypeInv, [Next]_vars PROVE TypeInv'
  OBVIOUS
<1> USE DEF TypeInv, TypeOK, WriterOK
<1>0. 0 \in Index /\ 1 \in Index
  BY SizeFacts DEF Index
<1>1. ASSUME Map PROVE TypeInv'
  BY <1>1 DEF Map, shared, kernel
<1>2. ASSUME Unmap PROVE TypeInv'
  BY <1>2 DEF Unmap, shared, cached, kernel
<1>3. ASSUME NEW n \in Batch, Transmit(n) PROVE TypeInv'
  <2>1. WAdd(cachedProducer, Reserve(n).count) \in Index
    BY ReserveType, WrapType
  <2>2. Reserve(n).count <= Reserve(n).count
    BY ReserveType DEF Index
  <2>3. QED
    BY <1>3, <2>1, <2>2, ReserveType DEF Transmit, NewIter, shared, kernel
<1>4. ASSUME TransmitTraps PROVE TypeInv'
  BY <1>4 DEF TransmitTraps, shared, kernel
<1>5. ASSUME NEW v \in Value, Insert(v) PROVE TypeInv'
  <2>1. Slot(writer.base) \in Slots
    BY SlotType DEF Slot, Index
  <2>2. WAdd(writer.base, 1) \in Index
    BY <1>0, WrapType
  <2>3. /\ writer.remain - 1 \in Index
        /\ writer.remain - 1 <= writer.buffers
    BY <1>5, SizeFacts DEF Insert, CanInsert, Index
  <2>4. QED
    BY <1>5, <2>1, <2>2, <2>3 DEF Insert, Advance, cached, kernel
<1>6. Written \in Index /\ Written <= writer.buffers
  BY SizeFacts DEF Written, Index
<1>7. ASSUME Commit PROVE TypeInv'
  <2>1. WAdd(producer, Written) \in Index /\ WAdd(writer.base, Written) \in Index
    BY <1>6, WrapType
  <2>2. writer.remain <= writer.remain
    BY DEF Index
  <2>3. (writer.fresh /\ Written = 0) \in BOOLEAN
    OBVIOUS
  <2>4. QED
    BY <1>7, <2>1, <2>2, <2>3 DEF Commit, Submit, cached, kernel
<1>8. ASSUME CommitTraps PROVE TypeInv'
  <2>1. WAdd(producer, Written) \in Index /\ WSub(cachedProducer, writer.remain) \in Index
    BY <1>6, WrapType
  <2>2. NoWriter.remain <= NoWriter.buffers
    BY DEF NoWriter
  <2>3. QED
    BY <1>8, <2>1, <2>2, NoWriterType DEF CommitTraps, Submit, Cancel, kernel
<1>9. ASSUME DropWriter PROVE TypeInv'
  <2>1. WSub(cachedProducer, writer.buffers) \in Index
    BY WrapType
  <2>2. NoWriter.remain <= NoWriter.buffers
    BY DEF NoWriter
  <2>3. QED
    BY <1>9, <2>1, <2>2, NoWriterType DEF DropWriter, Cancel, shared, kernel
<1>10. ASSUME KernelRead PROVE TypeInv'
  <2>1. WAdd(kernelHead, 1) \in Index
    BY <1>0, WrapType
  <2>2. desc[Slot(kernelHead)] \in Value
    BY SlotType DEF Slot, Index
  <2>3. QED
    BY <1>10, <2>1, <2>2 DEF KernelRead, shared, cached
<1>11. ASSUME KernelRelease PROVE TypeInv'
  BY <1>11 DEF KernelRelease, cached, kernel
<1>12. ASSUME UNCHANGED vars PROVE TypeInv'
  BY <1>12 DEF vars, shared, cached, kernel
<1>13. QED
  BY <1>1, <1>2, <1>3, <1>4, <1>5, <1>7, <1>8, <1>9, <1>10, <1>11, <1>12
     DEF Next, User, Kernel

\* Heads and BufIdx values stay u32 and a writer never has more slots left than
\* it holds, in every build and for every client.
THEOREM TypeCorrect == Spec => []TypeOK
<1>1. TypeInv => TypeOK
  BY DEF TypeInv
<1>2. QED
  BY <1>1, InitType, NextType, PTL DEF Spec

-----------------------------------------------------------------------------
(* The order of the heads *)

\* The distances between neighbouring heads, from the consumer head that was
\* acquired last to the end of what count_free would grant from its cache.
dAcquired == WSub(consumer, acquired)
dRead     == WSub(kernelHead, consumer)
dUnread   == WSub(producer, kernelHead)
dReserved == WSub(cachedProducer, producer)

\* HeadOrder is not inductive: whether commit and cancel move a head past its
\* neighbour depends on the writer holding exactly what is reserved.
OrderInv ==
  /\ TypeInv
  /\ HeadOrder
  /\ dReserved = writer.buffers
  /\ writer.open => handle = "mapped"
  /\ ~writer.open => writer.buffers = 0 /\ writer.remain = 0

\* The distances are numbers.
LEMMA DistanceType ==
  ASSUME TypeOK
  PROVE  /\ dAcquired \in Index /\ dRead \in Index /\ dUnread \in Index
         /\ dReserved \in Index /\ CachedFree \in Index
         /\ dAcquired \in Nat /\ dRead \in Nat /\ dUnread \in Nat
         /\ dReserved \in Nat /\ CachedFree \in Nat
         /\ InUse = dAcquired + dRead + dUnread + dReserved
<1>1. /\ dAcquired \in Index /\ dRead \in Index /\ dUnread \in Index
      /\ dReserved \in Index /\ CachedFree \in Index
  BY WrapType DEF TypeOK, dAcquired, dRead, dUnread, dReserved, CachedFree
<1>2. QED
  BY <1>1, SizeFacts DEF InUse, Index, dAcquired, dRead, dUnread, dReserved

\* All heads start at zero.
LEMMA InitOrder == Init => OrderInv
<1> SUFFICES ASSUME Init PROVE OrderInv
  OBVIOUS
<1>1. TypeInv
  BY InitType
<1>2. WSub(0, 0) = 0
  BY SizeFacts DEF WSub
<1>3. InUse = 0 /\ CachedFree = 0 /\ dReserved = 0
  BY <1>2 DEF Init, InUse, CachedFree, dReserved
<1>4. QED
  BY <1>1, <1>3, SizeFacts DEF OrderInv, HeadOrder, Init, NoWriter

\* The consumer head plus one ring length is as far ahead of the reservation as
\* there are slots in nobody's hands.
LEMMA ReloadedFree ==
  ASSUME OrderInv
  PROVE  /\ WSub(WAdd(consumer, Size), cachedProducer) = Size - (dRead + dUnread + dReserved)
         /\ WSub(cachedProducer, consumer) = dRead + dUnread + dReserved
<1>1. TypeOK /\ InUse <= Size
  BY DEF OrderInv, TypeInv, HeadOrder
<1>2. dRead + dUnread + dReserved <= Size
  BY <1>1, DistanceType, SizeFacts
<1>3. /\ consumer \in Index /\ kernelHead \in Index /\ producer \in Index
      /\ cachedProducer \in Index /\ Size \in Index
  BY <1>1, SizeFacts DEF TypeOK, Index
<1>4. WSub(producer, consumer) = dRead + dUnread
  <2>1. WSub(kernelHead, consumer) + WSub(producer, kernelHead) < Modulus
    BY <1>1, <1>2, DistanceType, SizeFacts DEF dRead, dUnread
  <2>2. QED
    BY <1>3, <2>1, DistanceSum DEF dRead, dUnread
<1>5. WSub(cachedProducer, consumer) = dRead + dUnread + dReserved
  <2>1. WSub(producer, consumer) + WSub(cachedProducer, producer) < Modulus
    BY <1>1, <1>2, <1>4, DistanceType, SizeFacts DEF dReserved
  <2>2. QED
    BY <1>3, <1>4, <2>1, DistanceSum DEF dReserved
<1>6. QED
  BY <1>2, <1>3, <1>5, DistanceAhead

\* transmit and fill: what they reserve comes out of what was free.
LEMMA TransmitOrder ==
  ASSUME OrderInv, NEW n \in Batch, Transmit(n)
  PROVE  HeadOrder' /\ dReserved' = writer'.buffers
<1> DEFINE count == Reserve(n).count
<1>1. TypeOK /\ InUse <= Size /\ InUse + CachedFree <= Size /\ dReserved = 0
  BY DEF OrderInv, TypeInv, HeadOrder, Transmit
<1>2. /\ count \in Index /\ count \in Nat /\ count <= CountFree(1).free
      /\ CountFree(1).free \in Nat
  BY <1>1, ReserveType, SizeFacts DEF Index
<1>3. /\ cachedProducer' = WAdd(cachedProducer, count)
      /\ cachedConsumer' = CountFree(1).consumer
      /\ acquired' = CountFree(1).acquired
      /\ writer'.buffers = count
      /\ UNCHANGED <<producer, consumer, kernelHead>>
  BY DEF Transmit, NewIter, Reserve, shared, kernel
<1>4. /\ producer \in Index /\ consumer \in Index /\ cachedProducer \in Index
      /\ cachedConsumer \in Index /\ Size \in Index
  BY <1>1, SizeFacts DEF TypeOK, Index
<1>5. dRead' = dRead /\ dUnread' = dUnread
  BY <1>3 DEF dRead, dUnread
<1>6. CASE CachedFree >= 1
  <2>1. CountFree(1) = [free |-> CachedFree, consumer |-> cachedConsumer, acquired |-> acquired]
    BY <1>6 DEF CountFree
  <2>2. dAcquired' = dAcquired
    BY <1>3, <2>1 DEF dAcquired
  <2>3. count <= CachedFree /\ count <= Size
    BY <1>1, <1>2, <2>1, DistanceType, SizeFacts
  <2>4. dReserved' = count
    <3>1. WSub(WAdd(cachedProducer, count), producer) = dReserved + count
      BY <1>1, <1>2, <1>4, <2>3, DistanceOfAdd, SizeFacts DEF dReserved
    <3>2. QED
      BY <1>1, <1>2, <1>3, <3>1 DEF dReserved
  <2>5. CachedFree' = CachedFree - count
    <3>1. WSub(cachedConsumer, WAdd(cachedProducer, count)) = CachedFree - count
      BY <1>2, <1>4, <2>3, DistanceAfterAdd DEF CachedFree
    <3>2. QED
      BY <1>3, <2>1, <3>1 DEF CachedFree
  <2>6. InUse' = dAcquired' + dRead' + dUnread' + dReserved'
    BY DEF InUse, dAcquired, dRead, dUnread, dReserved
  <2>7. QED
    BY <1>1, <1>2, <1>3, <1>5, <2>2, <2>3, <2>4, <2>5, <2>6, DistanceType, SizeFacts DEF HeadOrder
<1>7. CASE ~(CachedFree >= 1)
  <2>1. /\ CountFree(1).free = WSub(WAdd(consumer, Size), cachedProducer)
        /\ CountFree(1).consumer = WAdd(consumer, Size)
        /\ CountFree(1).acquired = consumer
    BY <1>7 DEF CountFree
  <2>2. dAcquired' = 0
    BY <1>3, <1>4, <2>1, AddSub DEF dAcquired
  <2>3. CountFree(1).free = Size - (dRead + dUnread + dReserved)
    BY <2>1, ReloadedFree
  <2>4. count <= Size
    BY <1>1, <1>2, <2>3, DistanceType, SizeFacts
  <2>5. dReserved' = count
    <3>1. WSub(WAdd(cachedProducer, count), producer) = dReserved + count
      BY <1>1, <1>2, <1>4, <2>4, DistanceOfAdd, SizeFacts DEF dReserved
    <3>2. QED
      BY <1>1, <1>2, <1>3, <3>1 DEF dReserved
  <2>6. CachedFree' = CountFree(1).free - count
    <3>1. WAdd(consumer, Size) \in Index
      BY <1>4, WrapType
    <3>2. WSub(WAdd(consumer, Size), WAdd(cachedProducer, count)) = CountFree(1).free - count
      BY <1>2, <1>4, <2>1, <3>1, DistanceAfterAdd
    <3>3. QED
      BY <1>3, <2>1, <3>2 DEF CachedFree
  <2>7. InUse' = dAcquired' + dRead' + dUnread' + dReserved'
    BY DEF InUse, dAcquired, dRead, dUnread, dReserved
  <2>8. QED
    BY <1>1, <1>2, <1>3, <1>5, <2>2, <2>3, <2>4, <2>5, <2>6, <2>7,
       DistanceType, SizeFacts
    DEF HeadOrder
<1>8. QED
  BY <1>6, <1>7

\* commit moves what was written from the reservation to the published entries;
\* a commit that overflows has the rest of the reservation cancelled.
LEMMA CommitOrder ==
  ASSUME OrderInv, Commit \/ CommitTraps
  PROVE  HeadOrder' /\ dReserved' = writer'.buffers
<1>1. /\ TypeOK /\ InUse <= Size /\ InUse + CachedFree <= Size
      /\ dReserved = writer.buffers
  BY DEF OrderInv, TypeInv, HeadOrder, Commit, CommitTraps
<1>2. /\ Written \in Index /\ Written \in Nat
      /\ writer.remain \in Index /\ writer.remain \in Nat
      /\ Written = dReserved - writer.remain
  BY <1>1, SizeFacts DEF OrderInv, TypeInv, WriterOK, TypeOK, Written, Index
<1>3. /\ producer \in Index /\ kernelHead \in Index /\ cachedProducer \in Index
  BY <1>1 DEF TypeOK
<1>4. /\ producer' = WAdd(producer, Written)
      /\ UNCHANGED <<consumer, kernelHead, acquired, cachedConsumer>>
  BY DEF Commit, CommitTraps, Submit, kernel, cached
<1>5. dAcquired' = dAcquired /\ dRead' = dRead
  BY <1>4 DEF dAcquired, dRead
<1>6. dUnread' = dUnread + Written
  <2>1. dUnread + Written < Modulus
    BY <1>1, <1>2, DistanceType, SizeFacts
  <2>2. QED
    BY <1>2, <1>3, <1>4, <2>1, DistanceOfAdd DEF dUnread
<1>7. /\ WSub(cachedProducer, WAdd(producer, Written)) = dReserved - Written
      /\ WAdd(producer, Written) \in Index
  BY <1>1, <1>2, <1>3, DistanceType, DistanceAfterAdd, WrapType DEF dReserved
<1>8. InUse' = dAcquired' + dRead' + dUnread' + dReserved'
  BY DEF InUse, dAcquired, dRead, dUnread, dReserved
<1>9. CASE Commit
  <2>1. /\ UNCHANGED <<cachedProducer, handle>>
        /\ writer'.buffers = writer.remain
    BY <1>1, <1>9 DEF Commit, cached, TypeOK
  <2>2. dReserved' = writer.remain
    BY <1>1, <1>2, <1>4, <1>7, <2>1, DistanceType DEF dReserved
  <2>3. CachedFree' = CachedFree
    BY <1>4, <2>1 DEF CachedFree
  <2>4. QED
    BY <1>1, <1>2, <1>5, <1>6, <1>8, <2>1, <2>2, <2>3, DistanceType DEF HeadOrder
<1>10. CASE CommitTraps
  <2>1. /\ cachedProducer' = WSub(cachedProducer, writer.remain)
        /\ handle' = "panicked"
        /\ writer'.buffers = 0
    BY <1>10 DEF CommitTraps, Cancel, NoWriter
  <2>2. dReserved' = 0
    <3>1. writer.remain <= WSub(cachedProducer, WAdd(producer, Written))
      BY <1>1, <1>2, <1>7, DistanceType
    <3>2. WSub(WSub(cachedProducer, writer.remain), WAdd(producer, Written))
            = WSub(cachedProducer, WAdd(producer, Written)) - writer.remain
      BY <1>2, <1>3, <1>7, <3>1, DistanceOfSub
    <3>3. QED
      BY <1>1, <1>2, <1>4, <1>7, <2>1, <3>2, DistanceType DEF dReserved
  <2>3. InUse' <= Size
    BY <1>1, <1>2, <1>5, <1>6, <1>8, <2>2, DistanceType, SizeFacts
  <2>4. QED
    BY <2>1, <2>2, <2>3 DEF HeadOrder
<1>11. QED
  BY <1>9, <1>10

\* drop hands the reservation back to count_free.
LEMMA DropOrder ==
  ASSUME OrderInv, DropWriter
  PROVE  HeadOrder' /\ dReserved' = writer'.buffers
<1>1. /\ TypeOK /\ InUse <= Size /\ InUse + CachedFree <= Size
      /\ dReserved = writer.buffers
  BY DEF OrderInv, TypeInv, HeadOrder, DropWriter
<1>2. /\ producer \in Index /\ cachedProducer \in Index /\ cachedConsumer \in Index
  BY <1>1 DEF TypeOK
<1>3. /\ UNCHANGED <<producer, consumer, kernelHead, acquired, cachedConsumer>>
      /\ cachedProducer' = WSub(cachedProducer, dReserved)
      /\ writer'.buffers = 0
  BY <1>1 DEF DropWriter, Cancel, NoWriter, shared, kernel
<1>4. dAcquired' = dAcquired /\ dRead' = dRead /\ dUnread' = dUnread
  BY <1>3 DEF dAcquired, dRead, dUnread
<1>5. dReserved' = 0
  <2>1. WSub(WSub(cachedProducer, dReserved), producer)
          = WSub(cachedProducer, producer) - dReserved
    BY <1>1, <1>2, DistanceType, DistanceOfSub DEF dReserved
  <2>2. QED
    BY <1>1, <1>3, <2>1, DistanceType DEF dReserved
<1>6. CachedFree' = CachedFree + dReserved
  <2>1. CachedFree + dReserved < Modulus
    BY <1>1, DistanceType, SizeFacts
  <2>2. QED
    BY <1>1, <1>2, <1>3, <2>1, DistanceType, DistanceAfterSub DEF CachedFree
<1>7. InUse' = dAcquired' + dRead' + dUnread' + dReserved'
  BY DEF InUse, dAcquired, dRead, dUnread, dReserved
<1>8. QED
  BY <1>1, <1>3, <1>4, <1>5, <1>6, <1>7, DistanceType, SizeFacts DEF HeadOrder

\* The kernel reads below the producer head and releases what it read.
LEMMA KernelOrder ==
  ASSUME OrderInv, Kernel
  PROVE  HeadOrder' /\ dReserved' = writer'.buffers
<1>1. /\ TypeOK /\ InUse <= Size
      /\ handle # "panicked" => InUse + CachedFree <= Size
      /\ dReserved = writer.buffers
  BY DEF OrderInv, TypeInv, HeadOrder
<1>2. /\ consumer \in Index /\ kernelHead \in Index /\ acquired \in Index
      /\ producer \in Index /\ 1 \in Index
  BY <1>1, SizeFacts DEF TypeOK, Index
<1>3. UNCHANGED <<producer, acquired, cachedProducer, cachedConsumer, handle, writer>>
  BY DEF Kernel, KernelRead, KernelRelease, shared, cached
<1>4. dReserved' = dReserved /\ CachedFree' = CachedFree
  BY <1>3 DEF dReserved, CachedFree
<1>5. InUse' = dAcquired' + dRead' + dUnread' + dReserved'
  BY DEF InUse, dAcquired, dRead, dUnread, dReserved
<1>6. CASE KernelRead
  <2>1. /\ kernelHead # producer
        /\ kernelHead' = WAdd(kernelHead, 1)
        /\ UNCHANGED consumer
    BY <1>6 DEF KernelRead, shared
  <2>2. 1 <= dUnread
    BY <1>2, <2>1, SizeFacts DEF dUnread, WSub, Index
  <2>3. dAcquired' = dAcquired
    BY <1>3, <2>1 DEF dAcquired
  <2>4. dRead' = dRead + 1
    <3>1. dRead + 1 < Modulus
      BY <1>1, <2>2, DistanceType, SizeFacts
    <3>2. QED
      BY <1>2, <2>1, <3>1, DistanceOfAdd DEF dRead
  <2>5. dUnread' = dUnread - 1
    BY <1>2, <1>3, <2>1, <2>2, DistanceAfterAdd DEF dUnread
  <2>6. QED
    BY <1>1, <1>3, <1>4, <1>5, <2>3, <2>4, <2>5, DistanceType DEF HeadOrder
<1>7. CASE KernelRelease
  <2>1. consumer' = kernelHead /\ UNCHANGED kernelHead
    BY <1>7 DEF KernelRelease, kernel
  <2>2. dAcquired' = dAcquired + dRead
    <3>1. WSub(kernelHead, acquired) = dAcquired + dRead
      BY <1>1, <1>2, DistanceType, DistanceSum, SizeFacts DEF dAcquired, dRead
    <3>2. QED
      BY <1>3, <2>1, <3>1 DEF dAcquired
  <2>3. dRead' = 0
    BY <1>2, <2>1, AddSub DEF dRead
  <2>4. dUnread' = dUnread
    BY <1>3, <2>1 DEF dUnread
  <2>5. QED
    BY <1>1, <1>3, <1>4, <1>5, <2>2, <2>3, <2>4, DistanceType DEF HeadOrder
<1>8. QED
  BY <1>6, <1>7 DEF Kernel

\* Every step keeps the heads in order, unless a ring is mapped in flight.
LEMMA NextOrder ==
  ASSUME MapInFlight = FALSE
  PROVE  OrderInv /\ [Next]_vars => OrderInv'
<1> SUFFICES ASSUME OrderInv, [Next]_vars PROVE OrderInv'
  OBVIOUS
<1> DEFINE WriterInv == /\ writer.open => handle = "mapped"
                        /\ ~writer.open => writer.buffers = 0 /\ writer.remain = 0
<1>1. TypeInv'
  BY NextType DEF OrderInv
<1>2. TypeOK /\ WriterInv
  BY DEF OrderInv, TypeInv
<1>3. SUFFICES HeadOrder' /\ dReserved' = writer'.buffers /\ WriterInv'
  BY <1>1 DEF OrderInv
<1>4. ASSUME Map PROVE HeadOrder' /\ dReserved' = writer'.buffers /\ WriterInv'
  <2>1. /\ producer = consumer
        /\ cachedProducer' = producer /\ cachedConsumer' = consumer
        /\ UNCHANGED <<producer, consumer, kernelHead, acquired, writer>>
        /\ handle' = "mapped"
        /\ ~writer.open
    BY <1>2, <1>4 DEF Map, shared, kernel
  <2>2. dReserved' = 0 /\ CachedFree' = 0
    BY <1>2, <2>1, AddSub DEF dReserved, CachedFree, TypeOK
  <2>3. dAcquired' = dAcquired /\ dRead' = dRead /\ dUnread' = dUnread
    BY <2>1 DEF dAcquired, dRead, dUnread
  <2>4. InUse' = dAcquired' + dRead' + dUnread' + dReserved'
    BY DEF InUse, dAcquired, dRead, dUnread, dReserved
  <2>5. InUse <= Size
    BY DEF OrderInv, HeadOrder
  <2>6. QED
    BY <1>2, <2>1, <2>2, <2>3, <2>4, <2>5, DistanceType, SizeFacts DEF HeadOrder
<1>5. ASSUME UNCHANGED <<shared, cached, writer, kernel, acquired>>,
             handle' = handle \/ (handle = "mapped" /\ handle' = "unmapped" /\ ~writer.open)
      PROVE  HeadOrder' /\ dReserved' = writer'.buffers /\ WriterInv'
  BY <1>2, <1>5
     DEF OrderInv, HeadOrder, InUse, CachedFree, dReserved, shared, cached, kernel
<1>6. ASSUME NEW n \in Batch, Transmit(n)
      PROVE  HeadOrder' /\ dReserved' = writer'.buffers /\ WriterInv'
  BY <1>6, TransmitOrder DEF Transmit, NewIter
<1>7. ASSUME TransmitTraps PROVE HeadOrder' /\ dReserved' = writer'.buffers /\ WriterInv'
  <2>1. /\ acquired' = consumer /\ handle' = "panicked"
        /\ UNCHANGED <<producer, consumer, kernelHead, cachedProducer, writer>>
        /\ ~writer.open
    BY <1>7 DEF TransmitTraps, shared, kernel
  <2>2. dAcquired' = 0
    BY <1>2, <2>1, AddSub DEF dAcquired, TypeOK
  <2>3. dRead' = dRead /\ dUnread' = dUnread /\ dReserved' = dReserved
    BY <2>1 DEF dRead, dUnread, dReserved
  <2>4. InUse' = dAcquired' + dRead' + dUnread' + dReserved'
    BY DEF InUse, dAcquired, dRead, dUnread, dReserved
  <2>5. InUse <= Size /\ dReserved = writer.buffers
    BY DEF OrderInv, HeadOrder
  <2>6. QED
    BY <1>2, <2>1, <2>2, <2>3, <2>4, <2>5, DistanceType, SizeFacts DEF HeadOrder
<1>8. ASSUME NEW v \in Value, Insert(v)
      PROVE  HeadOrder' /\ dReserved' = writer'.buffers /\ WriterInv'
  <2>1. /\ UNCHANGED <<producer, consumer, handle, cached, kernel, acquired>>
        /\ writer'.buffers = writer.buffers /\ writer.open /\ writer'.open
    BY <1>2, <1>8 DEF Insert, CanInsert, Advance, TypeOK
  <2>2. QED
    BY <1>2, <2>1 DEF OrderInv, HeadOrder, InUse, CachedFree, dReserved, cached, kernel
<1>9. ASSUME Commit \/ CommitTraps
      PROVE  HeadOrder' /\ dReserved' = writer'.buffers /\ WriterInv'
  <2>1. CASE Commit
    <3>1. writer.open /\ writer'.open /\ UNCHANGED handle
      BY <1>2, <2>1 DEF Commit, TypeOK
    <3>2. QED
      BY <1>2, <2>1, <3>1, CommitOrder
  <2>2. CASE CommitTraps
    <3>1. ~writer'.open /\ writer'.buffers = 0 /\ writer'.remain = 0
      BY <2>2 DEF CommitTraps, NoWriter
    <3>2. QED
      BY <2>2, <3>1, CommitOrder
  <2>3. QED
    BY <1>9, <2>1, <2>2
<1>10. ASSUME DropWriter PROVE HeadOrder' /\ dReserved' = writer'.buffers /\ WriterInv'
  BY <1>10, DropOrder DEF DropWriter, NoWriter
<1>11. ASSUME Kernel PROVE HeadOrder' /\ dReserved' = writer'.buffers /\ WriterInv'
  <2>1. UNCHANGED <<handle, writer>>
    BY <1>11 DEF Kernel, KernelRead, KernelRelease
  <2>2. QED
    BY <1>2, <1>11, <2>1, KernelOrder
<1>12. ASSUME Unmap PROVE HeadOrder' /\ dReserved' = writer'.buffers /\ WriterInv'
  <2>1. /\ UNCHANGED <<shared, cached, writer, kernel, acquired>>
        /\ handle = "mapped" /\ handle' = "unmapped" /\ ~writer.open
    BY <1>12 DEF Unmap
  <2>2. QED
    BY <1>5, <2>1
<1>13. ASSUME UNCHANGED vars PROVE HeadOrder' /\ dReserved' = writer'.buffers /\ WriterInv'
  <2>1. /\ UNCHANGED <<shared, cached, writer, kernel, acquired>>
        /\ handle' = handle \/ (handle = "mapped" /\ handle' = "unmapped" /\ ~writer.open)
    BY <1>13 DEF vars
  <2>2. QED
    BY <1>5, <2>1
<1>14. QED
  BY <1>4, <1>6, <1>7, <1>8, <1>9, <1>10, <1>11, <1>12, <1>13 DEF Next, User

\* The heads of a producer ring that is only mapped when it is drained keep their
\* order, however the client uses its writers and whether or not sums overflow.
THEOREM HeadOrderHolds ==
  ASSUME MapInFlight = FALSE
  PROVE  Spec => []HeadOrder
<1>1. OrderInv => HeadOrder
  BY DEF OrderInv
<1>2. OrderInv /\ [Next]_vars => OrderInv'
  BY NextOrder
<1>3. QED
  BY <1>1, <1>2, InitOrder, PTL DEF Spec

-----------------------------------------------------------------------------
(* The slots of a reservation *)

\* Of a writer that is not reused after a commit, base is as far ahead of the
\* producer head as it has written slots; and what was written since the last
\* Release store lies outside of what the kernel has still to read.
SlotInv ==
  /\ OrderInv
  /\ writer.fresh /\ writer.buffers > 0 => writer.base = WAdd(producer, Written)
  /\ PublishedOrdered

\* A window and the two parts of one that a producer ring deals with.
LEMMA SlotFacts ==
  ASSUME OrderInv
  PROVE  /\ WSub(producer, consumer) = dRead + dUnread
         /\ WAdd(consumer, dRead + dUnread) = producer
         /\ WAdd(consumer, dRead) = kernelHead
         /\ Written \in Nat /\ Written \in Index /\ writer.remain \in Nat
         /\ Written + writer.remain = dReserved
         /\ dRead + dUnread + dReserved <= Size
<1>1. /\ TypeOK /\ InUse <= Size /\ dReserved = writer.buffers
      /\ writer.remain <= writer.buffers
  BY DEF OrderInv, TypeInv, WriterOK, HeadOrder
<1>2. /\ consumer \in Index /\ kernelHead \in Index /\ producer \in Index
      /\ writer.remain \in Index /\ writer.buffers \in Index
  BY <1>1 DEF TypeOK
<1>3. dRead + dUnread + dReserved <= Size
  BY <1>1, DistanceType, SizeFacts
<1>4. WSub(producer, consumer) = dRead + dUnread
  BY <1>1, <1>2, <1>3, DistanceType, DistanceSum, SizeFacts DEF dRead, dUnread
<1>5. WAdd(consumer, dRead + dUnread) = producer /\ WAdd(consumer, dRead) = kernelHead
  BY <1>2, <1>4, AddDistance DEF dRead
<1>6. /\ Written \in Nat /\ Written \in Index /\ writer.remain \in Nat
      /\ Written + writer.remain = dReserved
  BY <1>1, <1>2, SizeFacts DEF Written, Index
<1>7. QED
  BY <1>3, <1>4, <1>5, <1>6

\* The slots a writer is going to fill are none of the kernel's.
LEMMA OwnedStep ==
  ASSUME ReuseWriter = FALSE, SlotInv
  PROVE  ReservationOwned
<1> SUFFICES ASSUME CanInsert
             PROVE  Window(writer.base, writer.remain)
                      \intersect Window(consumer, WSub(producer, consumer)) = {}
  BY DEF ReservationOwned
<1> DEFINE d == dRead + dUnread
<1>1. OrderInv /\ TypeOK
  BY DEF SlotInv, OrderInv, TypeInv
<1>2. /\ consumer \in Index /\ d \in Nat /\ Written \in Nat /\ writer.remain \in Nat
      /\ d + Written + writer.remain <= Size
      /\ d \in Index /\ Written \in Index /\ d + Written < Modulus
  BY <1>1, SlotFacts, DistanceType, SizeFacts DEF TypeOK, Index
<1>3. writer.base = WAdd(producer, Written)
  <2>1. writer.fresh /\ writer.remain > 0
    BY DEF CanInsert
  <2>2. writer.buffers > 0
    BY <1>1, <2>1, SizeFacts DEF OrderInv, TypeInv, TypeOK, WriterOK, Index
  <2>3. QED
    BY <2>1, <2>2 DEF SlotInv
<1>4. writer.base = WAdd(consumer, d + Written)
  BY <1>1, <1>2, <1>3, SlotFacts, AddAdd
<1>5. Window(consumer, d) \intersect Window(WAdd(consumer, d + Written), writer.remain) = {}
  <2> HIDE DEF d
  <2>1. QED
    BY <1>2, WindowsDisjoint
<1>6. QED
  BY <1>1, <1>4, <1>5, SlotFacts

\* They were given back before the consumer head was acquired.
LEMMA AcquiredStep ==
  ASSUME ReuseWriter = FALSE, SlotInv
  PROVE  ReservationAcquired
<1> SUFFICES ASSUME CanInsert, NEW k \in 1 .. writer.remain
             PROVE  WSub(WAdd(writer.base, k), acquired) <= Size
  BY DEF ReservationAcquired
<1>1. OrderInv /\ TypeOK /\ InUse <= Size
  BY DEF SlotInv, OrderInv, TypeInv, HeadOrder
<1>2. /\ Written \in Nat /\ Written \in Index /\ k \in Nat /\ k \in Index
      /\ Written + k <= dReserved /\ Written + k < Modulus
      /\ dAcquired + dRead + dUnread + dReserved <= Size
  BY <1>1, SlotFacts, DistanceType, SizeFacts DEF Index
<1>3. writer.base = WAdd(producer, Written)
  <2>1. writer.fresh /\ writer.remain > 0
    BY DEF CanInsert
  <2>2. writer.buffers > 0
    BY <1>1, <2>1, SizeFacts DEF OrderInv, TypeInv, TypeOK, WriterOK, Index
  <2>3. QED
    BY <2>1, <2>2 DEF SlotInv
<1>4. /\ producer \in Index /\ consumer \in Index /\ acquired \in Index
  BY <1>1 DEF TypeOK
<1>5. WAdd(writer.base, k) = WAdd(producer, Written + k) /\ Written + k \in Index
  BY <1>2, <1>3, <1>4, AddAdd
<1>6. WSub(producer, acquired) = dAcquired + dRead + dUnread
  <2>1. WSub(consumer, acquired) + WSub(producer, consumer) < Modulus
    BY <1>1, <1>2, SlotFacts, DistanceType, SizeFacts DEF dAcquired
  <2>2. QED
    BY <1>1, <1>4, <2>1, SlotFacts, DistanceSum, DistanceType DEF dAcquired
<1>7. WSub(WAdd(producer, Written + k), acquired)
        = dAcquired + dRead + dUnread + Written + k
  <2>1. WSub(producer, acquired) + (Written + k) < Modulus
    BY <1>1, <1>2, <1>6, DistanceType, SizeFacts
  <2>2. QED
    BY <1>1, <1>2, <1>4, <1>5, <1>6, <2>1, DistanceOfAdd, DistanceType
<1>8. QED
  BY <1>1, <1>2, <1>5, <1>7, DistanceType, SizeFacts

\* There is no writer and no dirty slot at first.
LEMMA InitSlots == Init => SlotInv
<1> SUFFICES ASSUME Init PROVE SlotInv
  OBVIOUS
<1>1. OrderInv
  BY InitOrder
<1>2. QED
  BY <1>1 DEF SlotInv, PublishedOrdered, Init, NoWriter

\* Every step keeps base where the client's slots are.
LEMMA NextBase ==
  ASSUME ReuseWriter = FALSE, SlotInv, [Next]_vars
  PROVE  writer'.fresh /\ writer'.buffers > 0 => writer'.base = WAdd(producer', Written')
<1>1. OrderInv /\ TypeOK
  BY DEF SlotInv, OrderInv, TypeInv
<1>2. /\ producer \in Index /\ writer.base \in Index
      /\ Written \in Nat /\ Written \in Index
      /\ 0 \in Index /\ 1 \in Index
  BY <1>1, SlotFacts, SizeFacts DEF TypeOK, Index
<1>3. CASE UNCHANGED <<producer, writer>>
  BY <1>3 DEF SlotInv, Written
<1>4. ASSUME NEW n \in Batch, Transmit(n), writer'.buffers > 0
      PROVE  writer'.base = WAdd(producer', Written')
  <2>1. /\ writer'.base = Reserve(n).idx /\ writer'.buffers = Reserve(n).count
        /\ writer'.remain = Reserve(n).count /\ producer' = producer
        /\ ~writer.open
    BY <1>4 DEF Transmit, NewIter, shared
  <2>2. writer'.base = cachedProducer
    BY <1>4, <2>1 DEF Reserve
  <2>3. Written' = 0
    BY <1>1, <2>1, ReserveType, SizeFacts DEF Written, Index
  <2>4. cachedProducer = producer
    <3>1. WSub(cachedProducer, producer) = 0
      BY <1>1, <2>1 DEF OrderInv, dReserved
    <3>2. QED
      BY <1>1, <3>1, AddDistance DEF TypeOK
  <2>5. QED
    BY <1>2, <2>1, <2>2, <2>3, <2>4, AddDistance
<1>5. ASSUME NEW v \in Value, Insert(v)
      PROVE  writer'.base = WAdd(producer', Written')
  <2>1. /\ writer'.base = WAdd(writer.base, 1) /\ writer'.buffers = writer.buffers
        /\ writer'.remain = writer.remain - 1 /\ producer' = producer
        /\ writer.remain > 0 /\ writer.fresh
    BY <1>1, <1>5 DEF Insert, CanInsert, Advance, TypeOK
  <2>2. writer.remain \in Nat /\ writer.buffers \in Nat /\ Written + writer.remain = dReserved
    BY <1>1, SlotFacts, SizeFacts DEF TypeOK, Index
  <2>3. Written' = Written + 1
    BY <2>1, <2>2 DEF Written
  <2>4. writer.buffers > 0 /\ Written + 1 < Modulus
    BY <1>1, <1>2, <2>1, <2>2, SlotFacts, DistanceType, SizeFacts
       DEF OrderInv, TypeInv, WriterOK
  <2>5. writer.base = WAdd(producer, Written)
    BY <2>1, <2>4 DEF SlotInv
  <2>6. QED
    BY <1>2, <2>1, <2>3, <2>4, <2>5, AddAdd
<1>6. ASSUME Commit, writer'.fresh, writer'.buffers > 0
      PROVE  writer'.base = WAdd(producer', Written')
  <2>1. /\ writer.fresh /\ Written = 0 /\ writer.buffers > 0
        /\ writer'.base = WAdd(writer.base, Written)
        /\ writer'.buffers = writer.remain /\ writer'.remain = writer.remain
        /\ producer' = WAdd(producer, Written)
    BY <1>1, <1>6 DEF Commit, Submit, TypeOK
  <2>2. Written' = 0
    BY <1>1, <2>1, SlotFacts DEF Written
  <2>3. writer.base = WAdd(producer, Written)
    BY <2>1 DEF SlotInv
  <2>4. QED
    BY <1>2, <2>1, <2>2, <2>3, AddDistance
<1>7. ASSUME CommitTraps \/ DropWriter PROVE writer'.buffers = 0
  BY <1>7 DEF CommitTraps, DropWriter, NoWriter
<1>8. CASE Map \/ Unmap \/ TransmitTraps \/ Kernel \/ UNCHANGED vars
  BY <1>3, <1>8
     DEF Map, Unmap, TransmitTraps, Kernel, KernelRead, KernelRelease, vars, shared
<1>9. CASE CommitTraps \/ DropWriter
  BY <1>7, <1>9
<1>10. QED
  BY <1>4, <1>5, <1>6, <1>8, <1>9 DEF Next, User

\* Every step keeps unordered writes away from what the kernel is going to read.
LEMMA NextPublished ==
  ASSUME ReuseWriter = FALSE, SlotInv, [Next]_vars
  PROVE  PublishedOrdered'
<1>1. OrderInv /\ TypeOK
  BY DEF SlotInv, OrderInv, TypeInv
<1>2. Window(kernelHead, dUnread) \intersect dirty = {}
  BY DEF SlotInv, PublishedOrdered, dUnread
<1>3. SUFFICES Window(kernelHead', dUnread') \intersect dirty' = {}
  BY DEF PublishedOrdered, dUnread
<1>4. CASE UNCHANGED <<producer, kernelHead, dirty>>
  BY <1>2, <1>4 DEF dUnread
<1>5. CASE dirty' = {}
  BY <1>5
<1>6. ASSUME NEW v \in Value, Insert(v)
      PROVE  Window(kernelHead', dUnread') \intersect dirty' = {}
  <2>1. /\ CanInsert /\ dirty' = dirty \union {Slot(writer.base)}
        /\ UNCHANGED <<producer, kernelHead>>
    BY <1>6 DEF Insert, kernel
  <2>2. Slot(writer.base) \in Window(writer.base, writer.remain)
    <3>1. 0 \in 0 .. writer.remain - 1
      BY <1>1, <2>1, SlotFacts DEF CanInsert
    <3>2. WAdd(writer.base, 0) = writer.base
      BY <1>1, AddDistance DEF TypeOK
    <3>3. QED
      BY <3>1, <3>2 DEF Window
  <2>3. Window(kernelHead, dUnread) \subseteq Window(consumer, dRead + dUnread)
    <3>1. consumer \in Index /\ dRead \in Nat /\ dUnread \in Nat /\ dRead + dUnread < Modulus
      BY <1>1, SlotFacts, DistanceType, SizeFacts DEF TypeOK
    <3>2. Window(WAdd(consumer, dRead), dUnread) \subseteq Window(consumer, dRead + dUnread)
      BY <3>1, WindowEnd
    <3>3. QED
      BY <1>1, <3>2, SlotFacts
  <2>4. Window(writer.base, writer.remain) \intersect Window(consumer, dRead + dUnread) = {}
    BY <1>1, <2>1, OwnedStep, SlotFacts DEF ReservationOwned
  <2>5. Window(kernelHead', dUnread') = Window(kernelHead, dUnread)
    BY <2>1 DEF dUnread
  <2>6. QED
    BY <1>2, <2>1, <2>2, <2>3, <2>4, <2>5
<1>7. CASE KernelRead
  <2>1. /\ kernelHead' = WAdd(kernelHead, 1) /\ kernelHead # producer
        /\ UNCHANGED <<producer, dirty>>
    BY <1>7 DEF KernelRead, shared
  <2>2. kernelHead \in Index /\ producer \in Index /\ 1 \in Index
    BY <1>1, SizeFacts DEF TypeOK, Index
  <2>3. 1 <= dUnread
    BY <2>1, <2>2, SizeFacts DEF dUnread, WSub, Index
  <2>4. dUnread' = dUnread - 1
    BY <2>1, <2>2, <2>3, DistanceAfterAdd DEF dUnread
  <2>5. Window(WAdd(kernelHead, 1), dUnread - 1) \subseteq Window(kernelHead, dUnread)
    <3>1. dUnread - 1 \in Nat /\ 1 + (dUnread - 1) = dUnread /\ dUnread < Modulus
      BY <1>1, <2>3, DistanceType, SizeFacts DEF Index
    <3>2. QED
      BY <2>2, <3>1, WindowEnd
  <2>6. QED
    BY <1>2, <2>1, <2>4, <2>5
<1>8. CASE Commit \/ CommitTraps
  BY <1>5, <1>8 DEF Commit, CommitTraps, Submit
<1>9. CASE \E n \in Batch : Transmit(n)
  BY <1>4, <1>9 DEF Transmit, shared, kernel
<1>10. CASE \/ Map \/ Unmap \/ TransmitTraps \/ DropWriter \/ KernelRelease
            \/ UNCHANGED vars
  BY <1>4, <1>10 DEF Map, Unmap, TransmitTraps, DropWriter, KernelRelease, vars, shared, kernel
<1>11. QED
  BY <1>6, <1>7, <1>8, <1>9, <1>10 DEF Next, User, Kernel

\* SlotInv is an invariant of every client that opens a new writer after a commit.
LEMMA SlotInvariant ==
  ASSUME MapInFlight = FALSE, ReuseWriter = FALSE
  PROVE  Spec => []SlotInv
<1>1. SlotInv /\ [Next]_vars => SlotInv'
  BY NextOrder, NextBase, NextPublished DEF SlotInv
<1>2. QED
  BY <1>1, InitSlots, PTL DEF Spec

\* insert never writes a slot the kernel has not given back: neither one that is
\* still unread nor one that was read but not released.
THEOREM ReservationOwnedHolds ==
  ASSUME MapInFlight = FALSE, ReuseWriter = FALSE
  PROVE  Spec => []ReservationOwned
<1>1. SlotInv => ReservationOwned
  BY OwnedStep
<1>2. QED
  BY <1>1, SlotInvariant, PTL

\* and it writes only after the kernel's reads of the slot are ordered before it by
\* the Acquire load of count_free.
THEOREM ReservationAcquiredHolds ==
  ASSUME MapInFlight = FALSE, ReuseWriter = FALSE
  PROVE  Spec => []ReservationAcquired
<1>1. SlotInv => ReservationAcquired
  BY AcquiredStep
<1>2. QED
  BY <1>1, SlotInvariant, PTL

\* What the kernel reads was written before a Release store of the producer head.
THEOREM PublishedOrderedHolds ==
  ASSUME MapInFlight = FALSE, ReuseWriter = FALSE
  PROVE  Spec => []PublishedOrdered
<1>1. SlotInv => PublishedOrdered
  BY DEF SlotInv
<1>2. QED
  BY <1>1, SlotInvariant, PTL
-----------------------------------------------------------------------------
(* The ring implements RingChannel *)

\* The sequences of the refinement mapping, before and after a step.
LEMMA ChannelContents ==
  ASSUME SlotInv
  PROVE  /\ desc \in [Slots -> Value]
         /\ consumer \in Index /\ producer \in Index /\ kernelHead \in Index
         /\ WSub(producer, consumer) = dRead + dUnread
         /\ WSub(kernelHead, consumer) = dRead
         /\ Contents(producer, Written) = Segment(desc, producer, Written)
         /\ Contents(consumer, WSub(producer, consumer)) = Segment(desc, consumer, dRead + dUnread)
<1>1. OrderInv /\ TypeOK
  BY DEF SlotInv, OrderInv, TypeInv
<1>2. WSub(producer, consumer) = dRead + dUnread
  BY <1>1, SlotFacts
<1> QED
  BY <1>1, <1>2 DEF TypeOK, dRead, Contents, Segment

LEMMA ContentsStep ==
  /\ Contents(producer, Written)' = Segment(desc', producer', Written')
  /\ Contents(consumer, WSub(producer, consumer))'
       = Segment(desc', consumer', WSub(producer', consumer'))
BY DEF Contents, Segment

\* All that is staged and published fits the ring.
LEMMA ChannelBounds ==
  ASSUME SlotInv
  PROVE  /\ dRead \in Nat /\ dUnread \in Nat /\ Written \in Nat /\ writer.remain \in Nat
         /\ dRead \in Index /\ dUnread \in Index /\ Written \in Index
         /\ dRead + dUnread \in Nat /\ dRead + dUnread \in Index
         /\ dRead + dUnread + Written + writer.remain <= Size
         /\ WAdd(consumer, dRead + dUnread) = producer
         /\ WAdd(consumer, dRead) = kernelHead
<1>1. OrderInv /\ TypeOK
  BY DEF SlotInv, OrderInv, TypeInv
<1> QED
  BY <1>1, SlotFacts, DistanceType, SizeFacts DEF Index

LEMMA InitChannel == Init => Channel!Init
<1> SUFFICES ASSUME Init PROVE Channel!Init
  OBVIOUS
<1>1. producer = 0 /\ consumer = 0 /\ kernelHead = 0 /\ Written = 0 /\ observed = None
  BY DEF Init, Written, NoWriter
<1>2. WSub(0, 0) = 0
  BY DEF WSub
<1>3. Contents(0, 0) = <<>>
  BY DEF Contents
<1> QED
  BY <1>1, <1>2, <1>3 DEF Channel!Init

\* A step that leaves the heads, the written slots and what the kernel saw alone.
LEMMA StutterChannel ==
  ASSUME UNCHANGED <<shared, kernel, Written>>
  PROVE  UNCHANGED Channel!vars
BY DEF Channel!vars, Contents, shared, kernel

\* insert stages a descriptor: its slot is the one behind those written before.
LEMMA InsertStages ==
  ASSUME ReuseWriter = FALSE, SlotInv, NEW v \in Value, Insert(v)
  PROVE  Channel!Stage(v)
<1> DEFINE w == Written
           q == dRead + dUnread
           s == Slot(writer.base)
<1>1. OrderInv /\ TypeOK
  BY DEF SlotInv, OrderInv, TypeInv
<1>2. /\ CanInsert /\ writer.remain > 0 /\ writer.fresh
      /\ desc' = [desc EXCEPT ![s] = v] /\ writer' = Advance(writer)
      /\ UNCHANGED <<producer, consumer, kernelHead, observed>>
  BY DEF Insert, CanInsert, kernel
<1>3. /\ w \in Nat /\ w \in Index /\ q \in Nat /\ q \in Index /\ writer.remain \in Nat
      /\ q + w + 1 <= Size /\ WAdd(consumer, q) = producer
      /\ consumer \in Index /\ producer \in Index /\ desc \in [Slots -> Value]
  BY <1>2, ChannelBounds, ChannelContents, SizeFacts
<1>4. writer.base = WAdd(producer, w)
  <2>1. writer.buffers > 0
    BY <1>1, <1>2, SizeFacts DEF OrderInv, TypeInv, TypeOK, WriterOK, Index
  <2> QED
    BY <1>2, <2>1 DEF SlotInv
<1>5. Written' = w + 1
  <2>1. writer'.buffers = writer.buffers /\ writer'.remain = writer.remain - 1
    BY <1>1, <1>2 DEF Advance, TypeOK
  <2>2. writer.buffers \in Nat /\ writer.remain \in Nat
    BY <1>1, SizeFacts DEF TypeOK, Index
  <2> QED
    BY <2>1, <2>2 DEF Written
<1> HIDE DEF w, q
<1>6. s \notin Window(consumer, q) /\ s \notin Window(producer, w)
  <2>1. s \in Window(WAdd(producer, w), 1) /\ s \in Window(WAdd(consumer, q + w), 1)
    <3>1. WAdd(WAdd(consumer, q), w) = WAdd(consumer, q + w) /\ q + w \in Index
      BY <1>3, AddAdd, SizeFacts
    <3>2. \A i \in Index : Slot(i) \in Window(i, 1)
      <4>1. \A i \in Index : WAdd(i, 0) = i
        BY AddDistance
      <4> QED
        BY <4>1 DEF Window
    <3>3. WAdd(producer, w) \in Index
      BY <1>3, WrapType
    <3> QED
      BY <1>3, <1>4, <3>1, <3>2, <3>3
  <2>2. Window(consumer, q) \intersect Window(WAdd(consumer, q + w), 1) = {}
    BY <1>3, WindowsDisjoint
  <2>3. Window(producer, w) \intersect Window(WAdd(producer, w), 1) = {}
    BY <1>3, WindowsDisjoint, SizeFacts
  <2> QED
    BY <2>1, <2>2, <2>3
<1>7. Segment(desc', consumer, q) = Segment(desc, consumer, q)
  <2>1. q <= Size
    BY <1>3, SizeFacts
  <2>2. \A i \in Window(consumer, q) : desc'[i] = desc[i]
    BY <1>2, <1>3, <1>6, <2>1, WindowSlots
  <2> QED
    BY <1>3, <2>2, SegmentFrame
<1>8. Segment(desc', producer, w + 1) = Append(Segment(desc, producer, w), v)
  <2>1. Segment(desc', producer, w) = Segment(desc, producer, w)
    <3>1. w <= Size
      BY <1>3, SizeFacts
    <3>2. \A i \in Window(producer, w) : desc'[i] = desc[i]
      BY <1>2, <1>3, <1>6, <3>1, WindowSlots
    <3> QED
      BY <1>3, <3>2, SegmentFrame
  <2>2. s \in Slots
    BY <1>3, <1>4, SlotOfAdd
  <2>3. desc' \in [Slots -> Value] /\ desc'[s] = v
    BY <1>2, <1>3, <2>2
  <2>4. Segment(desc', producer, w + 1)
          = Append(Segment(desc', producer, w), desc'[Slot(WAdd(producer, w))])
    BY <1>3, <2>3, SegmentAppend, SizeFacts
  <2> QED
    BY <1>4, <2>1, <2>3, <2>4
<1>9. /\ Contents(producer, Written)' = Append(Contents(producer, Written), v)
      /\ UNCHANGED Contents(consumer, WSub(producer, consumer))
  <2>1. /\ Contents(producer, Written) = Segment(desc, producer, w)
        /\ Contents(consumer, WSub(producer, consumer)) = Segment(desc, consumer, q)
        /\ WSub(producer, consumer) = q
    BY ChannelContents DEF w, q
  <2>2. /\ Contents(producer, Written)' = Segment(desc', producer, w + 1)
        /\ Contents(consumer, WSub(producer, consumer))' = Segment(desc', consumer, q)
    BY <1>2, <1>5, <2>1, ContentsStep
  <2> QED
    BY <1>7, <1>8, <2>1, <2>2
<1>10. Len(Contents(producer, Written)) = w
       /\ Len(Contents(consumer, WSub(producer, consumer))) = q
  BY <1>3, ChannelContents, SegmentType DEF w, q
<1>11. UNCHANGED WSub(kernelHead, consumer)
  BY <1>2
<1>12. q + w < Size
  BY <1>3, SizeFacts
<1> QED
  BY <1>2, <1>9, <1>10, <1>11, <1>12 DEF Channel!Stage

\* commit publishes what is staged, also when it panics afterwards.
LEMMA CommitPublishes ==
  ASSUME SlotInv, Commit \/ CommitTraps
  PROVE  Channel!Publish
<1> DEFINE w == Written
           q == dRead + dUnread
<1>1. OrderInv /\ TypeOK
  BY DEF SlotInv, OrderInv, TypeInv
<1>2. /\ producer' = WAdd(producer, w)
      /\ UNCHANGED <<consumer, kernelHead, observed, desc>>
      /\ writer'.buffers = writer'.remain /\ writer'.remain \in Nat
  <2>1. CASE Commit
    BY <1>1, <2>1, SizeFacts DEF Commit, Submit, kernel, TypeOK, Index
  <2>2. CASE CommitTraps
    BY <2>2 DEF CommitTraps, Submit, kernel, NoWriter
  <2> QED
    BY <2>1, <2>2
<1>3. Written' = 0
  BY <1>2 DEF Written
<1>4. /\ w \in Nat /\ w \in Index /\ q \in Nat /\ q \in Index
      /\ q + w <= Size /\ WAdd(consumer, q) = producer
      /\ consumer \in Index /\ producer \in Index /\ desc \in [Slots -> Value]
      /\ WSub(producer, consumer) = q
  BY ChannelBounds, ChannelContents, SizeFacts
<1> HIDE DEF w, q
<1>5. WSub(producer', consumer') = q + w
  BY <1>2, <1>4, DistanceOfAdd, SizeFacts
<1>6. Segment(desc, consumer, q + w) = Segment(desc, consumer, q) \o Segment(desc, producer, w)
  <2>1. \A c \in Index, m \in Nat, n \in Nat : m + n <= Size
          => Segment(desc, c, m + n) = Segment(desc, c, m) \o Segment(desc, WAdd(c, m), n)
    BY SegmentConcat, Zenon
  <2>2. consumer \in Index /\ q \in Nat /\ w \in Nat /\ q + w <= Size
    BY <1>4
  <2>3. Segment(desc, consumer, q + w) = Segment(desc, consumer, q) \o Segment(desc, WAdd(consumer, q), w)
    BY <2>1, <2>2, Zenon
  <2> QED
    BY <1>4, <2>3
<1>7. /\ Contents(producer, Written)' = <<>>
      /\ Contents(consumer, WSub(producer, consumer))' = Segment(desc, consumer, q + w)
  BY <1>2, <1>3, <1>5, ContentsStep, SegmentEmpty
<1>8. /\ Contents(producer, Written) = Segment(desc, producer, w)
      /\ Contents(consumer, WSub(producer, consumer)) = Segment(desc, consumer, q)
  BY ChannelContents DEF w, q
<1>9. UNCHANGED WSub(kernelHead, consumer)
  BY <1>2
<1> QED
  BY <1>2, <1>6, <1>7, <1>8, <1>9 DEF Channel!Publish

\* The drop of a writer discards what is staged.
LEMMA DropDiscards ==
  ASSUME DropWriter
  PROVE  Channel!Discard
<1>1. Written' = 0 /\ UNCHANGED <<shared, kernel>>
  BY DEF DropWriter, Written, NoWriter
<1>2. Contents(producer, Written)' = <<>>
  BY <1>1, ContentsStep, SegmentEmpty
<1>3. UNCHANGED <<Contents(consumer, WSub(producer, consumer)), WSub(kernelHead, consumer), observed>>
  BY <1>1 DEF shared, kernel, Contents
<1> QED
  BY <1>2, <1>3 DEF Channel!Discard

\* The kernel takes the next descriptor, and sees what was written there.
LEMMA KernelReadTakes ==
  ASSUME SlotInv, KernelRead
  PROVE  Channel!Take
<1> DEFINE q == dRead + dUnread
<1>1. /\ kernelHead # producer /\ kernelHead' = WAdd(kernelHead, 1)
      /\ observed' \in IF Slot(kernelHead) \in dirty THEN Value ELSE {desc[Slot(kernelHead)]}
      /\ UNCHANGED <<shared, writer>>
  BY DEF KernelRead
<1>2. /\ dRead \in Nat /\ dUnread \in Nat /\ q \in Nat /\ q <= Size
      /\ consumer \in Index /\ producer \in Index /\ kernelHead \in Index
      /\ desc \in [Slots -> Value] /\ WAdd(consumer, dRead) = kernelHead
      /\ WSub(producer, consumer) = q /\ WSub(kernelHead, consumer) = dRead
  BY ChannelBounds, ChannelContents, SizeFacts
<1>3. dUnread > 0
  BY <1>1, <1>2, AddDistance DEF dUnread
<1>4. Slot(kernelHead) \notin dirty
  <2>1. Slot(kernelHead) \in Window(kernelHead, dUnread)
    <3>1. WAdd(kernelHead, 0) = kernelHead /\ 0 \in 0 .. dUnread - 1
      BY <1>2, <1>3, AddDistance
    <3> QED
      BY <3>1 DEF Window
  <2> QED
    BY <2>1 DEF SlotInv, PublishedOrdered, dUnread
<1>5. observed' = desc[Slot(kernelHead)]
  BY <1>1, <1>4
<1>6. WSub(kernelHead', consumer') = dRead + 1
  <2>1. 1 \in Index /\ dRead + 1 < Modulus
    BY <1>2, <1>3, SizeFacts DEF Index
  <2> QED
    BY <1>1, <1>2, <2>1, DistanceOfAdd DEF shared
<1>7. Contents(consumer, WSub(producer, consumer))[dRead + 1] = desc[Slot(kernelHead)]
  <2>1. dRead + 1 \in 1 .. q /\ (dRead + 1) - 1 = dRead
    BY <1>2, <1>3
  <2> QED
    BY <1>2, <2>1 DEF Contents
<1>8. Len(Contents(consumer, WSub(producer, consumer))) = q
  BY <1>2, ChannelContents, SegmentType
<1>9. UNCHANGED <<Contents(producer, Written), Contents(consumer, WSub(producer, consumer))>>
  BY <1>1 DEF shared, Contents, Written
<1> QED
  BY <1>2, <1>3, <1>5, <1>6, <1>7, <1>8, <1>9 DEF Channel!Take

\* The kernel releases all that it has taken.
LEMMA KernelReleaseReleases ==
  ASSUME SlotInv, KernelRelease
  PROVE  Channel!Release
<1> DEFINE q == dRead + dUnread
<1>1. consumer' = kernelHead /\ UNCHANGED <<producer, desc, writer, kernelHead, observed>>
  BY DEF KernelRelease, kernel
<1>2. /\ dRead \in Nat /\ dUnread \in Nat /\ q \in Nat /\ q <= Size
      /\ consumer \in Index /\ producer \in Index /\ kernelHead \in Index
      /\ desc \in [Slots -> Value] /\ WAdd(consumer, dRead) = kernelHead
      /\ WSub(producer, consumer) = q /\ WSub(kernelHead, consumer) = dRead
  BY ChannelBounds, ChannelContents, SizeFacts
<1>3. Contents(consumer, WSub(producer, consumer))' = Segment(desc, kernelHead, dUnread)
  BY <1>1, ContentsStep DEF dUnread
<1>4. Segment(desc, kernelHead, dUnread) = SubSeq(Segment(desc, consumer, q), dRead + 1, q)
  BY <1>2, SegmentRest
<1>5. Contents(consumer, WSub(producer, consumer)) = Segment(desc, consumer, q)
  BY ChannelContents
<1>6. Len(Segment(desc, consumer, q)) = q
  BY <1>2, SegmentType
<1>7. WSub(kernelHead', consumer') = 0
  BY <1>1, <1>2, AddSub
<1>8. UNCHANGED <<Contents(producer, Written), observed>>
  BY <1>1 DEF Contents, Written
<1> QED
  BY <1>2, <1>3, <1>4, <1>5, <1>6, <1>7, <1>8 DEF Channel!Release

\* What opens a writer stages nothing.
LEMMA OpenStutters ==
  ASSUME SlotInv, \/ Map \/ Unmap \/ TransmitTraps
                  \/ \E n \in Batch : Transmit(n)
  PROVE  UNCHANGED <<shared, kernel, Written>>
<1>1. CASE Map \/ Unmap \/ TransmitTraps
  BY <1>1 DEF Map, Unmap, TransmitTraps, Written
<1>2. ASSUME NEW n \in Batch, Transmit(n) PROVE UNCHANGED <<shared, kernel, Written>>
  <2>1. OrderInv /\ TypeOK
    BY DEF SlotInv, OrderInv, TypeInv
  <2>2. ~writer.open /\ writer' = NewIter(Reserve(n).count, Reserve(n).idx)
        /\ UNCHANGED <<shared, kernel>>
    BY <1>2 DEF Transmit
  <2>3. Written = 0
    BY <2>1, <2>2 DEF OrderInv, Written
  <2>4. Reserve(n).count \in Nat
    BY <2>1, ReserveType, SizeFacts DEF Index
  <2>5. Written' = 0
    BY <2>2, <2>4 DEF NewIter, Written
  <2> QED
    BY <2>2, <2>3, <2>5
<1> QED
  BY <1>1, <1>2

\* Whatever user space and the kernel do to heads, caches and slots, a producer ring
\* whose writers are not reused is a bounded FIFO between insert and the kernel.
THEOREM ImplementsChannelHolds ==
  ASSUME MapInFlight = FALSE, ReuseWriter = FALSE
  PROVE  Spec => ImplementsChannel
<1>1. Init => Channel!Init
  BY InitChannel
<1>2. SlotInv /\ [Next]_vars => [Channel!Next]_(Channel!vars)
  <2> SUFFICES ASSUME SlotInv, [Next]_vars PROVE [Channel!Next]_(Channel!vars)
    OBVIOUS
  <2>1. ASSUME NEW v \in Value, Insert(v) PROVE Channel!Next
    BY <2>1, InsertStages DEF Channel!Next
  <2>2. CASE Commit \/ CommitTraps
    BY <2>2, CommitPublishes DEF Channel!Next
  <2>3. CASE DropWriter
    BY <2>3, DropDiscards DEF Channel!Next
  <2>4. CASE KernelRead
    BY <2>4, KernelReadTakes DEF Channel!Next
  <2>5. CASE KernelRelease
    BY <2>5, KernelReleaseReleases DEF Channel!Next
  <2>6. CASE Map \/ Unmap \/ TransmitTraps \/ \E n \in Batch : Transmit(n)
    BY <2>6, OpenStutters, StutterChannel
  <2>7. CASE UNCHANGED vars
    <3>1. UNCHANGED <<shared, kernel, Written>>
      BY <2>7 DEF vars, Written
    <3> QED
      BY <3>1, StutterChannel
  <2> QED
    BY <2>1, <2>2, <2>3, <2>4, <2>5, <2>6, <2>7 DEF Next, User, Kernel
<1> QED
  BY <1>1, <1>2, SlotInvariant, PTL DEF Spec, ImplementsChannel, Channel!Spec
=============================================================================
