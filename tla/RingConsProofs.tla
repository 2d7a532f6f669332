--------------------------- MODULE RingConsProofs ---------------------------
(***************************************************************************)
(* Proofs about RingCons, for every Size, Modulus, Value and MaxBatch.      *)
(***************************************************************************)
EXTENDS RingCons, XskIndexProofs

-----------------------------------------------------------------------------
(* Types *)

\* A reader has no more entries left to read than it still holds.
ReaderOK == reader.remain <= reader.buffers

TypeInv == TypeOK /\ ReaderOK

\* NoReader is a reader, NoPeek a count_available.
LEMMA NoReaderType ==
  /\ NoReader \in [open : BOOLEAN, base : Index, buffers : Index, remain : Index, fresh : BOOLEAN]
  /\ NoReader.remain <= NoReader.buffers
  /\ NoPeek \in [active : BOOLEAN, nb : Batch, available : Index]
BY SizeFacts, RingConsAssumption DEF NoReader, NoPeek, Index, Batch

\* A batch is bounded by what is available.
LEMMA CountType ==
  ASSUME NEW available \in Index, NEW n \in Batch
  PROVE  /\ (IF available < 1 THEN 0 ELSE AtMost(available, n)) \in Index
         /\ (IF available < 1 THEN 0 ELSE AtMost(available, n)) <= available
BY SizeFacts, RingConsAssumption DEF AtMost, Index, Batch

\* What peek leaves behind when it does not overflow, and when it does.
LEMMA GrantType ==
  ASSUME TypeInv, NEW available \in Index, NEW n \in Batch, Grant(available, n)
  PROVE  /\ cachedConsumer' \in Index
         /\ handle' \in {"unmapped", "mapped", "panicked"}
         /\ reader' \in [open : BOOLEAN, base : Index, buffers : Index,
                         remain : Index, fresh : BOOLEAN]
         /\ reader'.remain <= reader'.buffers
<1> DEFINE count == IF available < 1 THEN 0 ELSE AtMost(available, n)
<1>1. count \in Index /\ 0 \in Index /\ count <= count
  BY CountType, SizeFacts DEF Index
<1>2. cachedConsumer \in Index /\ WAdd(cachedConsumer, count) \in Index
  BY <1>1, WrapType DEF TypeInv, TypeOK
<1> HIDE DEF count
<1>3. CASE /\ cachedConsumer' = WAdd(cachedConsumer, count)
           /\ reader' = NewIter(count, IF available < 1 THEN 0 ELSE cachedConsumer)
           /\ UNCHANGED handle
  BY <1>1, <1>2, <1>3 DEF TypeInv, TypeOK, NewIter
<1>4. CASE /\ handle' = "panicked"
           /\ UNCHANGED <<cachedConsumer, reader>>
  BY <1>2, <1>4 DEF TypeInv, TypeOK, ReaderOK
<1>5. QED
  BY <1>3, <1>4 DEF Grant, count

\* Init establishes the types.
LEMMA InitType == Init => TypeInv
<1> SUFFICES ASSUME Init PROVE TypeInv
  OBVIOUS
<1>1. 0 \in Index
  BY SizeFacts DEF Index
<1>2. desc \in [Slots -> Value]
  BY DEF Init
<1>3. QED
  BY <1>1, <1>2, NoReaderType DEF Init, TypeInv, TypeOK, ReaderOK

\* Every step preserves them.
LEMMA NextType == TypeInv /\ [Next]_vars => TypeInv'
<1> SUFFICES ASSUME TypeInv, [Next]_vars PROVE TypeInv'
  OBVIOUS
<1> USE DEF TypeInv, TypeOK, ReaderOK
<1>0. 0 \in Index /\ 1 \in Index
  BY SizeFacts DEF Index
<1>1. ASSUME Map PROVE TypeInv'
  BY <1>1 DEF Map, shared
<1>2. ASSUME Unmap PROVE TypeInv'
  BY <1>2 DEF Unmap, shared, cached
<1>3. ASSUME NEW n \in Batch, PeekCached(n) PROVE TypeInv'
  <2>1. CachedAvailable \in Index
    BY WrapType DEF CachedAvailable
  <2>2. QED
    BY <1>3, <2>1, GrantType DEF PeekCached, shared
<1>4. ASSUME NEW n \in Batch, PeekLoad(n) PROVE TypeInv'
  <2>1. WSub(producer, cachedConsumer) \in Index
    BY WrapType
  <2>2. QED
    BY <1>4, <2>1 DEF PeekLoad, shared, cached
<1>5. ASSUME PeekAcquire PROVE TypeInv'
  BY <1>5, GrantType, NoReaderType DEF PeekAcquire, shared
<1>6. ASSUME Read PROVE TypeInv'
  <2>1. Slot(reader.base) \in Slots
    BY SlotType DEF Slot, Index
  <2>2. WAdd(reader.base, 1) \in Index
    BY <1>0, WrapType
  <2>3. /\ reader.remain - 1 \in Index
        /\ reader.remain - 1 <= reader.buffers
    BY <1>6, SizeFacts DEF Read, CanRead, Index
  <2>4. observed' \in Value
    BY <1>6, <2>1 DEF Read
  <2>5. QED
    BY <1>6, <2>1, <2>2, <2>3, <2>4 DEF Read, Advance, shared, cached
<1>7. Taken \in Index /\ Taken <= reader.buffers
  BY SizeFacts DEF Taken, Index
<1>8. ASSUME Release PROVE TypeInv'
  <2>1. WAdd(consumer, Taken) \in Index /\ WAdd(reader.base, Taken) \in Index
    BY <1>7, WrapType
  <2>2. reader.remain <= reader.remain
    BY DEF Index
  <2>3. (reader.fresh /\ Taken = 0) \in BOOLEAN
    OBVIOUS
  <2>4. QED
    BY <1>8, <2>1, <2>2, <2>3 DEF Release, Publish, cached
<1>9. ASSUME ReleaseTraps PROVE TypeInv'
  <2>1. WAdd(consumer, Taken) \in Index /\ WSub(cachedConsumer, reader.remain) \in Index
    BY <1>7, WrapType
  <2>2. QED
    BY <1>9, <2>1, NoReaderType DEF ReleaseTraps, Publish, Cancel
<1>10. ASSUME DropReader PROVE TypeInv'
  <2>1. WSub(cachedConsumer, reader.buffers) \in Index
    BY WrapType
  <2>2. QED
    BY <1>10, <2>1, NoReaderType DEF DropReader, Cancel, shared
<1>11. ASSUME NEW v \in Value, KernelWrite(v) PROVE TypeInv'
  <2>1. WAdd(kernelTail, 1) \in Index
    BY <1>0, WrapType
  <2>2. QED
    BY <1>11, <2>1 DEF KernelWrite, cached
<1>12. ASSUME KernelPublish PROVE TypeInv'
  BY <1>12 DEF KernelPublish, cached
<1>13. ASSUME UNCHANGED vars PROVE TypeInv'
  BY <1>13 DEF vars, shared, cached
<1>14. QED
  BY <1>1, <1>2, <1>3, <1>4, <1>5, <1>6, <1>8, <1>9, <1>10, <1>11, <1>12, <1>13
     DEF Next, User, Kernel

\* Heads and BufIdx values stay u32 and a reader never has more entries left than
\* it holds, in every build and for every client.
THEOREM TypeCorrect == Spec => []TypeOK
<1>1. TypeInv => TypeOK
  BY DEF TypeInv
<1>2. QED
  BY <1>1, InitType, NextType, PTL DEF Spec

-----------------------------------------------------------------------------
(* The order of the heads *)

\* The distances between neighbouring heads, from the consumer head to the slot
\* the kernel writes next.
dPeeked    == WSub(cachedConsumer, consumer)
dAvailable == CachedAvailable
dPublished == WSub(producer, cachedProducer)
dWritten   == WSub(kernelTail, producer)

\* HeadOrder is not inductive: release and cancel move a head past its neighbour
\* unless the reader holds exactly what was peeked, and so does a peek whose first
\* load promised more than the second one finds.
OrderInv ==
  /\ TypeInv
  /\ HeadOrder
  /\ dPeeked = reader.buffers
  /\ reader.open => handle = "mapped" /\ ~peek.active
  /\ ~reader.open => reader.buffers = 0 /\ reader.remain = 0
  /\ peek.active => handle = "mapped" /\ peek.available <= WSub(producer, cachedConsumer)

\* The distances are numbers, and what count_available finds is all that the
\* kernel has published.
LEMMA DistanceType ==
  ASSUME OrderInv
  PROVE  /\ dPeeked \in Index /\ dAvailable \in Index
         /\ dPublished \in Index /\ dWritten \in Index
         /\ dPeeked \in Nat /\ dAvailable \in Nat /\ dPublished \in Nat /\ dWritten \in Nat
         /\ dPeeked + dAvailable + dPublished + dWritten <= Size
         /\ WSub(producer, cachedConsumer) = dAvailable + dPublished
         /\ WSub(producer, consumer) = dPeeked + dAvailable + dPublished
<1>1. /\ dPeeked \in Index /\ dAvailable \in Index
      /\ dPublished \in Index /\ dWritten \in Index
  BY WrapType
     DEF OrderInv, TypeInv, TypeOK, dPeeked, dAvailable, dPublished, dWritten, CachedAvailable
<1>2. dPeeked \in Nat /\ dAvailable \in Nat /\ dPublished \in Nat /\ dWritten \in Nat
  BY <1>1, SizeFacts DEF Index
<1>3. dPeeked + dAvailable + dPublished + dWritten <= Size
  BY DEF OrderInv, HeadOrder, dPeeked, dAvailable, dPublished, dWritten, CachedAvailable
<1>4. /\ producer \in Index /\ consumer \in Index
      /\ cachedProducer \in Index /\ cachedConsumer \in Index
  BY DEF OrderInv, TypeInv, TypeOK
<1>5. WSub(producer, cachedConsumer) = dAvailable + dPublished
  <2>1. WSub(cachedProducer, cachedConsumer) + WSub(producer, cachedProducer) < Modulus
    BY <1>2, <1>3, SizeFacts DEF dAvailable, dPublished, CachedAvailable
  <2>2. QED
    BY <1>4, <2>1, DistanceSum DEF dAvailable, dPublished, CachedAvailable
<1>6. WSub(producer, consumer) = dPeeked + dAvailable + dPublished
  <2>1. WSub(cachedConsumer, consumer) + WSub(producer, cachedConsumer) < Modulus
    BY <1>2, <1>3, <1>5, SizeFacts DEF dPeeked
  <2>2. WSub(producer, consumer)
          = WSub(cachedConsumer, consumer) + WSub(producer, cachedConsumer)
    BY <1>4, <2>1, DistanceSum
  <2>3. QED
    BY <1>2, <1>5, <2>2 DEF dPeeked
<1>7. QED
  BY <1>1, <1>2, <1>3, <1>5, <1>6

\* HeadOrder of the next state, in terms of the distances.
LEMMA OrderSum ==
  HeadOrder' <=> dPeeked' + dAvailable' + dPublished' + dWritten' <= Size
BY DEF HeadOrder, dPeeked, dAvailable, dPublished, dWritten, CachedAvailable

\* All heads start at zero.
LEMMA InitOrder == Init => OrderInv
<1> SUFFICES ASSUME Init PROVE OrderInv
  OBVIOUS
<1>1. TypeInv
  BY InitType
<1>2. WSub(0, 0) = 0
  BY SizeFacts DEF WSub
<1>3. HeadOrder /\ dPeeked = 0
  BY <1>2, SizeFacts DEF Init, HeadOrder, dPeeked
<1>4. QED
  BY <1>1, <1>3 DEF OrderInv, Init, NoReader, NoPeek

\* peek keeps the order when it is not promised more than the cached producer head
\* covers.
LEMMA GrantOrder ==
  ASSUME OrderInv, ~reader.open,
         NEW available \in Index, NEW n \in Batch, Grant(available, n),
         UNCHANGED <<producer, consumer, kernelTail>>,
         cachedProducer' \in Index,
         available <= WSub(cachedProducer', cachedConsumer),
         WSub(cachedProducer', cachedConsumer) + WSub(producer, cachedProducer')
           = dAvailable + dPublished
  PROVE  HeadOrder' /\ dPeeked' = reader'.buffers
<1> DEFINE count == IF available < 1 THEN 0 ELSE AtMost(available, n)
           ahead == WSub(cachedProducer', cachedConsumer)
           beyond == WSub(producer, cachedProducer')
<1>1. count \in Index /\ count \in Nat /\ count <= available /\ available \in Nat
  BY CountType, SizeFacts DEF Index
<1>2. /\ producer \in Index /\ consumer \in Index /\ cachedConsumer \in Index
  BY DEF OrderInv, TypeInv, TypeOK
<1>3. ahead \in Index /\ ahead \in Nat /\ beyond \in Index /\ beyond \in Nat
  BY <1>2, WrapType, SizeFacts DEF Index
<1>4. /\ dPeeked = 0 /\ reader.buffers = 0
      /\ ahead + beyond + dWritten <= Size
      /\ dWritten' = dWritten /\ dPublished' = beyond
  <2>1. dPeeked = 0 /\ reader.buffers = 0
    BY DEF OrderInv
  <2>2. ahead + beyond + dWritten <= Size
    BY <2>1, DistanceType
  <2>3. QED
    BY <2>1, <2>2 DEF dWritten, dPublished
<1> HIDE DEF count
<1>5. CASE cachedConsumer' = WAdd(cachedConsumer, count) /\ reader'.buffers = count
  <2>1. count <= ahead /\ count < Modulus
    BY <1>1, <1>3, SizeFacts DEF Index
  <2>2. dPeeked' = count
    <3>1. WSub(WAdd(cachedConsumer, count), consumer) = dPeeked + count
      BY <1>1, <1>2, <1>4, <2>1, DistanceOfAdd DEF dPeeked
    <3>2. QED
      BY <1>1, <1>4, <1>5, <3>1 DEF dPeeked
  <2>3. dAvailable' = ahead - count
    BY <1>1, <1>2, <1>5, <2>1, DistanceAfterAdd DEF dAvailable, CachedAvailable
  <2>4. QED
    BY <1>1, <1>3, <1>4, <1>5, <2>2, <2>3, DistanceType, OrderSum
<1>6. CASE UNCHANGED <<cachedConsumer, reader>>
  <2>1. dPeeked' = 0 /\ dAvailable' = ahead
    BY <1>4, <1>6 DEF dPeeked, dAvailable, CachedAvailable
  <2>2. QED
    BY <1>3, <1>4, <1>6, <2>1, DistanceType, OrderSum
<1>7. QED
  BY <1>5, <1>6 DEF Grant, NewIter, count

\* Returning entries, and giving the rest back to be peeked again.
LEMMA ReleaseOrder ==
  ASSUME OrderInv, Release \/ ReleaseTraps \/ DropReader
  PROVE  HeadOrder' /\ dPeeked' = reader'.buffers
<1>1. /\ TypeOK /\ dPeeked = reader.buffers /\ reader.remain <= reader.buffers
  BY DEF OrderInv, TypeInv, ReaderOK
<1>2. /\ Taken \in Index /\ Taken \in Nat
      /\ reader.remain \in Index /\ reader.remain \in Nat
      /\ Taken = dPeeked - reader.remain
  BY <1>1, SizeFacts DEF TypeOK, Taken, Index
<1>3. /\ consumer \in Index /\ cachedConsumer \in Index /\ cachedProducer \in Index
  BY <1>1 DEF TypeOK
<1>4. UNCHANGED <<producer, cachedProducer, kernelTail>>
  BY DEF Release, ReleaseTraps, DropReader, cached, shared
<1>5. dPublished' = dPublished /\ dWritten' = dWritten
  BY <1>4 DEF dPublished, dWritten
<1>6. /\ WSub(cachedConsumer, WAdd(consumer, Taken)) = reader.remain
      /\ WAdd(consumer, Taken) \in Index
  <2>1. WSub(cachedConsumer, WAdd(consumer, Taken)) = dPeeked - Taken
    BY <1>1, <1>2, <1>3, DistanceType, DistanceAfterAdd DEF dPeeked
  <2>2. QED
    BY <1>2, <1>3, <2>1, DistanceType, WrapType
<1>7. CASE Release
  <2>1. /\ UNCHANGED cachedConsumer
        /\ consumer' = WAdd(consumer, Taken)
        /\ reader'.buffers = reader.remain
    BY <1>1, <1>7 DEF Release, Publish, cached, TypeOK
  <2>2. dPeeked' = reader.remain /\ dAvailable' = dAvailable
    BY <1>4, <1>6, <2>1 DEF dPeeked, dAvailable, CachedAvailable
  <2>3. dPeeked' + dAvailable' + dPublished' + dWritten' <= Size
    BY <1>2, <1>5, <2>2, DistanceType, SizeFacts
  <2>4. QED
    BY <2>1, <2>2, <2>3, OrderSum
<1>8. CASE ReleaseTraps
  <2>1. /\ cachedConsumer' = WSub(cachedConsumer, reader.remain)
        /\ consumer' = WAdd(consumer, Taken)
        /\ reader'.buffers = 0
    BY <1>8 DEF ReleaseTraps, Publish, Cancel, NoReader
  <2>2. dPeeked' = 0
    <3>1. WSub(WSub(cachedConsumer, reader.remain), WAdd(consumer, Taken))
            = WSub(cachedConsumer, WAdd(consumer, Taken)) - reader.remain
      <4>1. reader.remain <= WSub(cachedConsumer, WAdd(consumer, Taken))
        BY <1>2, <1>6
      <4>2. QED
        BY <1>2, <1>3, <1>6, <4>1, DistanceOfSub
    <3>2. QED
      BY <1>2, <1>6, <2>1, <3>1 DEF dPeeked
  <2>3. dAvailable' = dAvailable + reader.remain
    <3>1. dAvailable + reader.remain < Modulus
      BY <1>1, <1>2, DistanceType, SizeFacts
    <3>2. QED
      BY <1>2, <1>3, <1>4, <2>1, <3>1, DistanceAfterSub DEF dAvailable, CachedAvailable
  <2>4. dPeeked' + dAvailable' + dPublished' + dWritten' <= Size
    BY <1>2, <1>5, <2>2, <2>3, DistanceType, SizeFacts
  <2>5. QED
    BY <2>1, <2>2, <2>4, OrderSum
<1>9. CASE DropReader
  <2>1. /\ cachedConsumer' = WSub(cachedConsumer, dPeeked)
        /\ consumer' = consumer
        /\ reader'.buffers = 0
    BY <1>1, <1>9 DEF DropReader, Cancel, NoReader, shared
  <2>2. dPeeked' = 0
    <3>1. WSub(WSub(cachedConsumer, dPeeked), consumer) = dPeeked - dPeeked
      BY <1>3, DistanceType, DistanceOfSub DEF dPeeked
    <3>2. QED
      BY <2>1, <3>1, DistanceType DEF dPeeked
  <2>3. dAvailable' = dAvailable + dPeeked
    <3>1. dAvailable + dPeeked < Modulus
      BY DistanceType, SizeFacts
    <3>2. WSub(cachedProducer, WSub(cachedConsumer, dPeeked)) = dAvailable + dPeeked
      BY <1>3, <3>1, DistanceType, DistanceAfterSub DEF dAvailable, CachedAvailable
    <3>3. QED
      BY <1>4, <2>1, <3>2 DEF dAvailable, CachedAvailable
  <2>4. QED
    BY <1>5, <2>1, <2>2, <2>3, DistanceType, OrderSum
<1>10. QED
  BY <1>7, <1>8, <1>9

\* The kernel writes what user space has given back and publishes what it wrote.
LEMMA KernelOrder ==
  ASSUME OrderInv, Kernel
  PROVE  /\ HeadOrder' /\ dPeeked' = reader'.buffers
         /\ WSub(producer, cachedConsumer) <= WSub(producer', cachedConsumer')
<1>1. /\ producer \in Index /\ consumer \in Index /\ kernelTail \in Index
      /\ cachedProducer \in Index /\ cachedConsumer \in Index /\ 1 \in Index
  BY SizeFacts DEF OrderInv, TypeInv, TypeOK, Index
<1>2. UNCHANGED <<consumer, cachedProducer, cachedConsumer, reader>>
  BY DEF Kernel, KernelPublish, KernelWrite, cached
<1>3. dPeeked' = dPeeked /\ dAvailable' = dAvailable /\ dPeeked' = reader'.buffers
  BY <1>2 DEF OrderInv, dPeeked, dAvailable, CachedAvailable
<1>4. CASE KernelPublish
  <2>1. producer' = kernelTail /\ UNCHANGED kernelTail
    BY <1>4 DEF KernelPublish
  <2>2. dPublished' = dPublished + dWritten
    <3>1. WSub(kernelTail, cachedProducer) = dPublished + dWritten
      BY <1>1, DistanceType, DistanceSum, SizeFacts DEF dPublished, dWritten
    <3>2. QED
      BY <1>2, <2>1, <3>1 DEF dPublished
  <2>3. dWritten' = 0
    BY <1>1, <2>1, AddSub DEF dWritten
  <2>4. WSub(kernelTail, cachedConsumer) = dAvailable + dPublished + dWritten
    <3>1. WSub(producer, cachedConsumer) + WSub(kernelTail, producer) < Modulus
      BY DistanceType, SizeFacts DEF dWritten
    <3>2. QED
      BY <1>1, <3>1, DistanceType, DistanceSum DEF dWritten
  <2>5. dPeeked' + dAvailable' + dPublished' + dWritten' <= Size
    BY <1>3, <2>2, <2>3, DistanceType
  <2>6. QED
    BY <1>2, <1>3, <2>1, <2>4, <2>5, DistanceType, OrderSum
<1>5. CASE \E v \in Value : KernelWrite(v)
  <2>1. /\ WSub(kernelTail, consumer) < Size
        /\ kernelTail' = WAdd(kernelTail, 1) /\ UNCHANGED producer
    BY <1>5 DEF KernelWrite
  <2>2. WSub(kernelTail, consumer) = dPeeked + dAvailable + dPublished + dWritten
    <3>1. WSub(producer, consumer) + WSub(kernelTail, producer) < Modulus
      BY DistanceType, SizeFacts DEF dWritten
    <3>2. QED
      BY <1>1, <3>1, DistanceType, DistanceSum DEF dWritten
  <2>3. dWritten' = dWritten + 1
    <3>1. dWritten + 1 < Modulus
      BY <2>1, <2>2, DistanceType, SizeFacts
    <3>2. QED
      BY <1>1, <2>1, <3>1, DistanceOfAdd DEF dWritten
  <2>4. dPublished' = dPublished
    BY <1>2, <2>1 DEF dPublished
  <2>5. dPeeked' + dAvailable' + dPublished' + dWritten' <= Size
    <3>1. dPeeked + dAvailable + dPublished + dWritten < Size
      BY <2>1, <2>2
    <3>2. dPeeked + dAvailable + dPublished + (dWritten + 1) <= Size
      BY <3>1, DistanceType, SizeFacts
    <3>3. QED
      BY <1>3, <2>3, <2>4, <3>2
  <2>6. QED
    BY <1>2, <1>3, <2>1, <2>5, DistanceType, OrderSum
<1>6. QED
  BY <1>4, <1>5 DEF Kernel

\* Every step keeps the heads in order: whatever the kernel does between the two
\* loads of count_available, and whenever the ring was mapped.
LEMMA NextOrder == OrderInv /\ [Next]_vars => OrderInv'
<1> SUFFICES ASSUME OrderInv, [Next]_vars PROVE OrderInv'
  OBVIOUS
<1> DEFINE ClientInv ==
      /\ reader.open => handle = "mapped" /\ ~peek.active
      /\ ~reader.open => reader.buffers = 0 /\ reader.remain = 0
      /\ peek.active => handle = "mapped" /\ peek.available <= WSub(producer, cachedConsumer)
    Goal == HeadOrder' /\ dPeeked' = reader'.buffers /\ ClientInv'
<1>1. TypeInv'
  BY NextType DEF OrderInv
<1>2. /\ TypeInv /\ TypeOK /\ ClientInv
      /\ dPeeked = reader.buffers /\ HeadOrder
  BY DEF OrderInv, TypeInv
<1>3. SUFFICES Goal
  BY <1>1 DEF OrderInv
<1>4. /\ producer \in Index /\ consumer \in Index
      /\ cachedProducer \in Index /\ cachedConsumer \in Index
  BY <1>2 DEF TypeOK
<1>5. ASSUME Map PROVE Goal
  <2>1. /\ cachedProducer' = producer /\ cachedConsumer' = consumer
        /\ UNCHANGED <<producer, consumer, kernelTail, peek, reader>>
        /\ handle = "unmapped"
    BY <1>5 DEF Map, shared
  <2>2. ~reader.open /\ dPeeked = 0
    BY <1>2, <2>1
  <2>3. consumer = cachedConsumer
    BY <1>4, <2>2, AddDistance DEF dPeeked
  <2>4. /\ dPeeked' = 0 /\ dPublished' = 0 /\ dWritten' = dWritten
        /\ dAvailable' = dAvailable + dPublished
    <3>1. WSub(consumer, consumer) = 0 /\ WSub(producer, producer) = 0
      BY <1>4, AddSub
    <3>2. WSub(producer, consumer) = dAvailable + dPublished
      BY <2>3, DistanceType
    <3>3. QED
      BY <2>1, <3>1, <3>2 DEF dPeeked, dPublished, dWritten, dAvailable, CachedAvailable
  <2>5. HeadOrder'
    BY <2>2, <2>4, DistanceType, OrderSum
  <2>6. ClientInv'
    BY <1>2, <2>1, <2>2, <2>3
  <2>7. QED
    BY <1>2, <2>1, <2>2, <2>4, <2>5, <2>6
<1>6. ASSUME UNCHANGED <<shared, cached, peek, kernelTail>>,
             reader' = reader \/ (reader.open /\ reader'.open /\ reader'.buffers = reader.buffers),
             handle' = handle \/ (~reader.open /\ ~peek.active)
      PROVE  Goal
  BY <1>2, <1>6 DEF HeadOrder, dPeeked, shared, cached
<1>7. ASSUME Unmap PROVE Goal
  <2>1. /\ UNCHANGED <<shared, cached, peek, kernelTail>> /\ reader' = reader
        /\ ~reader.open /\ ~peek.active
    BY <1>7 DEF Unmap, Idle
  <2>2. QED
    BY <1>6, <2>1
<1>8. ASSUME NEW n \in Batch, PeekCached(n) PROVE Goal
  <2>1. /\ ~reader.open /\ ~peek.active /\ handle = "mapped" /\ Grant(CachedAvailable, n)
        /\ UNCHANGED <<producer, consumer, cachedProducer, kernelTail, peek>>
    BY <1>8 DEF PeekCached, Idle, shared
  <2>2. HeadOrder' /\ dPeeked' = reader'.buffers
    <3>1. /\ CachedAvailable \in Index /\ CachedAvailable <= CachedAvailable
          /\ WSub(cachedProducer', cachedConsumer) = CachedAvailable
          /\ WSub(producer, cachedProducer') = dPublished
      BY <2>1, DistanceType DEF dAvailable, dPublished, CachedAvailable
    <3>2. QED
      BY <1>4, <2>1, <3>1, GrantOrder DEF dAvailable
  <2>3. ClientInv'
    BY <1>2, <2>1 DEF Grant, NewIter
  <2>4. QED
    BY <2>2, <2>3
<1>9. ASSUME NEW n \in Batch, PeekLoad(n) PROVE Goal
  <2>1. /\ UNCHANGED <<producer, consumer, cachedProducer, cachedConsumer, kernelTail, reader>>
        /\ ~reader.open /\ peek'.available = WSub(producer, cachedConsumer)
        /\ handle' = "mapped"
    BY <1>9 DEF PeekLoad, Idle, shared, cached
  <2>2. WSub(producer, cachedConsumer) <= WSub(producer, cachedConsumer)
    BY DistanceType
  <2>3. ClientInv'
    BY <1>2, <2>1, <2>2
  <2>4. QED
    BY <1>2, <2>1, <2>3 DEF HeadOrder, dPeeked
<1>10. ASSUME PeekAcquire PROVE Goal
  <2>1. /\ peek.active /\ ~reader.open /\ ~peek'.active
        /\ Grant(peek.available, peek.nb) /\ cachedProducer' = producer
        /\ UNCHANGED <<producer, consumer, kernelTail>>
    BY <1>2, <1>10 DEF PeekAcquire, NoPeek, shared
  <2>2. peek.available \in Index /\ peek.nb \in Batch
    BY <1>2 DEF TypeOK
  <2>3. /\ peek.available <= WSub(producer, cachedConsumer)
        /\ WSub(producer, cachedConsumer) + WSub(producer, producer) = dAvailable + dPublished
    BY <1>2, <1>4, <2>1, AddSub, DistanceType
  <2>4. HeadOrder' /\ dPeeked' = reader'.buffers
    BY <1>4, <2>1, <2>2, <2>3, GrantOrder
  <2>5. ClientInv'
    BY <1>2, <2>1 DEF Grant, NewIter
  <2>6. QED
    BY <2>4, <2>5
<1>11. ASSUME Read PROVE Goal
  <2>1. /\ UNCHANGED <<shared, cached, peek, kernelTail>> /\ handle' = handle
        /\ reader.open /\ reader'.open /\ reader'.buffers = reader.buffers
    BY <1>2, <1>11 DEF Read, CanRead, Advance, TypeOK
  <2>2. QED
    BY <1>6, <2>1
<1>12. ASSUME Release PROVE Goal
  <2>1. reader.open /\ reader'.open /\ UNCHANGED <<handle, peek>>
    BY <1>2, <1>12 DEF Release, TypeOK
  <2>2. QED
    BY <1>2, <1>12, <2>1, ReleaseOrder
<1>13. ASSUME ReleaseTraps \/ DropReader PROVE Goal
  <2>1. /\ ~reader'.open /\ reader'.buffers = 0 /\ reader'.remain = 0
        /\ UNCHANGED peek /\ ~peek.active
    BY <1>2, <1>13 DEF ReleaseTraps, DropReader, NoReader
  <2>2. QED
    BY <1>13, <2>1, ReleaseOrder
<1>14. ASSUME Kernel PROVE Goal
  <2>1. UNCHANGED <<handle, peek, reader>>
    BY <1>14 DEF Kernel, KernelPublish, KernelWrite
  <2>2. peek.available \in Nat
    BY <1>2, SizeFacts DEF TypeOK, Index
  <2>3. ClientInv'
    <3>1. ASSUME peek.active PROVE peek.available <= WSub(producer', cachedConsumer')
      <4>1. /\ WSub(producer, cachedConsumer) \in Nat
            /\ WSub(producer', cachedConsumer') \in Nat
        <5>1. producer' \in Index /\ cachedConsumer' \in Index
          BY <1>1 DEF TypeInv, TypeOK
        <5>2. WSub(producer, cachedConsumer) \in Index /\ WSub(producer', cachedConsumer') \in Index
          BY <1>4, <5>1, WrapType
        <5>3. QED
          BY <5>2, SizeFacts DEF Index
      <4>2. QED
        BY <1>2, <1>14, <2>2, <3>1, <4>1, KernelOrder
    <3>2. QED
      BY <1>2, <2>1, <3>1
  <2>4. QED
    BY <1>14, <2>3, KernelOrder
<1>15. ASSUME UNCHANGED vars PROVE Goal
  <2>1. UNCHANGED <<shared, cached, peek, kernelTail>> /\ reader' = reader /\ handle' = handle
    BY <1>15 DEF vars
  <2>2. QED
    BY <1>6, <2>1
<1>16. QED
  BY <1>5, <1>7, <1>8, <1>9, <1>10, <1>11, <1>12, <1>13, <1>14, <1>15 DEF Next, User

\* The heads of a consumer ring keep their order, for every client: reused readers,
\* rings mapped while the kernel writes them, both kinds of builds.
THEOREM HeadOrderHolds == Spec => []HeadOrder
<1>1. OrderInv => HeadOrder
  BY DEF OrderInv
<1>2. QED
  BY <1>1, InitOrder, NextOrder, PTL DEF Spec

-----------------------------------------------------------------------------
(* The slots that are read *)

\* A fresh reader's next entry comes Taken entries after the consumer head, and
\* nothing that is read before its release is a slot the kernel may write.
ReadInv ==
  /\ OrderInv
  /\ reader.fresh /\ reader.buffers > 0 => reader.base = WAdd(consumer, Taken)
  /\ ReleasedOrdered

\* The slots the kernel may write.
dFree == Size - WSub(kernelTail, consumer)

\* The other slots are those a reader has taken or is still to read, then those known
\* to be available, published and written.
LEMMA ReadFacts ==
  ASSUME OrderInv
  PROVE  /\ Taken \in Nat /\ Taken \in Index
         /\ reader.remain \in Nat /\ Taken + reader.remain = dPeeked
         /\ WSub(cachedProducer, consumer) = dPeeked + dAvailable
         /\ WSub(kernelTail, consumer) = dPeeked + dAvailable + dPublished + dWritten
         /\ dFree \in Nat
<1>1. /\ TypeOK /\ dPeeked = reader.buffers /\ reader.remain <= reader.buffers
  BY DEF OrderInv, TypeInv, ReaderOK
<1>2. /\ consumer \in Index /\ cachedConsumer \in Index /\ cachedProducer \in Index
      /\ producer \in Index /\ kernelTail \in Index
      /\ reader.remain \in Index /\ reader.buffers \in Index
  BY <1>1 DEF TypeOK
<1>3. /\ Taken \in Nat /\ Taken \in Index
      /\ reader.remain \in Nat /\ Taken + reader.remain = dPeeked
  BY <1>1, <1>2, SizeFacts DEF Taken, Index
<1>4. WSub(cachedProducer, consumer) = dPeeked + dAvailable
  <2>1. WSub(cachedConsumer, consumer) + WSub(cachedProducer, cachedConsumer) < Modulus
    BY DistanceType, SizeFacts DEF dPeeked, dAvailable, CachedAvailable
  <2>2. QED
    BY <1>2, <2>1, DistanceSum DEF dPeeked, dAvailable, CachedAvailable
<1>5. WSub(kernelTail, consumer) = dPeeked + dAvailable + dPublished + dWritten
  <2>1. WSub(producer, consumer) + WSub(kernelTail, producer) < Modulus
    BY DistanceType, SizeFacts DEF dWritten
  <2>2. QED
    BY <1>2, <2>1, DistanceType, DistanceSum DEF dWritten
<1>6. dFree \in Nat
  BY <1>5, DistanceType, SizeFacts DEF dFree
<1>7. QED
  BY <1>3, <1>4, <1>5, <1>6

\* Where a reader that may be read through reads next.
LEMMA BaseOfReader ==
  ASSUME ReuseReader = FALSE, ReadInv, CanRead
  PROVE  reader.base = WAdd(consumer, Taken) /\ reader.fresh /\ reader.buffers > 0
<1>1. reader.fresh /\ reader.remain > 0
  BY DEF CanRead
<1>2. reader.buffers > 0
  BY <1>1, SizeFacts DEF ReadInv, OrderInv, TypeInv, TypeOK, ReaderOK, Index
<1>3. QED
  BY <1>1, <1>2 DEF ReadInv

\* The slots a reader is going to read are none of the kernel's.
LEMMA NotOverwrittenStep ==
  ASSUME ReuseReader = FALSE, ReadInv
  PROVE  PeekedNotOverwritten
<1> SUFFICES ASSUME CanRead
             PROVE  Window(reader.base, reader.remain) \intersect Window(kernelTail, dFree) = {}
  BY DEF PeekedNotOverwritten, dFree
<1> DEFINE d == reader.remain + dAvailable + dPublished + dWritten
<1>1. OrderInv /\ TypeOK
  BY DEF ReadInv, OrderInv, TypeInv
<1>2. /\ consumer \in Index /\ kernelTail \in Index /\ reader.base \in Index
      /\ Taken \in Index /\ reader.remain \in Nat /\ dFree \in Nat
      /\ d \in Nat /\ reader.remain <= d /\ Taken \in Nat
  BY <1>1, ReadFacts, DistanceType DEF TypeOK
<1>3. WSub(kernelTail, consumer) = Taken + d
  BY <1>1, ReadFacts, DistanceType
<1>4. d + dFree <= Size /\ Taken <= WSub(kernelTail, consumer)
  BY <1>2, <1>3, SizeFacts DEF dFree
<1> HIDE DEF d
<1>5. WSub(kernelTail, reader.base) = d
  <2>1. WSub(kernelTail, WAdd(consumer, Taken)) = WSub(kernelTail, consumer) - Taken
    BY <1>2, <1>4, DistanceAfterAdd
  <2>2. reader.base = WAdd(consumer, Taken)
    BY BaseOfReader
  <2>3. QED
    BY <1>2, <1>3, <2>1, <2>2
<1>6. WAdd(reader.base, d) = kernelTail
  <2>1. WAdd(reader.base, WSub(kernelTail, reader.base)) = kernelTail
    BY <1>2, AddDistance
  <2>2. QED
    BY <1>5, <2>1
<1>7. Window(reader.base, reader.remain) \intersect Window(WAdd(reader.base, d), dFree) = {}
  BY <1>2, <1>4, WindowsDisjoint
<1>8. QED
  BY <1>6, <1>7

\* There is no reader and nothing read at first.
LEMMA InitRead == Init => ReadInv
<1> SUFFICES ASSUME Init PROVE ReadInv
  OBVIOUS
<1>1. OrderInv
  BY InitOrder
<1>2. QED
  BY <1>1 DEF ReadInv, ReleasedOrdered, Init, NoReader

\* peek opens a reader at the cached consumer head, which is where the consumer head
\* is while no reader is open.
LEMMA GrantBase ==
  ASSUME ReadInv, ~reader.open, UNCHANGED consumer,
         NEW available \in Index, NEW n \in Batch, Grant(available, n)
  PROVE  reader'.buffers > 0 => reader'.base = WAdd(consumer', Taken')
<1> DEFINE count == IF available < 1 THEN 0 ELSE AtMost(available, n)
<1> SUFFICES ASSUME reader'.buffers > 0 PROVE reader'.base = WAdd(consumer', Taken')
  OBVIOUS
<1>1. /\ OrderInv /\ reader.buffers = 0 /\ dPeeked = 0
      /\ consumer \in Index /\ cachedConsumer \in Index
  BY DEF ReadInv, OrderInv, TypeInv, TypeOK
<1>2. consumer = cachedConsumer
  BY <1>1, AddDistance DEF dPeeked
<1>3. count \in Index /\ count \in Nat
  BY CountType, SizeFacts DEF Index
<1>4. reader' = NewIter(count, IF available < 1 THEN 0 ELSE cachedConsumer)
  BY <1>1 DEF Grant
<1>5. reader'.buffers = count /\ reader'.remain = count /\ count > 0
  BY <1>4 DEF NewIter
<1>6. reader'.base = cachedConsumer
  BY <1>3, <1>4, <1>5 DEF NewIter
<1> HIDE DEF count
<1>7. Taken' = 0
  BY <1>3, <1>5 DEF Taken
<1>8. QED
  BY <1>1, <1>2, <1>6, <1>7, AddDistance

\* Every step keeps base where the client's entries are.
LEMMA NextBase ==
  ASSUME ReuseReader = FALSE, ReadInv, [Next]_vars
  PROVE  reader'.fresh /\ reader'.buffers > 0 => reader'.base = WAdd(consumer', Taken')
<1> DEFINE Goal == reader'.fresh /\ reader'.buffers > 0
                     => reader'.base = WAdd(consumer', Taken')
<1>1. OrderInv /\ TypeOK
  BY DEF ReadInv, OrderInv, TypeInv
<1>2. /\ consumer \in Index /\ reader.base \in Index
      /\ Taken \in Nat /\ Taken \in Index /\ 1 \in Index
  BY <1>1, ReadFacts, SizeFacts DEF TypeOK, Index
<1>3. CASE UNCHANGED <<consumer, reader>>
  BY <1>3 DEF ReadInv, Taken
<1>4. ASSUME NEW n \in Batch, PeekCached(n) PROVE Goal
  <2>1. /\ ~reader.open /\ UNCHANGED consumer /\ Grant(CachedAvailable, n)
        /\ CachedAvailable \in Index
    BY <1>1, <1>4, DistanceType DEF PeekCached, Idle, shared, dAvailable
  <2>2. QED
    BY <2>1, GrantBase
<1>5. ASSUME PeekAcquire PROVE Goal
  <2>1. /\ ~reader.open /\ UNCHANGED consumer /\ Grant(peek.available, peek.nb)
        /\ peek.available \in Index /\ peek.nb \in Batch
    BY <1>1, <1>5 DEF PeekAcquire, shared, OrderInv, TypeOK
  <2>2. QED
    BY <2>1, GrantBase
<1>6. ASSUME Read PROVE Goal
  <2>1. /\ CanRead /\ reader'.base = WAdd(reader.base, 1) /\ reader'.buffers = reader.buffers
        /\ reader'.remain = reader.remain - 1 /\ consumer' = consumer
    BY <1>1, <1>6 DEF Read, Advance, TypeOK, shared
  <2>2. reader.base = WAdd(consumer, Taken) /\ reader.remain > 0
    BY <2>1, BaseOfReader DEF CanRead
  <2>3. reader.remain \in Nat /\ reader.buffers \in Nat /\ reader.buffers = dPeeked
    BY <1>1, SizeFacts DEF TypeOK, OrderInv, Index
  <2>4. Taken' = Taken + 1
    BY <2>1, <2>3 DEF Taken
  <2>5. Taken + 1 < Modulus
    BY <1>1, <2>2, ReadFacts, DistanceType, SizeFacts
  <2>6. QED
    BY <1>2, <2>1, <2>2, <2>4, <2>5, AddAdd
<1>7. ASSUME Release PROVE Goal
  <2> SUFFICES ASSUME reader'.fresh, reader'.buffers > 0
               PROVE  reader'.base = WAdd(consumer', Taken')
    OBVIOUS
  <2>1. /\ reader.fresh /\ Taken = 0 /\ reader.buffers > 0
        /\ reader'.base = WAdd(reader.base, Taken)
        /\ reader'.buffers = reader.remain /\ reader'.remain = reader.remain
        /\ consumer' = WAdd(consumer, Taken)
    BY <1>1, <1>7 DEF Release, Publish, TypeOK
  <2>2. Taken' = 0
    BY <1>1, <2>1, ReadFacts DEF Taken
  <2>3. reader.base = WAdd(consumer, Taken)
    BY <2>1 DEF ReadInv
  <2>4. QED
    BY <1>2, <2>1, <2>2, <2>3, AddDistance
<1>8. CASE ReleaseTraps \/ DropReader
  BY <1>8 DEF ReleaseTraps, DropReader, NoReader
<1>9. CASE Map \/ Unmap \/ (\E n \in Batch : PeekLoad(n)) \/ Kernel \/ UNCHANGED vars
  BY <1>3, <1>9
     DEF Map, Unmap, PeekLoad, Kernel, KernelWrite, KernelPublish, vars, shared
<1>10. QED
  BY <1>4, <1>5, <1>6, <1>7, <1>8, <1>9 DEF Next, User

\* Every step keeps unordered reads away from what the kernel may write.
LEMMA NextReleased ==
  ASSUME ReuseReader = FALSE, ReadInv, [Next]_vars
  PROVE  ReleasedOrdered'
<1>1. OrderInv /\ TypeOK
  BY DEF ReadInv, OrderInv, TypeInv
<1>2. Window(kernelTail, dFree) \intersect unordered = {}
  BY DEF ReadInv, ReleasedOrdered, dFree
<1>3. SUFFICES Window(kernelTail', dFree') \intersect unordered' = {}
  BY DEF ReleasedOrdered, dFree
<1>4. CASE UNCHANGED <<consumer, kernelTail, unordered>>
  BY <1>2, <1>4 DEF dFree
<1>5. ASSUME Read PROVE Window(kernelTail', dFree') \intersect unordered' = {}
  <2>1. /\ CanRead /\ unordered' = unordered \union {Slot(reader.base)}
        /\ UNCHANGED <<consumer, kernelTail>>
    BY <1>5 DEF Read, shared
  <2>2. Slot(reader.base) \in Window(reader.base, reader.remain)
    <3>1. 0 \in 0 .. reader.remain - 1
      BY <1>1, <2>1, ReadFacts DEF CanRead
    <3>2. WAdd(reader.base, 0) = reader.base
      BY <1>1, AddDistance DEF TypeOK
    <3>3. QED
      BY <3>1, <3>2 DEF Window
  <2>3. Window(reader.base, reader.remain) \intersect Window(kernelTail, dFree) = {}
    BY <2>1, NotOverwrittenStep DEF PeekedNotOverwritten, dFree
  <2>4. dFree' = dFree
    BY <2>1 DEF dFree
  <2>5. QED
    BY <1>2, <2>1, <2>2, <2>3, <2>4
<1>6. ASSUME NEW v \in Value, KernelWrite(v)
      PROVE  Window(kernelTail', dFree') \intersect unordered' = {}
  <2>1. /\ kernelTail' = WAdd(kernelTail, 1) /\ WSub(kernelTail, consumer) < Size
        /\ UNCHANGED <<consumer, unordered>>
    BY <1>6 DEF KernelWrite
  <2>2. /\ kernelTail \in Index /\ consumer \in Index /\ 1 \in Index
        /\ WSub(kernelTail, consumer) \in Nat /\ WSub(kernelTail, consumer) + 1 < Modulus
    BY <1>1, <2>1, ReadFacts, DistanceType, SizeFacts DEF TypeOK, Index
  <2>3. WSub(WAdd(kernelTail, 1), consumer) = WSub(kernelTail, consumer) + 1
    BY <2>2, DistanceOfAdd
  <2>4. dFree' = dFree - 1 /\ dFree - 1 \in Nat /\ 1 + (dFree - 1) = dFree /\ dFree < Modulus
    BY <2>1, <2>2, <2>3, SizeFacts DEF dFree
  <2>5. Window(WAdd(kernelTail, 1), dFree - 1) \subseteq Window(kernelTail, dFree)
    BY <2>2, <2>4, WindowEnd
  <2>6. QED
    BY <1>2, <2>1, <2>4, <2>5
<1>7. CASE Release \/ ReleaseTraps
  BY <1>7 DEF Release, ReleaseTraps, Publish
<1>8. CASE \E n \in Batch : PeekCached(n) \/ PeekLoad(n)
  BY <1>4, <1>8 DEF PeekCached, PeekLoad, shared
<1>9. CASE Map \/ Unmap \/ PeekAcquire \/ DropReader \/ KernelPublish \/ UNCHANGED vars
  BY <1>4, <1>9 DEF Map, Unmap, PeekAcquire, DropReader, KernelPublish, vars, shared
<1>10. QED
  BY <1>5, <1>6, <1>7, <1>8, <1>9 DEF Next, User, Kernel

\* ReadInv is an invariant of every client that opens a new reader after a release.
LEMMA ReadInvariant ==
  ASSUME ReuseReader = FALSE
  PROVE  Spec => []ReadInv
<1>1. ReadInv /\ [Next]_vars => ReadInv'
  BY NextOrder, NextBase, NextReleased DEF ReadInv
<1>2. QED
  BY <1>1, InitRead, PTL DEF Spec

\* The kernel never writes a slot that an open reader is still going to read.
THEOREM PeekedNotOverwrittenHolds ==
  ASSUME ReuseReader = FALSE
  PROVE  Spec => []PeekedNotOverwritten
<1>1. ReadInv => PeekedNotOverwritten
  BY NotOverwrittenStep
<1>2. QED
  BY <1>1, ReadInvariant, PTL

\* and it gets a slot back only after a Release store that follows all reads of it.
THEOREM ReleasedOrderedHolds ==
  ASSUME ReuseReader = FALSE
  PROVE  Spec => []ReleasedOrdered
<1>1. ReadInv => ReleasedOrdered
  BY DEF ReadInv
<1>2. QED
  BY <1>1, ReadInvariant, PTL

-----------------------------------------------------------------------------
(* What an Acquire load covers *)

\* While the cache shows entries that were not released, the cached producer head is
\* the one that was loaded with Acquire. A Map that finds entries breaks this.
AcquireInv ==
  /\ ReadInv
  /\ cachedProducer # consumer => acquired = cachedProducer

\* Everything a reader is going to read lies behind the cached producer head.
LEMMA ReadsAcquiredStep ==
  ASSUME ReuseReader = FALSE, AcquireInv
  PROVE  ReadsAcquired
<1> SUFFICES ASSUME CanRead, NEW k \in 0 .. reader.remain - 1
             PROVE  Synchronised(WAdd(reader.base, k))
  BY DEF ReadsAcquired
<1>1. ReadInv /\ OrderInv /\ TypeOK
  BY DEF AcquireInv, ReadInv, OrderInv, TypeInv
<1>2. /\ consumer \in Index /\ cachedProducer \in Index
      /\ Taken \in Nat /\ Taken \in Index /\ k \in Nat /\ k < reader.remain
      /\ reader.remain \in Nat /\ Taken + reader.remain = dPeeked
      /\ WSub(cachedProducer, consumer) = dPeeked + dAvailable
  BY <1>1, ReadFacts DEF TypeOK
<1>3. /\ dPeeked \in Nat /\ dAvailable \in Nat /\ dPeeked + dAvailable <= Size
      /\ Taken + k < dPeeked /\ Taken + k < Modulus /\ k \in Index
  BY <1>1, <1>2, DistanceType, SizeFacts DEF Index
<1>4. WAdd(reader.base, k) = WAdd(consumer, Taken + k) /\ Taken + k \in Index
  <2>1. reader.base = WAdd(consumer, Taken)
    BY <1>1, BaseOfReader
  <2>2. WAdd(WAdd(consumer, Taken), k) = WAdd(consumer, Taken + k) /\ Taken + k \in Index
    BY <1>2, <1>3, AddAdd
  <2>3. QED
    BY <2>1, <2>2
<1>5. WSub(cachedProducer, WAdd(consumer, Taken + k)) = dPeeked + dAvailable - (Taken + k)
  <2>1. Taken + k <= WSub(cachedProducer, consumer)
    BY <1>2, <1>3
  <2>2. WSub(cachedProducer, WAdd(consumer, Taken + k))
          = WSub(cachedProducer, consumer) - (Taken + k)
    BY <1>2, <1>4, <2>1, DistanceAfterAdd
  <2>3. QED
    BY <1>2, <1>3, <2>2
<1>6. cachedProducer # consumer
  <2>1. WSub(consumer, consumer) = 0
    BY <1>2, AddSub
  <2>2. QED
    BY <1>2, <1>3, <2>1
<1>7. acquired = cachedProducer
  BY <1>6 DEF AcquireInv
<1>8. dPeeked + dAvailable - (Taken + k) \in 1 .. Size
  BY <1>2, <1>3, SizeFacts
<1>9. QED
  BY <1>4, <1>5, <1>7, <1>8 DEF Synchronised

\* Every step but a Map that finds entries keeps the cache covered.
LEMMA NextAcquired ==
  ASSUME MapInFlight = FALSE, AcquireInv, [Next]_vars
  PROVE  cachedProducer' # consumer' => acquired' = cachedProducer'
<1>1. ReadInv /\ OrderInv /\ TypeOK
  BY DEF AcquireInv, ReadInv, OrderInv, TypeInv
<1>2. CASE UNCHANGED <<consumer, cachedProducer, acquired>>
  BY <1>2 DEF AcquireInv
<1>3. CASE Map
  BY <1>3 DEF Map, shared
<1>4. CASE PeekAcquire
  BY <1>4 DEF PeekAcquire
<1>5. CASE Release \/ ReleaseTraps
  <2>1. /\ consumer' = WAdd(consumer, Taken)
        /\ UNCHANGED <<cachedProducer, acquired>>
    BY <1>5 DEF Release, ReleaseTraps, Publish, cached
  <2>2. ASSUME cachedProducer = consumer PROVE consumer' = consumer
    <3>1. consumer \in Index /\ WSub(consumer, consumer) = 0
      BY <1>1, AddSub DEF TypeOK
    <3>2. Taken = 0
      BY <1>1, <2>2, <3>1, ReadFacts, DistanceType
    <3>3. QED
      BY <2>1, <3>1, <3>2, AddDistance
  <2>3. QED
    BY <2>1, <2>2 DEF AcquireInv
<1>6. CASE \E n \in Batch : PeekCached(n) \/ PeekLoad(n)
  BY <1>2, <1>6 DEF PeekCached, PeekLoad, shared, cached
<1>7. CASE Unmap \/ Read \/ DropReader \/ Kernel \/ UNCHANGED vars
  BY <1>2, <1>7
     DEF Unmap, Read, DropReader, Kernel, KernelWrite, KernelPublish, vars, shared, cached
<1>8. QED
  BY <1>3, <1>4, <1>5, <1>6, <1>7 DEF Next, User

\* AcquireInv is an invariant of clients that map a drained ring and open a new
\* reader after a release.
LEMMA AcquireInvariant ==
  ASSUME MapInFlight = FALSE, ReuseReader = FALSE
  PROVE  Spec => []AcquireInv
<1>1. Init => AcquireInv
  BY InitRead DEF AcquireInv, Init
<1>2. AcquireInv /\ [Next]_vars => AcquireInv'
  BY NextOrder, NextBase, NextReleased, NextAcquired DEF AcquireInv, ReadInv
<1>3. QED
  BY <1>1, <1>2, PTL DEF Spec

\* A client reads only descriptors whose writes are ordered before the Acquire load
\* of count_available, if the ring was drained when it was mapped.
THEOREM ReadsAcquiredHolds ==
  ASSUME MapInFlight = FALSE, ReuseReader = FALSE
  PROVE  Spec => []ReadsAcquired
<1>1. AcquireInv => ReadsAcquired
  BY ReadsAcquiredStep
<1>2. QED
  BY <1>1, AcquireInvariant, PTL

-----------------------------------------------------------------------------
(* The ring implements RingChannel *)

\* The published entries are those a reader has taken, those it has still to read,
\* those known to be available and those that are not known yet.
dQueued == dPeeked + dAvailable + dPublished

\* The heads and what lies between them, as the refinement mapping uses it.
LEMMA ChannelFacts ==
  ASSUME OrderInv
  PROVE  /\ desc \in [Slots -> Value]
         /\ consumer \in Index /\ producer \in Index /\ kernelTail \in Index
         /\ dQueued \in Nat /\ dQueued \in Index /\ dWritten \in Nat /\ dWritten \in Index
         /\ dQueued + dWritten <= Size
         /\ WSub(producer, consumer) = dQueued
         /\ WSub(kernelTail, producer) = dWritten
         /\ WSub(kernelTail, consumer) = dQueued + dWritten
         /\ WAdd(consumer, dQueued) = producer
         /\ WAdd(producer, dWritten) = kernelTail
<1>1. /\ desc \in [Slots -> Value]
      /\ consumer \in Index /\ producer \in Index /\ kernelTail \in Index
  BY DEF OrderInv, TypeInv, TypeOK
<1>2. /\ dQueued \in Nat /\ dWritten \in Nat /\ dWritten \in Index
      /\ dQueued + dWritten <= Size
      /\ WSub(producer, consumer) = dQueued
      /\ WSub(kernelTail, consumer) = dQueued + dWritten
  BY DistanceType, ReadFacts DEF dQueued
<1>3. dQueued \in Index
  BY <1>2, SizeFacts DEF Index
<1>4. WAdd(consumer, WSub(producer, consumer)) = producer
      /\ WAdd(producer, WSub(kernelTail, producer)) = kernelTail
  BY <1>1, AddDistance
<1> QED
  BY <1>1, <1>2, <1>3, <1>4 DEF dWritten

\* The sequences of the refinement mapping, before and after a step.
LEMMA ChannelContents ==
  ASSUME OrderInv
  PROVE  /\ Contents(producer, WSub(kernelTail, producer)) = Segment(desc, producer, dWritten)
         /\ Contents(consumer, WSub(producer, consumer)) = Segment(desc, consumer, dQueued)
         /\ Len(Contents(producer, WSub(kernelTail, producer))) = dWritten
         /\ Len(Contents(consumer, WSub(producer, consumer))) = dQueued
<1>1. /\ Contents(producer, WSub(kernelTail, producer)) = Segment(desc, producer, dWritten)
      /\ Contents(consumer, WSub(producer, consumer)) = Segment(desc, consumer, dQueued)
  BY ChannelFacts DEF Contents, Segment
<1> QED
  BY <1>1, ChannelFacts, SegmentType

LEMMA ContentsStep ==
  /\ Contents(producer, WSub(kernelTail, producer))'
       = Segment(desc', producer', WSub(kernelTail', producer'))
  /\ Contents(consumer, WSub(producer, consumer))'
       = Segment(desc', consumer', WSub(producer', consumer'))
BY DEF Contents, Segment

\* Nothing is staged, published or taken at first.
LEMMA InitChannel == Init => Channel!Init
<1> SUFFICES ASSUME Init PROVE Channel!Init
  OBVIOUS
<1>1. producer = 0 /\ consumer = 0 /\ kernelTail = 0 /\ Taken = 0 /\ observed = None
  BY DEF Init, Taken, NoReader
<1>2. WSub(0, 0) = 0
  BY DEF WSub
<1>3. Contents(0, 0) = <<>>
  BY DEF Contents
<1> QED
  BY <1>1, <1>2, <1>3 DEF Channel!Init

\* A step that leaves the heads, the entries, what was taken and what was read alone.
LEMMA StutterChannel ==
  ASSUME UNCHANGED <<shared, kernelTail, Taken, observed>>
  PROVE  UNCHANGED Channel!vars
BY DEF Channel!vars, Contents, shared

\* Mapping, and what opens a reader, takes nothing.
LEMMA OpenStutters ==
  ASSUME OrderInv, \/ Map \/ Unmap \/ PeekAcquire
                   \/ \E n \in Batch : PeekCached(n) \/ PeekLoad(n)
  PROVE  UNCHANGED <<shared, kernelTail, Taken, observed>>
<1>1. CASE Map \/ Unmap \/ \E n \in Batch : PeekLoad(n)
  BY <1>1 DEF Map, Unmap, PeekLoad, Taken
<1>2. ASSUME ~reader.open, NEW available \in Index, NEW n \in Batch, Grant(available, n)
      PROVE  UNCHANGED Taken
  <2> DEFINE count == IF available < 1 THEN 0 ELSE AtMost(available, n)
  <2>1. count \in Nat
    BY CountType, SizeFacts DEF Index
  <2>2. Taken = 0
    BY <1>2 DEF OrderInv, Taken
  <2> HIDE DEF count
  <2>3. CASE reader' = NewIter(count, IF available < 1 THEN 0 ELSE cachedConsumer)
    BY <2>1, <2>2, <2>3 DEF NewIter, Taken
  <2>4. CASE UNCHANGED reader
    BY <2>4 DEF Taken
  <2> QED
    BY <1>2, <2>3, <2>4 DEF Grant, count
<1>3. ASSUME NEW n \in Batch, PeekCached(n) PROVE UNCHANGED <<shared, kernelTail, Taken, observed>>
  <2>1. ~reader.open /\ CachedAvailable \in Index /\ Grant(CachedAvailable, n)
        /\ UNCHANGED <<shared, kernelTail, observed>>
    BY <1>3, DistanceType DEF PeekCached, Idle, dAvailable
  <2> QED
    BY <1>2, <2>1
<1>4. ASSUME PeekAcquire PROVE UNCHANGED <<shared, kernelTail, Taken, observed>>
  <2>1. ~reader.open /\ peek.available \in Index /\ peek.nb \in Batch
        /\ Grant(peek.available, peek.nb) /\ UNCHANGED <<shared, kernelTail, observed>>
    BY <1>4 DEF PeekAcquire, OrderInv, TypeInv, TypeOK
  <2> QED
    BY <1>2, <2>1
<1> QED
  BY <1>1, <1>3, <1>4

\* read takes the next entry, and returns what the kernel published there.
LEMMA ReadTakes ==
  ASSUME ReuseReader = FALSE, AcquireInv, Read
  PROVE  Channel!Take
<1>1. OrderInv /\ ReadInv /\ TypeOK
  BY DEF AcquireInv, ReadInv, OrderInv, TypeInv
<1>2. /\ CanRead /\ reader' = Advance(reader) /\ UNCHANGED <<shared, kernelTail>>
      /\ observed' \in IF Synchronised(reader.base) THEN {desc[Slot(reader.base)]} ELSE Value
  BY DEF Read
<1>3. /\ Taken \in Nat /\ reader.remain \in Nat /\ reader.remain > 0
      /\ dQueued \in Nat /\ Taken < dQueued
  <2>1. reader.remain > 0
    BY <1>2 DEF CanRead
  <2> QED
    BY <1>1, <2>1, ReadFacts, DistanceType DEF dQueued
<1>4. reader.base = WAdd(consumer, Taken)
  BY <1>1, <1>2, BaseOfReader
<1>5. observed' = desc[Slot(reader.base)]
  <2>1. 0 \in 0 .. reader.remain - 1 /\ WAdd(reader.base, 0) = reader.base
    BY <1>1, <1>3, AddDistance DEF TypeOK
  <2>2. Synchronised(WAdd(reader.base, 0))
    BY <1>2, <2>1, ReadsAcquiredStep DEF ReadsAcquired
  <2> QED
    BY <1>2, <2>1, <2>2
<1>6. Taken' = Taken + 1
  <2>1. reader'.buffers = reader.buffers /\ reader'.remain = reader.remain - 1
    BY <1>1, <1>2 DEF Advance, TypeOK
  <2>2. reader.buffers \in Nat /\ reader.remain \in Nat
    BY <1>1, SizeFacts DEF TypeOK, Index
  <2> QED
    BY <2>1, <2>2 DEF Taken
<1>7. Contents(consumer, WSub(producer, consumer))[Taken + 1] = desc[Slot(WAdd(consumer, Taken))]
  <2>1. Taken + 1 \in 1 .. dQueued /\ (Taken + 1) - 1 = Taken
    BY <1>3
  <2> QED
    BY <1>1, <2>1, ChannelFacts DEF Contents
<1>8. Taken < Len(Contents(consumer, WSub(producer, consumer)))
  BY <1>1, <1>3, ChannelContents
<1>9. UNCHANGED <<Contents(producer, WSub(kernelTail, producer)),
                  Contents(consumer, WSub(producer, consumer))>>
  BY <1>2 DEF shared, Contents
<1> QED
  BY <1>4, <1>5, <1>6, <1>7, <1>8, <1>9 DEF Channel!Take

\* release hands back what was taken, also when it panics afterwards.
LEMMA ReleaseReleases ==
  ASSUME OrderInv, Release \/ ReleaseTraps
  PROVE  Channel!Release
<1>1. TypeOK /\ OrderInv
  BY DEF OrderInv, TypeInv
<1>2. /\ consumer' = WAdd(consumer, Taken)
      /\ UNCHANGED <<producer, desc, kernelTail, observed>>
      /\ reader'.buffers = reader'.remain /\ reader'.remain \in Nat
  <2>1. CASE Release
    BY <1>1, <2>1, SizeFacts DEF Release, Publish, TypeOK, Index
  <2>2. CASE ReleaseTraps
    BY <2>2 DEF ReleaseTraps, Publish, NoReader
  <2> QED
    BY <2>1, <2>2
<1>3. Taken' = 0
  BY <1>2 DEF Taken
<1> DEFINE t == Taken
           r == dQueued - Taken
<1>4. /\ t \in Nat /\ t \in Index /\ r \in Nat /\ t + r = dQueued /\ t <= dQueued /\ t + r <= Size
      /\ consumer \in Index /\ producer \in Index /\ WSub(producer, consumer) = dQueued
  BY <1>1, ReadFacts, DistanceType, ChannelFacts, SizeFacts DEF dQueued
<1> HIDE DEF t, r
<1>5. WSub(producer', consumer') = r
  <2>1. WSub(producer, WAdd(consumer, t)) = WSub(producer, consumer) - t
    BY <1>4, DistanceAfterAdd
  <2> QED
    BY <1>2, <1>4, <2>1 DEF t
<1>6. Segment(desc, WAdd(consumer, t), r) = SubSeq(Segment(desc, consumer, t + r), t + 1, t + r)
  <2>1. \A c \in Index, m \in Nat, n \in Nat : m + n <= Size
          => Segment(desc, WAdd(c, m), n) = SubSeq(Segment(desc, c, m + n), m + 1, m + n)
    BY SegmentRest, Zenon
  <2> QED
    BY <1>4, <2>1, Zenon
<1>7. Contents(consumer, WSub(producer, consumer))' = Segment(desc, WAdd(consumer, t), r)
  BY <1>2, <1>5, ContentsStep DEF t
<1>8. /\ Contents(consumer, WSub(producer, consumer)) = Segment(desc, consumer, t + r)
      /\ Len(Contents(consumer, WSub(producer, consumer))) = t + r
  BY <1>1, <1>4, ChannelContents
<1>9. UNCHANGED Contents(producer, WSub(kernelTail, producer))
  BY <1>2 DEF Contents
<1> QED
  BY <1>2, <1>3, <1>6, <1>7, <1>8, <1>9 DEF Channel!Release, t

\* The drop of a reader gives up what was not released.
LEMMA DropRewinds ==
  ASSUME DropReader
  PROVE  Channel!Rewind
<1>1. Taken' = 0 /\ UNCHANGED <<shared, kernelTail, observed>>
  BY DEF DropReader, Taken, NoReader
<1>2. UNCHANGED <<Contents(producer, WSub(kernelTail, producer)),
                  Contents(consumer, WSub(producer, consumer)), observed>>
  BY <1>1 DEF shared, Contents
<1> QED
  BY <1>1, <1>2 DEF Channel!Rewind

\* The kernel stages an entry: its slot is none of those written before.
LEMMA KernelWriteStages ==
  ASSUME OrderInv, NEW v \in Value, KernelWrite(v)
  PROVE  Channel!Stage(v)
<1> DEFINE w == dWritten
           q == dQueued
           s == Slot(kernelTail)
<1>1. /\ WSub(kernelTail, consumer) < Size
      /\ desc' = [desc EXCEPT ![s] = v] /\ kernelTail' = WAdd(kernelTail, 1)
      /\ UNCHANGED <<producer, consumer, reader, observed>>
  BY DEF KernelWrite
<1>2. /\ w \in Nat /\ w \in Index /\ q \in Nat /\ q \in Index
      /\ WAdd(consumer, q) = producer /\ WAdd(producer, w) = kernelTail
      /\ WSub(kernelTail, consumer) = q + w /\ WSub(kernelTail, producer) = w
      /\ WSub(producer, consumer) = q
      /\ consumer \in Index /\ producer \in Index /\ kernelTail \in Index
      /\ desc \in [Slots -> Value]
  BY ChannelFacts DEF dWritten
<1> HIDE DEF w, q
<1>3. /\ q + w < Size /\ q + w + 1 <= Size /\ q <= Size /\ w <= Size /\ w + 1 <= Size
      /\ w + 1 < Modulus /\ 1 \in Index
  BY <1>1, <1>2, SizeFacts DEF Index
<1>4. s \notin Window(consumer, q) /\ s \notin Window(producer, w)
  <2>1. s \in Window(WAdd(producer, w), 1) /\ s \in Window(WAdd(consumer, q + w), 1)
    <3>1. WAdd(WAdd(consumer, q), w) = WAdd(consumer, q + w)
      BY <1>2, <1>3, AddAdd, SizeFacts
    <3>2. WAdd(kernelTail, 0) = kernelTail
      BY <1>2, AddDistance
    <3>3. s \in Window(kernelTail, 1)
      BY <3>2 DEF Window
    <3> QED
      BY <1>2, <3>1, <3>3
  <2>2. Window(consumer, q) \intersect Window(WAdd(consumer, q + w), 1) = {}
    BY <1>2, <1>3, WindowsDisjoint
  <2>3. Window(producer, w) \intersect Window(WAdd(producer, w), 1) = {}
    BY <1>2, <1>3, WindowsDisjoint
  <2> QED
    BY <2>1, <2>2, <2>3
<1>5. Segment(desc', consumer, q) = Segment(desc, consumer, q)
  <2>1. \A i \in Window(consumer, q) : desc'[i] = desc[i]
    BY <1>1, <1>2, <1>3, <1>4, WindowSlots
  <2> QED
    BY <1>2, <2>1, SegmentFrame
<1>6. Segment(desc', producer, w + 1) = Append(Segment(desc, producer, w), v)
  <2>1. \A i \in Window(producer, w) : desc'[i] = desc[i]
    BY <1>1, <1>2, <1>3, <1>4, WindowSlots
  <2>2. Segment(desc', producer, w) = Segment(desc, producer, w)
    BY <1>2, <2>1, SegmentFrame
  <2>3. desc'[Slot(WAdd(producer, w))] = v
    BY <1>1, <1>2, SlotOfAdd
  <2>4. Segment(desc', producer, w + 1)
          = Append(Segment(desc', producer, w), desc'[Slot(WAdd(producer, w))])
    BY <1>2, <1>3, SegmentAppend
  <2> QED
    BY <2>2, <2>3, <2>4
<1>7. WSub(kernelTail', producer') = w + 1
  BY <1>1, <1>2, <1>3, DistanceOfAdd
<1>8. /\ Contents(producer, WSub(kernelTail, producer)) = Segment(desc, producer, w)
      /\ Contents(consumer, WSub(producer, consumer)) = Segment(desc, consumer, q)
      /\ Len(Contents(producer, WSub(kernelTail, producer))) = w
      /\ Len(Contents(consumer, WSub(producer, consumer))) = q
  BY ChannelContents DEF w, q
<1>9. /\ Contents(producer, WSub(kernelTail, producer))' = Segment(desc', producer, w + 1)
      /\ Contents(consumer, WSub(producer, consumer))' = Segment(desc', consumer, q)
  BY <1>1, <1>2, <1>7, ContentsStep
<1>10. UNCHANGED Taken
  BY <1>1 DEF Taken
<1> QED
  BY <1>1, <1>3, <1>5, <1>6, <1>8, <1>9, <1>10 DEF Channel!Stage

\* The kernel publishes what it has staged.
LEMMA KernelPublishPublishes ==
  ASSUME OrderInv, KernelPublish
  PROVE  Channel!Publish
<1> DEFINE w == dWritten
           q == dQueued
<1>1. producer' = kernelTail /\ UNCHANGED <<consumer, desc, reader, observed, kernelTail>>
  BY DEF KernelPublish
<1>2. /\ w \in Nat /\ q \in Nat /\ q + w <= Size /\ WAdd(consumer, q) = producer
      /\ WSub(kernelTail, consumer) = q + w
      /\ consumer \in Index /\ producer \in Index /\ kernelTail \in Index
  BY ChannelFacts
<1> HIDE DEF w, q
<1>3. WSub(producer', consumer') = q + w /\ WSub(kernelTail', producer') = 0
  BY <1>1, <1>2, AddSub
<1>4. Segment(desc, consumer, q + w) = Segment(desc, consumer, q) \o Segment(desc, producer, w)
  <2>1. \A c \in Index, m \in Nat, n \in Nat : m + n <= Size
          => Segment(desc, c, m + n) = Segment(desc, c, m) \o Segment(desc, WAdd(c, m), n)
    BY SegmentConcat, Zenon
  <2>2. Segment(desc, consumer, q + w) = Segment(desc, consumer, q) \o Segment(desc, WAdd(consumer, q), w)
    BY <1>2, <2>1, Zenon
  <2> QED
    BY <1>2, <2>2
<1>5. /\ Contents(producer, WSub(kernelTail, producer))' = <<>>
      /\ Contents(consumer, WSub(producer, consumer))' = Segment(desc, consumer, q + w)
  BY <1>1, <1>3, ContentsStep, SegmentEmpty
<1>6. /\ Contents(producer, WSub(kernelTail, producer)) = Segment(desc, producer, w)
      /\ Contents(consumer, WSub(producer, consumer)) = Segment(desc, consumer, q)
  BY ChannelContents DEF w, q
<1>7. UNCHANGED Taken
  BY <1>1 DEF Taken
<1> QED
  BY <1>1, <1>4, <1>5, <1>6, <1>7 DEF Channel!Publish

\* Whatever the two loads of count_available find, a consumer ring that was drained
\* when it was mapped, and whose readers are not reused, is a bounded FIFO between the
\* kernel and read: what is released is what was read, the rest is read again.
THEOREM ImplementsChannelHolds ==
  ASSUME MapInFlight = FALSE, ReuseReader = FALSE
  PROVE  Spec => ImplementsChannel
<1>1. Init => Channel!Init
  BY InitChannel
<1>2. AcquireInv /\ [Next]_vars => [Channel!Next]_(Channel!vars)
  <2> SUFFICES ASSUME AcquireInv, [Next]_vars PROVE [Channel!Next]_(Channel!vars)
    OBVIOUS
  <2>0. OrderInv
    BY DEF AcquireInv, ReadInv
  <2>1. ASSUME NEW v \in Value, KernelWrite(v) PROVE Channel!Next
    BY <2>0, <2>1, KernelWriteStages DEF Channel!Next
  <2>2. CASE KernelPublish
    BY <2>0, <2>2, KernelPublishPublishes DEF Channel!Next
  <2>3. CASE Read
    BY <2>3, ReadTakes DEF Channel!Next
  <2>4. CASE Release \/ ReleaseTraps
    BY <2>0, <2>4, ReleaseReleases DEF Channel!Next
  <2>5. CASE DropReader
    BY <2>5, DropRewinds DEF Channel!Next
  <2>6. CASE \/ Map \/ Unmap \/ PeekAcquire
             \/ \E n \in Batch : PeekCached(n) \/ PeekLoad(n)
    BY <2>0, <2>6, OpenStutters, StutterChannel
  <2>7. CASE UNCHANGED vars
    <3>1. UNCHANGED <<shared, kernelTail, Taken, observed>>
      BY <2>7 DEF vars, Taken
    <3> QED
      BY <3>1, StutterChannel
  <2> QED
    BY <2>1, <2>2, <2>3, <2>4, <2>5, <2>6, <2>7 DEF Next, User, Kernel
<1> QED
  BY <1>1, <1>2, AcquireInvariant, PTL DEF Spec, ImplementsChannel, Channel!Spec
=============================================================================
