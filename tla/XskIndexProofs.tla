--------------------------- MODULE XskIndexProofs ---------------------------
(***************************************************************************)
(* Facts about the wrapping index arithmetic of XskIndex, for every Size   *)
(* and Modulus. WSub(b, a) is the distance from head a forward to head b.  *)
(***************************************************************************)
EXTENDS XskIndex, SequenceTheorems, TLAPS

\* The ring is at most half the range of a head.
LEMMA SizeFacts == Size \in Nat /\ Size > 0 /\ Modulus \in Nat /\ 2 * Size <= Modulus
<1>1. PICK k \in 2 .. Modulus : Modulus = k * Size
  BY SizeAssumption
<1>2. 2 * Size <= k * Size
  BY <1>1, SizeAssumption
<1>3. QED
  BY <1>1, <1>2, SizeAssumption

\* wrapping_add and wrapping_sub stay within u32.
LEMMA WrapType ==
  ASSUME NEW a \in Index, NEW b \in Index
  PROVE  WAdd(a, b) \in Index /\ WSub(a, b) \in Index
BY SizeFacts DEF Index, WAdd, WSub

\* A number of entries is a u32.
LEMMA SizeIsIndex == 0 .. Size \subseteq Index
BY SizeFacts DEF Index

\* Advancing a head by n moves it n away from where it was, and back again.
LEMMA AddSub ==
  ASSUME NEW a \in Index, NEW n \in Index
  PROVE  /\ WSub(WAdd(a, n), a) = n
         /\ WSub(a, WSub(a, n)) = n
         /\ WSub(WAdd(a, n), n) = a
         /\ WSub(a, a) = 0
BY SizeFacts DEF Index, WAdd, WSub

\* Distances add up as long as they stay below one turn.
LEMMA DistanceSum ==
  ASSUME NEW a \in Index, NEW b \in Index, NEW c \in Index,
         WSub(b, a) + WSub(c, b) < Modulus
  PROVE  WSub(c, a) = WSub(b, a) + WSub(c, b)
BY SizeFacts DEF Index, WSub

\* A head that advances by n comes n closer to every head at least n ahead.
LEMMA DistanceAfterAdd ==
  ASSUME NEW a \in Index, NEW b \in Index, NEW n \in Index, n <= WSub(b, a)
  PROVE  WSub(b, WAdd(a, n)) = WSub(b, a) - n
BY SizeFacts DEF Index, WAdd, WSub

\* A head that advances by n moves n away from every head behind it.
LEMMA DistanceOfAdd ==
  ASSUME NEW a \in Index, NEW b \in Index, NEW n \in Index,
         WSub(b, a) + n < Modulus
  PROVE  WSub(WAdd(b, n), a) = WSub(b, a) + n
BY SizeFacts DEF Index, WAdd, WSub

\* The same for a head that is moved back by n.
LEMMA DistanceOfSub ==
  ASSUME NEW a \in Index, NEW b \in Index, NEW n \in Index, n <= WSub(b, a)
  PROVE  WSub(WSub(b, n), a) = WSub(b, a) - n
BY SizeFacts DEF Index, WSub

\* A head moved back by n is n further from every head in front of it.
LEMMA DistanceAfterSub ==
  ASSUME NEW a \in Index, NEW b \in Index, NEW n \in Index,
         WSub(b, a) + n < Modulus
  PROVE  WSub(b, WSub(a, n)) = WSub(b, a) + n
BY SizeFacts DEF Index, WSub

\* A head n in front of a has b, which is no further ahead, behind it.
LEMMA DistanceAhead ==
  ASSUME NEW a \in Index, NEW b \in Index, NEW n \in Index, WSub(b, a) <= n
  PROVE  WSub(WAdd(a, n), b) = n - WSub(b, a)
BY SizeFacts DEF Index, WAdd, WSub

\* Advancing in two steps is advancing once.
LEMMA AddAdd ==
  ASSUME NEW a \in Index, NEW m \in Index, NEW n \in Index, m + n < Modulus
  PROVE  WAdd(WAdd(a, m), n) = WAdd(a, m + n) /\ m + n \in Index
BY SizeFacts DEF Index, WAdd

\* Advancing a head by its distance to another one leads there; no distance means
\* the same head.
LEMMA AddDistance ==
  ASSUME NEW a \in Index, NEW b \in Index
  PROVE  /\ WAdd(a, WSub(b, a)) = b
         /\ WSub(b, a) = 0 => a = b
         /\ WAdd(a, 0) = a
BY SizeFacts DEF Index, WAdd, WSub

\* Masking yields a slot.
LEMMA SlotType ==
  ASSUME NEW i \in Nat
  PROVE  i % Size \in Slots
BY SizeFacts DEF Slots

\* Two numbers less than Size apart with the same remainder are equal.
LEMMA RemainderInjective ==
  ASSUME NEW x \in Nat, NEW y \in Nat, x <= y, y - x < Size, x % Size = y % Size
  PROVE  x = y
<1> DEFINE p == x \div Size
           q == y \div Size
           r == x % Size
<1>1. /\ p \in Int /\ q \in Int /\ r \in Int
      /\ x = Size * p + r
      /\ y = Size * q + r
  BY SizeFacts
<1> HIDE DEF p, q, r
<1>2. y - x = Size * (q - p)
  BY <1>1, SizeFacts
<1>3. CASE q - p >= 1
  <2>1. Size * (q - p) >= Size
    BY <1>1, <1>3, SizeFacts
  <2>2. QED
    BY <1>2, <2>1, SizeFacts
<1>4. CASE q - p <= -1
  <2>1. Size * (q - p) <= -Size
    BY <1>1, <1>4, SizeFacts
  <2>2. QED
    BY <1>2, <2>1, SizeFacts
<1>5. CASE q = p
  BY <1>1, <1>5
<1>6. QED
  BY <1>1, <1>3, <1>4, <1>5

\* Taking a full turn off a number does not change its slot.
LEMMA RemainderOfTurn ==
  ASSUME NEW x \in Nat, x >= Modulus
  PROVE  (x - Modulus) % Size = x % Size
<1>1. PICK k \in 2 .. Modulus : Modulus = k * Size
  BY SizeAssumption
<1> DEFINE p == x \div Size
           q == (x - Modulus) \div Size
           r == x % Size
           t == (x - Modulus) % Size
<1>2. /\ p \in Int /\ q \in Int /\ r \in 0 .. Size - 1 /\ t \in 0 .. Size - 1
      /\ x = Size * p + r
      /\ x - Modulus = Size * q + t
  BY SizeFacts
<1> HIDE DEF p, q, r, t
<1>3. Size * (p - k - q) = t - r
  BY <1>1, <1>2, SizeFacts
<1>4. CASE p - k - q >= 1
  <2>1. Size * (p - k - q) >= Size
    BY <1>1, <1>2, <1>4, SizeFacts
  <2>2. QED
    BY <1>2, <1>3, <2>1, SizeFacts
<1>5. CASE p - k - q <= -1
  <2>1. Size * (p - k - q) <= -Size
    BY <1>1, <1>2, <1>5, SizeFacts
  <2>2. QED
    BY <1>2, <1>3, <2>1, SizeFacts
<1>6. CASE p - k - q = 0
  <2>1. t = r
    BY <1>1, <1>2, <1>3, <1>6, SizeFacts
  <2>2. QED
    BY <2>1 DEF t, r
<1>7. QED
  BY <1>1, <1>2, <1>4, <1>5, <1>6

\* Masking a wrapped head is masking the unwrapped one.
LEMMA SlotOfAdd ==
  ASSUME NEW a \in Index, NEW n \in Index
  PROVE  Slot(WAdd(a, n)) = (a + n) % Size /\ Slot(WAdd(a, n)) \in Slots
<1>1. CASE a + n < Modulus
  BY <1>1, SlotType, SizeFacts DEF Slot, WAdd, Index
<1>2. CASE a + n >= Modulus
  <2>1. a + n \in Nat
    BY SizeFacts DEF Index
  <2>2. \A x \in Nat : x >= Modulus => (x - Modulus) % Size = x % Size
    BY RemainderOfTurn
  <2>3. WAdd(a, n) = (a + n) - Modulus /\ WAdd(a, n) \in Nat
    BY <1>2, SizeFacts DEF WAdd, Index
  <2>4. Slot(WAdd(a, n)) = (a + n) % Size
    BY <1>2, <2>1, <2>2, <2>3 DEF Slot
  <2>5. QED
    BY <2>1, <2>4, SlotType
<1>3. QED
  BY <1>1, <1>2, SizeFacts DEF Index

\* Two heads on one slot that are less than a ring length ahead of the same head
\* are the same head: a window of the ring never meets itself.
LEMMA SlotInjective ==
  ASSUME NEW a \in Index, NEW i \in Slots, NEW j \in Slots,
         Slot(WAdd(a, i)) = Slot(WAdd(a, j))
  PROVE  i = j
<1>1. i \in Index /\ j \in Index /\ a + i \in Nat /\ a + j \in Nat
  BY SizeFacts DEF Slots, Index
<1>2. (a + i) % Size = (a + j) % Size
  BY <1>1, SlotOfAdd
<1>3. CASE i <= j
  <2>1. a + i = a + j
    BY <1>1, <1>2, <1>3, RemainderInjective, SizeFacts DEF Slots, Index
  <2>2. QED
    BY <1>1, <2>1 DEF Slots, Index
<1>4. CASE j <= i
  <2>1. a + j = a + i
    BY <1>1, <1>2, <1>4, RemainderInjective, SizeFacts DEF Slots, Index
  <2>2. QED
    BY <1>1, <2>1 DEF Slots, Index
<1>5. QED
  BY <1>1, <1>3, <1>4 DEF Index

\* Two windows behind one another in one ring length share no slot.
LEMMA WindowsDisjoint ==
  ASSUME NEW a \in Index, NEW m \in Nat, NEW d \in Nat, NEW n \in Nat,
         m <= d, d + n <= Size
  PROVE  Window(a, m) \intersect Window(WAdd(a, d), n) = {}
<1> SUFFICES ASSUME NEW i \in 0 .. m - 1, NEW k \in 0 .. n - 1,
                    Slot(WAdd(a, i)) = Slot(WAdd(WAdd(a, d), k))
             PROVE  FALSE
  BY DEF Window
<1>1. /\ i \in Slots /\ d + k \in Slots /\ d + k < Modulus
      /\ d \in Index /\ k \in Index /\ i < d + k
  BY SizeFacts DEF Slots, Index
<1>2. Slot(WAdd(a, i)) = Slot(WAdd(a, d + k))
  BY <1>1, AddAdd
<1>3. i = d + k
  BY <1>1, <1>2, SlotInjective
<1>4. QED
  BY <1>1, <1>3

\* The end of a window is a part of it.
LEMMA WindowEnd ==
  ASSUME NEW a \in Index, NEW d \in Nat, NEW n \in Nat, d + n < Modulus
  PROVE  Window(WAdd(a, d), n) \subseteq Window(a, d + n)
<1> SUFFICES ASSUME NEW k \in 0 .. n - 1
             PROVE  \E i \in 0 .. d + n - 1 : Slot(WAdd(WAdd(a, d), k)) = Slot(WAdd(a, i))
  BY DEF Window
<1>1. d + k \in 0 .. d + n - 1 /\ d \in Index /\ k \in Index /\ d + k < Modulus
  BY SizeFacts DEF Index
<1>2. Slot(WAdd(WAdd(a, d), k)) = Slot(WAdd(a, d + k))
  BY <1>1, AddAdd
<1>3. QED
  BY <1>1, <1>2

\* So is its beginning.
LEMMA WindowStart ==
  ASSUME NEW a \in Index, NEW m \in Nat, NEW n \in Nat, m <= n
  PROVE  Window(a, m) \subseteq Window(a, n)
BY DEF Window

-----------------------------------------------------------------------------
(* What a ring holds *)

\* The contents d of n slots from idx on, as a sequence.
Segment(d, idx, n) == [k \in 1 .. n |-> d[Slot(WAdd(idx, k - 1))]]

\* It has that many entries, ...
LEMMA SegmentType ==
  ASSUME NEW d, NEW idx, NEW n \in Nat
  PROVE  Len(Segment(d, idx, n)) = n /\ DOMAIN Segment(d, idx, n) = 1 .. n
BY DEF Segment

\* ... which are what the ring holds, ...
LEMMA SegmentSeq ==
  ASSUME NEW d, NEW V, \A s \in Slots : d[s] \in V, NEW idx \in Index, NEW n \in Nat, n <= Size
  PROVE  Segment(d, idx, n) \in Seq(V)
<1>1. \A k \in 1 .. n : k - 1 \in Index
  BY SizeFacts DEF Index
<1>2. \A k \in 1 .. n : Slot(WAdd(idx, k - 1)) \in Slots
  BY <1>1, SlotOfAdd
<1>3. \A k \in 1 .. n : d[Slot(WAdd(idx, k - 1))] \in V
  BY <1>2
<1> QED
  BY <1>3 DEF Segment

\* ... is followed by the segment behind it, ...
LEMMA SegmentConcat ==
  ASSUME NEW d, NEW idx \in Index, NEW m \in Nat, NEW n \in Nat, NEW l, l = m + n, l <= Size
  PROVE  Segment(d, idx, l) = Segment(d, idx, m) \o Segment(d, WAdd(idx, m), n)
<1>1. ASSUME NEW k \in 1 .. n PROVE WAdd(WAdd(idx, m), k - 1) = WAdd(idx, m + k - 1)
  <2>1. m \in Index /\ k - 1 \in Index /\ m + (k - 1) < Modulus /\ m + (k - 1) = m + k - 1
    BY SizeFacts DEF Index
  <2> QED
    BY <2>1, AddAdd
<1>2. \A k \in 1 .. m + n : k > m => k - m \in 1 .. n /\ m + (k - m) - 1 = k - 1
  OBVIOUS
<1> DEFINE V == {d[i] : i \in Slots}
           s == Segment(d, idx, m)
           t == Segment(d, WAdd(idx, m), n)
           u == Segment(d, idx, m + n)
<1>3. s \in Seq(V) /\ t \in Seq(V) /\ u \in Seq(V)
  <2>1. /\ m <= Size /\ n <= Size /\ m + n \in Nat /\ m \in Index
    BY SizeFacts DEF Index
  <2>2. WAdd(idx, m) \in Index
    BY <2>1, WrapType
  <2> QED
    BY <2>1, <2>2, SegmentSeq
<1>4. Len(s) = m /\ Len(t) = n /\ Len(u) = m + n
  BY SegmentType
<1>5. /\ \A k \in 1 .. m : u[k] = s[k]
      /\ \A k \in 1 .. m + n : k > m => u[k] = t[k - m]
  <2>1. ASSUME NEW k \in 1 .. m + n, k > m PROVE u[k] = t[k - m]
    <3>1. k - m \in 1 .. n /\ m + (k - m) - 1 = k - 1
      BY <2>1
    <3>2. WAdd(WAdd(idx, m), (k - m) - 1) = WAdd(idx, k - 1)
      BY <1>1, <3>1
    <3> QED
      BY <3>1, <3>2 DEF Segment
  <2>2. ASSUME NEW k \in 1 .. m PROVE u[k] = s[k]
    <3>1. k \in 1 .. m + n
      OBVIOUS
    <3> QED
      BY <3>1 DEF Segment
  <2> QED
    BY <2>1, <2>2
<1> HIDE DEF V, s, t, u
<1>6. /\ s \o t \in Seq(V) /\ Len(s \o t) = m + n
      /\ \A k \in 1 .. m + n : (s \o t)[k] = IF k <= m THEN s[k] ELSE t[k - m]
  BY <1>3, <1>4, ConcatProperties
<1>7. \A k \in 1 .. m + n : u[k] = (s \o t)[k]
  BY <1>5, <1>6
<1>8. u = s \o t
  BY <1>3, <1>4, <1>6, <1>7, SeqEqual
<1> QED
  BY <1>8 DEF s, t, u

\* ... grows by the slot behind it, ...
LEMMA SegmentAppend ==
  ASSUME NEW d, NEW idx \in Index, NEW n \in Nat, NEW m, m = n + 1, m <= Size
  PROVE  Segment(d, idx, m) = Append(Segment(d, idx, n), d[Slot(WAdd(idx, n))])
<1> DEFINE V == {d[i] : i \in Slots}
           s == Segment(d, idx, n)
           e == d[Slot(WAdd(idx, n))]
           u == Segment(d, idx, n + 1)
<1>1. s \in Seq(V) /\ u \in Seq(V)
  <2>1. n <= Size /\ n + 1 \in Nat /\ n + 1 <= Size
    BY SizeFacts
  <2> QED
    BY <2>1, SegmentSeq
<1>2. Len(s) = n /\ Len(u) = n + 1
  BY SegmentType
<1>3. e \in V
  <2>1. n \in Index
    BY SizeFacts DEF Index
  <2> QED
    BY <2>1, SlotOfAdd
<1>4. u[n + 1] = e /\ \A k \in 1 .. n : u[k] = s[k]
  BY DEF Segment
<1> HIDE DEF V, s, e, u
<1>5. /\ Append(s, e) \in Seq(V) /\ Len(Append(s, e)) = n + 1
      /\ \A k \in 1 .. n + 1 : Append(s, e)[k] = IF k = n + 1 THEN e ELSE s[k]
  BY <1>1, <1>2, <1>3
<1>6. \A k \in 1 .. n + 1 : u[k] = Append(s, e)[k]
  BY <1>4, <1>5
<1>7. u = Append(s, e)
  BY <1>1, <1>2, <1>5, <1>6, SeqEqual
<1> QED
  BY <1>7 DEF s, e, u

\* ... and has the segment from its slot m on as a subsequence.
LEMMA SegmentRest ==
  ASSUME NEW d, NEW idx \in Index, NEW m \in Nat, NEW n \in Nat, m + n <= Size
  PROVE  Segment(d, WAdd(idx, m), n) = SubSeq(Segment(d, idx, m + n), m + 1, m + n)
<1> DEFINE V == {d[i] : i \in Slots}
           t == Segment(d, WAdd(idx, m), n)
           u == Segment(d, idx, m + n)
<1>1. t \in Seq(V) /\ u \in Seq(V)
  <2>1. /\ n <= Size /\ m + n \in Nat /\ m \in Index
    BY SizeFacts DEF Index
  <2>2. WAdd(idx, m) \in Index
    BY <2>1, WrapType
  <2> QED
    BY <2>1, <2>2, SegmentSeq
<1>2. Len(t) = n /\ Len(u) = m + n
  BY SegmentType
<1>3. ASSUME NEW k \in 1 .. n PROVE u[m + k] = t[k]
  <2>1. m \in Index /\ k - 1 \in Index /\ m + (k - 1) < Modulus /\ (m + k) - 1 = m + (k - 1)
    BY SizeFacts DEF Index
  <2>2. WAdd(WAdd(idx, m), k - 1) = WAdd(idx, (m + k) - 1)
    BY <2>1, AddAdd
  <2> QED
    BY <2>2 DEF Segment
<1> HIDE DEF V, t, u
<1>4. \A i \in m + 1 .. m + n : u[i] \in V
  BY <1>1, <1>2
<1>5. /\ SubSeq(u, m + 1, m + n) \in Seq(V)
      /\ Len(SubSeq(u, m + 1, m + n)) = n
      /\ \A k \in 1 .. n : SubSeq(u, m + 1, m + n)[k] = u[m + k]
  <2>1. /\ SubSeq(u, m + 1, m + n) \in Seq(V)
        /\ Len(SubSeq(u, m + 1, m + n)) = IF m + 1 <= m + n THEN (m + n) - (m + 1) + 1 ELSE 0
        /\ \A k \in 1 .. (m + n) - (m + 1) + 1 : SubSeq(u, m + 1, m + n)[k] = u[(m + 1) + k - 1]
    BY <1>4, SubSeqProperties
  <2> QED
    BY <2>1
<1>6. t = SubSeq(u, m + 1, m + n)
  BY <1>1, <1>2, <1>3, <1>5, SeqEqual
<1> QED
  BY <1>6 DEF t, u

\* A window consists of slots.
LEMMA WindowSlots ==
  ASSUME NEW idx \in Index, NEW n \in Nat, n <= Size
  PROVE  Window(idx, n) \subseteq Slots
<1>1. \A k \in 0 .. n - 1 : k \in Index
  BY SizeFacts DEF Index
<1> QED
  BY <1>1, SlotOfAdd DEF Window

\* A write outside of its window leaves a segment alone.
LEMMA SegmentFrame ==
  ASSUME NEW d, NEW e, NEW idx, NEW n \in Nat, \A s \in Window(idx, n) : e[s] = d[s]
  PROVE  Segment(e, idx, n) = Segment(d, idx, n)
<1>1. ASSUME NEW k \in 1 .. n PROVE e[Slot(WAdd(idx, k - 1))] = d[Slot(WAdd(idx, k - 1))]
  <2>1. k - 1 \in 0 .. n - 1
    OBVIOUS
  <2> QED
    BY <2>1 DEF Window
<1> QED
  BY <1>1 DEF Segment

\* No slots, no entries.
LEMMA SegmentEmpty ==
  ASSUME NEW d, NEW idx
  PROVE  Segment(d, idx, 0) = <<>>
BY DEF Segment
=============================================================================
