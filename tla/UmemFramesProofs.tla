--------------------------- MODULE UmemFramesProofs ---------------------------
(***************************************************************************)
(* What Umem::frame and len_frames promise, for every area, frame size and  *)
(* width of an index.                                                      *)
(***************************************************************************)
EXTENDS UmemFrames, TLAPS

\* The comparison with None is the right one: frame is Some exactly if all of the
\* chunk lies in the area.
LEMMA FrameFits ==
  ASSUME NEW idx \in BufIdx
  PROVE  HasFrame(idx) <=> frame_size * idx + frame_size <= area_size
<1> DEFINE offset == frame_size * idx
<1>1. /\ frame_size \in Nat /\ area_size \in Nat /\ idx \in Nat
  BY UmemAssumption DEF BufIdx
<1>2. offset \in Nat
  BY <1>1
<1> HIDE DEF offset
<1>3. HasFrame(idx) <=> ~LessOption(CheckedSub(area_size, frame_size), Some(offset))
  BY DEF HasFrame, frame, Some, None, offset
<1>4. CASE frame_size <= area_size
  <2>1. LessOption(CheckedSub(area_size, frame_size), Some(offset)) <=> area_size - frame_size < offset
    BY <1>4 DEF LessOption, CheckedSub, Some, None
  <2> QED
    BY <1>1, <1>2, <1>3, <2>1 DEF offset
<1>5. CASE ~(frame_size <= area_size)
  <2>1. LessOption(CheckedSub(area_size, frame_size), Some(offset))
    BY <1>5 DEF LessOption, CheckedSub, Some, None
  <2> QED
    BY <1>1, <1>2, <1>3, <1>5, <2>1 DEF offset
<1> QED
  BY <1>4, <1>5

LEMMA ChunkOf ==
  ASSUME NEW idx \in BufIdx, HasFrame(idx)
  PROVE  Chunk(idx) = [offset |-> frame_size * idx, len |-> frame_size]
BY DEF HasFrame, Chunk, frame, Some, None

\* Every descriptor that as_xdp_with_len makes of a chunk, for a length its debug
\* assertion allows, names bytes of the area and of this chunk only.
THEOREM DescriptorInBounds ==
  ASSUME NEW idx \in BufIdx, HasFrame(idx), NEW len \in 0 .. frame_size
  PROVE  /\ Bytes(as_xdp_with_len(Chunk(idx), len)) \subseteq Bytes(as_xdp(Chunk(idx)))
         /\ Bytes(as_xdp(Chunk(idx))) \subseteq 0 .. area_size - 1
<1>1. /\ frame_size \in Nat /\ area_size \in Nat /\ idx \in Nat
  BY UmemAssumption DEF BufIdx
<1>2. frame_size * idx \in Nat
  BY <1>1
<1>3. frame_size * idx + frame_size <= area_size
  BY FrameFits
<1> QED
  BY <1>1, <1>2, <1>3, ChunkOf DEF Bytes, as_xdp, as_xdp_with_len

\* Chunks of different indices share no byte.
THEOREM ChunksDisjoint ==
  ASSUME NEW i \in BufIdx, NEW j \in BufIdx, i # j, HasFrame(i), HasFrame(j)
  PROVE  Bytes(as_xdp(Chunk(i))) \intersect Bytes(as_xdp(Chunk(j))) = {}
<1>1. SUFFICES ASSUME NEW a \in BufIdx, NEW b \in BufIdx, a < b, HasFrame(a), HasFrame(b)
               PROVE  Bytes(as_xdp(Chunk(a))) \intersect Bytes(as_xdp(Chunk(b))) = {}
  <2>1. i < j \/ j < i
    BY UmemAssumption DEF BufIdx
  <2> QED
    BY <2>1, <1>1
<1>2. /\ frame_size \in Nat /\ a \in Nat /\ b \in Nat
  BY UmemAssumption DEF BufIdx
<1>3. frame_size * (a + 1) <= frame_size * b
  BY <1>1, <1>2
<1>4. frame_size * (a + 1) = frame_size * a + frame_size
  BY <1>2
<1>5. frame_size * a \in Nat /\ frame_size * b \in Nat
  BY <1>2
<1> QED
  BY <1>2, <1>3, <1>4, <1>5, ChunkOf, <1>1 DEF Bytes, as_xdp, as_xdp_with_len

\* len_frames counts the chunks of frame: the indices below it are those that have
\* one. Only where it saturates is the last index left out.
THEOREM LenFramesCounts ==
  ASSUME NEW idx \in 0 .. U32Max - 1
  PROVE  HasFrame(idx) <=> idx < len_frames
<1> DEFINE count == area_size \div frame_size
<1>1. /\ frame_size \in Nat \ {0} /\ area_size \in Nat /\ idx \in Nat /\ U32Max \in Nat
      /\ idx < U32Max /\ idx \in BufIdx
  BY UmemAssumption DEF BufIdx
<1>2. count \in Nat
  BY <1>1
<1>3. frame_size * count <= area_size /\ area_size < frame_size * count + frame_size
  BY <1>1
<1> HIDE DEF count
<1>4. idx < len_frames <=> idx < count
  BY <1>1, <1>2 DEF len_frames, count
<1>5. idx < count => frame_size * idx + frame_size <= area_size
  <2>1. idx < count => frame_size * (idx + 1) <= frame_size * count
    BY <1>1, <1>2
  <2>2. frame_size * (idx + 1) = frame_size * idx + frame_size
    BY <1>1
  <2>3. frame_size * idx \in Nat /\ frame_size * count \in Nat
    BY <1>1, <1>2
  <2> QED
    BY <1>1, <1>3, <2>1, <2>2, <2>3
<1>6. count <= idx => area_size < frame_size * idx + frame_size
  <2>1. count <= idx => frame_size * count <= frame_size * idx
    BY <1>1, <1>2
  <2>2. frame_size * idx \in Nat /\ frame_size * count \in Nat
    BY <1>1, <1>2
  <2> QED
    BY <1>1, <1>3, <2>1, <2>2
<1>7. frame_size * idx \in Nat
  BY <1>1
<1> QED
  BY <1>1, <1>2, <1>4, <1>5, <1>6, <1>7, FrameFits
=============================================================================
