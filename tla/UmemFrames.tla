------------------------------ MODULE UmemFrames ------------------------------
(***************************************************************************)
(* The chunks of a Umem: frame, len_frames and the descriptors of a chunk   *)
(* in src/src/xsk/umem.rs. Indices and frame_size are u32; an offset is a   *)
(* u64 product of the two and can not overflow.                            *)
(***************************************************************************)
EXTENDS Integers

CONSTANTS
  area_size,  \* bytes of the area passed to Umem::new
  frame_size, \* UmemConfig::frame_size
  U32Max      \* u32::MAX

\* Umem::new asserts that frame_size is not zero.
ASSUME UmemAssumption ==
  /\ area_size \in Nat
  /\ U32Max \in Nat
  /\ frame_size \in 1 .. U32Max

BufIdx == 0 .. U32Max

-----------------------------------------------------------------------------
(* Option<u64>: None, as <<>>, is less than any Some *)

None == <<>>
Some(x) == <<x>>

CheckedSub(a, b) == IF b <= a THEN Some(a - b) ELSE None

LessOption(a, b) == b # None /\ (a = None \/ a[1] < b[1])

-----------------------------------------------------------------------------
\* Mutant: a chunk needs to begin inside of the area only.
frameBegins(idx) ==
  LET offset == frame_size * idx
  IN  IF LessOption(Some(area_size), Some(offset)) THEN None
      ELSE Some([offset |-> offset, len |-> frame_size])

\* Umem::frame. An area smaller than one chunk has none: None < Some(0).
frame(idx) ==
  LET offset == frame_size * idx
  IN  IF LessOption(CheckedSub(area_size, frame_size), Some(offset)) THEN None
      ELSE Some([offset |-> offset, len |-> frame_size])

HasFrame(idx) == frame(idx) # None
Chunk(idx) == frame(idx)[1]

\* Umem::len_frames, which saturates.
len_frames ==
  LET count == area_size \div frame_size
  IN  IF count <= U32Max THEN count ELSE U32Max

\* UmemChunk::as_xdp_with_len; a longer len is a bug of the caller.
as_xdp_with_len(chunk, len) == [addr |-> chunk.offset, len |-> len]

\* UmemChunk::as_xdp
as_xdp(chunk) == as_xdp_with_len(chunk, chunk.len)

\* The bytes of the area that a descriptor names.
Bytes(desc) == desc.addr .. desc.addr + desc.len - 1
=============================================================================
