------------------------------ MODULE UmemCycle ------------------------------
(***************************************************************************)
(* FrameCycle over the chunks of a Umem: a frame is the BufIdx of a chunk,  *)
(* as a client enumerates them with Umem::frame.                           *)
(***************************************************************************)
EXTENDS FrameCycle, UmemFrames

ASSUME UmemCycleAssumption == Frame = {idx \in BufIdx : HasFrame(idx)}

\* What the kernel may read or write, and what the client may.
InKernel == (UNION {nic[p] : p \in Prod}) \union (UNION {Elements(queue[r]) : r \in Ring})
MemoryOf(frames) == UNION {Bytes(as_xdp(Chunk(f))) : f \in frames}

\* Client and kernel share no byte of the area, and the kernel is never sent
\* outside of it: chunks do not overlap, the last one is whole, and a frame is in
\* the hands of one side at a time.
MemoryExclusive ==
  /\ MemoryOf(InKernel) \intersect MemoryOf(pool) = {}
  /\ MemoryOf(Frame) \subseteq 0 .. area_size - 1
=============================================================================
