----------------------------- MODULE MCFrameCycle -----------------------------
(* Instance of FrameCycle and UmemFrames for TLC.                            *)
EXTENDS UmemCycle

\* The consumer rings are full with one entry, the kernel has to wait for them.
SmallDepth == [fill |-> 2, tx |-> 2, rx |-> 1, comp |-> 1]

Frames == {idx \in BufIdx : HasFrame(idx)}
=============================================================================
