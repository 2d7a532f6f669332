----------------------------- MODULE MCRingCons -----------------------------
(* Instances of RingCons for TLC; each .cfg sets the size of the ring and the *)
(* client's discipline.                                                      *)
EXTENDS RingCons
=============================================================================
