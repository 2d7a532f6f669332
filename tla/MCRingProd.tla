----------------------------- MODULE MCRingProd -----------------------------
(* Instances of RingProd for TLC; each .cfg sets the size of the ring and the *)
(* client's discipline.                                                      *)
EXTENDS RingProd
=============================================================================
