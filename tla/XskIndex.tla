------------------------------ MODULE XskIndex ------------------------------
(***************************************************************************)
(* Index arithmetic of the rings of src/src/xsk/ring.rs.                    *)
(*                                                                         *)
(* Ring heads and BufIdx values are free-running u32 counters: they wrap   *)
(* at Modulus (2^32 in the program) and are masked to a slot only when the *)
(* descriptor area is addressed.                                           *)
(***************************************************************************)
EXTENDS Integers

CONSTANTS
  Modulus, \* the number of values of a head: 2^32 in the program
  Size     \* the number of entries of the ring (XskRing::size)

\* A power-of-two Size that fits the counters divides Modulus at least twice.
ASSUME SizeAssumption ==
  /\ Size \in Nat \ {0}
  /\ Modulus \in Nat
  /\ \E k \in 2 .. Modulus : Modulus = k * Size

Index == 0 .. Modulus - 1
Slots == 0 .. Size - 1

\* u32::wrapping_add and u32::wrapping_sub, for operands in Index.
WAdd(a, b) == IF a + b < Modulus THEN a + b ELSE a + b - Modulus
WSub(a, b) == IF a >= b THEN a - b ELSE a - b + Modulus

\* idx & mask, where mask = size - 1 and size is a power of two.
Slot(idx) == idx % Size

\* The slots of n consecutive indices from idx on.
Window(idx, n) == {Slot(WAdd(idx, k)) : k \in 0 .. n - 1}

AtMost(free, end) == IF free < end THEN free ELSE end
=============================================================================
