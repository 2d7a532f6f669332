----------------------------- MODULE RingChannel -----------------------------
(***************************************************************************)
(* What one AF_XDP ring promises its two sides, without heads, caches or   *)
(* slots: a bounded FIFO between a writer and a reader.                    *)
(*                                                                         *)
(* The writer stages items and publishes everything staged at once, or     *)
(* discards it. The reader takes published items in order; an item leaves  *)
(* the channel only when the reader releases what it took, and a reader    *)
(* that gives up without releasing is handed the same items again.         *)
(***************************************************************************)
EXTENDS Naturals, Sequences

CONSTANTS
  Capacity, \* staged and published items together
  Value,    \* the items
  None      \* no item has been taken yet

VARIABLES
  staged,   \* items written but not published
  queue,    \* items published and not released, oldest first
  taken,    \* how many items of queue the reader has taken
  observed  \* the item the reader took last

vars == <<staged, queue, taken, observed>>

Init ==
  /\ staged = <<>>
  /\ queue = <<>>
  /\ taken = 0
  /\ observed = None

Stage(v) ==
  /\ Len(queue) + Len(staged) < Capacity
  /\ staged' = Append(staged, v)
  /\ UNCHANGED <<queue, taken, observed>>

Publish ==
  /\ queue' = queue \o staged
  /\ staged' = <<>>
  /\ UNCHANGED <<taken, observed>>

Discard ==
  /\ staged' = <<>>
  /\ UNCHANGED <<queue, taken, observed>>

Take ==
  /\ taken < Len(queue)
  /\ taken' = taken + 1
  /\ observed' = queue[taken + 1]
  /\ UNCHANGED <<staged, queue>>

Release ==
  /\ queue' = SubSeq(queue, taken + 1, Len(queue))
  /\ taken' = 0
  /\ UNCHANGED <<staged, observed>>

Rewind ==
  /\ taken' = 0
  /\ UNCHANGED <<staged, queue, observed>>

Next ==
  \/ \E v \in Value : Stage(v)
  \/ Publish
  \/ Discard
  \/ Take
  \/ Release
  \/ Rewind

Spec == Init /\ [][Next]_vars
=============================================================================
