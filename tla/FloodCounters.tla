---------------------------- MODULE FloodCounters ----------------------------
(***************************************************************************)
(* The threads of src/examples/flood-mt.rs: senders that share a budget of  *)
(* `total` packets, completers that reap what was sent, and the counters    *)
(* they coordinate by, without a lock.                                     *)
(*                                                                         *)
(* A thread is interrupted between any two accesses to the counters that    *)
(* another thread could tell apart. All packets name the same frame, so     *)
(* that a ring is the number of its entries. Counters are read sequentially *)
(* consistently: `sent` and `completed` only grow, and a stale value of     *)
(* them is one that was read earlier.                                      *)
(***************************************************************************)
EXTENDS Integers, FiniteSets

CONSTANTS
  Sender,         \* threads with a RingTx
  Completer,      \* threads with a DeviceQueue
  QueueOf,        \* the queue a sender's socket is bound to
  total,          \* packets to send
  batch,          \* most packets in one iteration of a loop
  TxSize,         \* entries of a TX ring
  CompleteSize,   \* entries of a completion ring
  WAKE_THRESHOLD  \* stalls of the completers between two wakes of a sender

ASSUME FloodAssumption ==
  /\ IsFiniteSet(Sender) /\ IsFiniteSet(Completer)
  /\ QueueOf \in [Sender -> Completer]
  /\ {total, batch, TxSize, CompleteSize, WAKE_THRESHOLD} \subseteq Nat \ {0}

VARIABLES
  sent_reserved, sent, completed, \* shared counters
  stalls,     \* per sender: stall_count above its last threshold, up to MaxStalls
  sender,     \* control state and locals of a sender
  completer,  \* control state and locals of a completer
  tx, comp,   \* entries in each TX and completion ring
  awake       \* kernel: it serves the TX ring

counters == <<sent_reserved, sent, completed>>
rings == <<tx, comp, awake>>
vars == <<counters, stalls, sender, completer, rings>>

\* One more than makes a sender wake the kernel. Bounds stall_count, which grows
\* for ever: MaxStalls stands for itself and all that is more.
MaxStalls == WAKE_THRESHOLD + 1

AtMost(a, b) == IF a < b THEN a ELSE b

\* u32::saturating_sub
SaturatingSub(a, b) == IF a > b THEN a - b ELSE 0

\* What a ring grants out of `there`: its cached heads may be behind, but it
\* grants something if something is there.
Granted(there, wanted) ==
  {n \in 0 .. AtMost(there, wanted) : n = 0 => AtMost(there, wanted) = 0}

\* Threads at the top of their loops.
SenderStart == [pc |-> "check", send_batch |-> 0, sent_now |-> 0]
CompleterStart == [pc |-> "completed", current |-> 0, comp_batch |-> 0, comp_now |-> 0]

Init ==
  /\ sent_reserved = 0 /\ sent = 0 /\ completed = 0
  /\ stalls = [s \in Sender |-> 0]
  /\ sender = [s \in Sender |-> SenderStart]
  /\ completer = [c \in Completer |-> CompleterStart]
  /\ tx = [s \in Sender |-> 0]
  /\ comp = [c \in Completer |-> 0]
  /\ awake = [s \in Sender |-> FALSE]

-----------------------------------------------------------------------------
(* Senders *)

At(s, pc) == sender[s].pc = pc
Go(s, pc) == sender' = [sender EXCEPT ![s].pc = pc]

\* A sender stops once it has seen both counters at total. They only grow, so that
\* its two loads are as good as one at the time of the second.
CheckEnd(s) ==
  /\ At(s, "check")
  /\ Go(s, IF sent >= total /\ completed >= total THEN "done" ELSE "reserve")
  /\ UNCHANGED <<counters, stalls, completer, rings>>

\* What is left of the budget after n packets, for one batch.
Budget(n) == AtMost(SaturatingSub(total, n), batch)

\* Mutant: the budget is not looked at.
ReserveBatch(s) ==
  /\ At(s, "reserve")
  /\ sent_reserved' = sent_reserved + batch
  /\ sender' = [sender EXCEPT ![s].pc = "transmit", ![s].send_batch = batch]
  /\ UNCHANGED <<sent, completed, stalls, completer, rings>>

\* sent_reserved.fetch_update
Reserve(s) ==
  /\ At(s, "reserve")
  /\ sent_reserved' = sent_reserved + Budget(sent_reserved)
  /\ sender' = [sender EXCEPT ![s].pc = "transmit", ![s].send_batch = Budget(sent_reserved)]
  /\ UNCHANGED <<sent, completed, stalls, completer, rings>>

\* transmit, insert as many descriptors as there are slots, commit.
Transmit(s) ==
  /\ At(s, "transmit")
  /\ \E sent_now \in Granted(TxSize - tx[s], sender[s].send_batch) :
       /\ tx' = [tx EXCEPT ![s] = @ + sent_now]
       /\ sender' = [sender EXCEPT ![s].pc = "give_back", ![s].sent_now = sent_now]
  /\ UNCHANGED <<counters, stalls, completer, comp, awake>>

\* The sender wakes the kernel after enough stalls of the completers, and does
\* not notice when that fails. The threshold grows: what is left of MaxStalls, or
\* more, is at least 1.
WakeIfStalled(s) ==
  \/ /\ stalls[s] > WAKE_THRESHOLD
     /\ \E n \in 1 .. MaxStalls : stalls' = [stalls EXCEPT ![s] = n]
     /\ \E woken \in {awake[s], TRUE} : awake' = [awake EXCEPT ![s] = woken]
  \/ /\ stalls[s] <= WAKE_THRESHOLD
     /\ UNCHANGED <<stalls, awake>>

\* Mutant: all of the reservation is given back.
GiveBackAll(s) ==
  /\ At(s, "give_back")
  /\ WakeIfStalled(s)
  /\ sent_reserved' = sent_reserved - sender[s].send_batch
  /\ Go(s, "count")
  /\ UNCHANGED <<sent, completed, completer, tx, comp>>

\* Mutant: what found no slot stays reserved.
GiveBackNothing(s) ==
  /\ At(s, "give_back")
  /\ WakeIfStalled(s)
  /\ Go(s, "count")
  /\ UNCHANGED <<counters, completer, tx, comp>>

\* sent_reserved.fetch_sub: the part of the reservation that found no slot.
GiveBack(s) ==
  /\ At(s, "give_back")
  /\ WakeIfStalled(s)
  /\ sent_reserved' = sent_reserved - (sender[s].send_batch - sender[s].sent_now)
  /\ Go(s, "count")
  /\ UNCHANGED <<sent, completed, completer, tx, comp>>

\* sent.fetch_add
CountSent(s) ==
  /\ At(s, "count")
  /\ sent' = sent + sender[s].sent_now
  /\ sender' = [sender EXCEPT ![s] = SenderStart]
  /\ UNCHANGED <<sent_reserved, completed, stalls, completer, rings>>

-----------------------------------------------------------------------------
(* Completers *)

AtC(c, pc) == completer[c].pc = pc

\* A completer stops when it finds completed at total.
LoadCurrent(c) ==
  /\ AtC(c, "completed")
  /\ completer' = [completer EXCEPT ![c].current = completed,
                                    ![c].pc = IF completed = total THEN "done" ELSE "sent"]
  /\ UNCHANGED <<counters, stalls, sender, rings>>

\* Packets of a sender that has not counted them yet may be completed already:
\* completed runs ahead of sent when there are several completers.
LoadBatch(c) ==
  /\ AtC(c, "sent")
  /\ completer' = [completer EXCEPT
       ![c].comp_batch = AtMost(SaturatingSub(sent, completer[c].current), batch),
       ![c].current = 0,
       ![c].pc = "reap"]
  /\ UNCHANGED <<counters, stalls, sender, rings>>

\* complete, read while there is something, release. A completer that reaps nothing
\* increments stall_count; adding nothing to completed is then no step of its own.
Reap(c) ==
  /\ AtC(c, "reap")
  /\ \E comp_now \in Granted(comp[c], completer[c].comp_batch) :
       /\ comp' = [comp EXCEPT ![c] = @ - comp_now]
       /\ \/ /\ comp_now > 0
             /\ completer' = [completer EXCEPT ![c].pc = "count", ![c].comp_now = comp_now]
             /\ UNCHANGED stalls
          \/ /\ comp_now = 0
             /\ completer' = [completer EXCEPT ![c] = CompleterStart]
             /\ stalls' = [s \in Sender |-> AtMost(stalls[s] + 1, MaxStalls)]
  /\ UNCHANGED <<counters, sender, tx, awake>>

\* Mutant: the batch is counted, not what was reaped of it.
CountBatch(c) ==
  /\ AtC(c, "count")
  /\ completed' = completed + completer[c].comp_batch
  /\ completer' = [completer EXCEPT ![c] = CompleterStart]
  /\ UNCHANGED <<sent_reserved, sent, stalls, sender, rings>>

\* completed.fetch_add
CountCompleted(c) ==
  /\ AtC(c, "count")
  /\ completed' = completed + completer[c].comp_now
  /\ completer' = [completer EXCEPT ![c] = CompleterStart]
  /\ UNCHANGED <<sent_reserved, sent, stalls, sender, rings>>

-----------------------------------------------------------------------------
(* The kernel *)

CanSend(s) == tx[s] > 0 /\ comp[QueueOf[s]] < CompleteSize

\* It sends a packet, and may leave the rest for the next wake.
KernelSend(s) ==
  /\ awake[s] /\ CanSend(s)
  /\ tx' = [tx EXCEPT ![s] = @ - 1]
  /\ comp' = [comp EXCEPT ![QueueOf[s]] = @ + 1]
  /\ \E more \in BOOLEAN : awake' = [awake EXCEPT ![s] = more]
  /\ UNCHANGED <<counters, stalls, sender, completer>>

KernelSleep(s) ==
  /\ awake[s] /\ ~CanSend(s)
  /\ awake' = [awake EXCEPT ![s] = FALSE]
  /\ UNCHANGED <<counters, stalls, sender, completer, tx, comp>>

-----------------------------------------------------------------------------
SenderStep(s) ==
  \/ CheckEnd(s)
  \/ Reserve(s) \/ Transmit(s) \/ GiveBack(s) \/ CountSent(s)

CompleterStep(c) ==
  LoadCurrent(c) \/ LoadBatch(c) \/ Reap(c) \/ CountCompleted(c)

Next ==
  \/ \E s \in Sender : SenderStep(s) \/ KernelSend(s) \/ KernelSleep(s)
  \/ \E c \in Completer : CompleterStep(c)

Spec == Init /\ [][Next]_vars

\* Every thread runs, a wake that is tried again and again succeeds, and a kernel
\* that is awake sends.
Fairness ==
  /\ \A s \in Sender : /\ WF_vars(SenderStep(s))
                       /\ SF_vars(GiveBack(s) /\ awake'[s])
                       /\ WF_vars(KernelSend(s))
  /\ \A c \in Completer : WF_vars(CompleterStep(c))

FairSpec == Spec /\ Fairness

-----------------------------------------------------------------------------
(* Properties *)

\* Every variable keeps its type; no counter leaves 0 .. total, whose end is the
\* only value of completed that stops a completer.
TypeOK ==
  /\ {sent_reserved, sent, completed} \subseteq 0 .. total
  /\ stalls \in [Sender -> 0 .. MaxStalls]
  /\ \A s \in Sender :
       /\ sender[s].pc \in {"check", "reserve", "transmit", "give_back", "count", "done"}
       /\ sender[s].send_batch \in 0 .. batch
       /\ sender[s].sent_now \in 0 .. sender[s].send_batch
  /\ \A c \in Completer :
       /\ completer[c].pc \in {"completed", "sent", "reap", "count", "done"}
       /\ completer[c].current \in 0 .. total
       /\ completer[c].comp_batch \in 0 .. batch
       /\ completer[c].comp_now \in 0 .. completer[c].comp_batch
  /\ tx \in [Sender -> 0 .. TxSize]
  /\ comp \in [Completer -> 0 .. CompleteSize]
  /\ awake \in [Sender -> BOOLEAN]

\* The sum of the numbers f[i]: the units that all of them have.
SumOver(f) == Cardinality(UNION {{i} \X (1 .. f[i]) : i \in DOMAIN f})

\* What s has reserved without counting it, and sent without counting it.
Reserved == [s \in Sender |->
  IF \E pc \in {"transmit", "give_back"} : At(s, pc) THEN sender[s].send_batch
  ELSE IF At(s, "count") THEN sender[s].sent_now
  ELSE 0]
Uncounted == [s \in Sender |->
  IF \E pc \in {"give_back", "count"} : At(s, pc) THEN sender[s].sent_now ELSE 0]
Reaped == [c \in Completer |-> IF AtC(c, "count") THEN completer[c].comp_now ELSE 0]

\* The budget is shared out exactly: what is reserved was counted by a sender or
\* is in the hands of one, however the two updates of sent_reserved and the update
\* of sent of several senders interleave.
BudgetExact == sent_reserved = sent + SumOver(Reserved)

\* Every packet in a TX ring, in a completion ring or reaped comes out of the
\* budget: at no time were more than total packets committed, and completed counts
\* each of them once.
PacketsExact ==
  LET committed == sent + SumOver(Uncounted)
  IN  /\ committed <= total
      /\ committed = SumOver(tx) + SumOver(comp) + SumOver(Reaped) + completed

\* All threads end, after total packets were sent and completed: no reservation
\* stays with a sender, no thread misses the end of the others, and the kernel is
\* woken as often as that takes.
Ends ==
  <>(/\ \A s \in Sender : At(s, "done") /\ tx[s] = 0
     /\ \A c \in Completer : AtC(c, "done") /\ comp[c] = 0)
=============================================================================
