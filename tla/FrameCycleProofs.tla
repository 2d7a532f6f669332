--------------------------- MODULE FrameCycleProofs ---------------------------
(***************************************************************************)
(* Proofs about FrameCycle and UmemCycle, for every set of frames, every    *)
(* depth of the rings, and every area and frame size.                       *)
(***************************************************************************)
EXTENDS UmemCycle, UmemFramesProofs, SequenceTheorems, FiniteSetTheorems,
  FunctionTheorems

-----------------------------------------------------------------------------
(* Types and room *)

\* How many entries of a ring are published, and staged.
used(r) == Len(queue[r])
pending(p) == Len(staged[p])

\* A writer has room for what it may still insert; only an open one stages.
RoomOK(p) ==
  /\ used(p) + pending(p) + handle[p].remain <= Depth[p]
  /\ handle[p].state # "open" => staged[p] = <<>>

\* A reader has entries for what it may still read; only an open one has taken any.
ReadOK(c) ==
  /\ used(c) <= Depth[c]
  /\ taken[c] + handle[c].remain <= used(c)
  /\ handle[c].state # "open" => taken[c] = 0

SeqType ==
  /\ queue \in [Ring -> Seq(Frame)]
  /\ staged \in [Prod -> Seq(Frame)]
  /\ taken \in [Cons -> Nat]
  /\ pool \subseteq Frame
  /\ handle \in [Ring -> [state : {"closed", "open", "done"}, remain : Nat]]
  /\ nic \in [Prod -> SUBSET Frame]
  /\ power \in [Prod -> {"awake", "dozing", "asleep"}]

\* TypeOK is not inductive: it says neither how many slots an open handle still has
\* nor that a handle that is not open has staged and taken nothing.
TypeInv ==
  /\ SeqType
  /\ \A p \in Prod : RoomOK(p)
  /\ \A c \in Cons : ReadOK(c)

\* The rings and what the kernel moves between them.
LEMMA RingFacts ==
  /\ Prod = {"fill", "tx"} /\ Cons = {"rx", "comp"} /\ Ring = {"fill", "tx", "rx", "comp"}
  /\ Prod \subseteq Ring /\ Cons \subseteq Ring /\ Prod \intersect Cons = {}
  /\ \A p \in Prod : Out(p) \in Cons
  /\ Out("fill") = "rx" /\ Out("tx") = "comp"
  /\ \A r \in Ring : Depth[r] \in Nat
<1>1. Prod = {"fill", "tx"} /\ Out("fill") = "rx" /\ Out("tx") = "comp"
  BY DEF Prod, Out
<1>2. Cons = {"rx", "comp"}
  BY <1>1 DEF Cons
<1>3. Ring = {"fill", "tx", "rx", "comp"}
  BY <1>1, <1>2 DEF Ring
<1> QED
  BY <1>1, <1>2, <1>3, FrameCycleAssumption

\* The frames of a sequence of frames are frames.
LEMMA ElementsType ==
  ASSUME NEW s \in Seq(Frame)
  PROVE  Elements(s) \subseteq Frame /\ Len(s) \in Nat /\ DOMAIN s = 1 .. Len(s)
BY LenProperties, ElementOfSeq DEF Elements

\* At the start the rings are empty and all handles are closed.
LEMMA InitType == Init => TypeInv
<1> SUFFICES ASSUME Init PROVE TypeInv
  OBVIOUS
<1>1. <<>> \in Seq(Frame) /\ Len(<<>>) = 0
  BY EmptySeq
<1>2. SeqType
  BY <1>1 DEF Init, SeqType, NoHandle
<1>3. \A p \in Prod : RoomOK(p)
  BY <1>1, RingFacts DEF Init, RoomOK, NoHandle, used, pending
<1>4. \A c \in Cons : ReadOK(c)
  BY <1>1, RingFacts DEF Init, ReadOK, NoHandle, used
<1> QED
  BY <1>2, <1>3, <1>4 DEF TypeInv

\* What a handle, a producer ring and a consumer ring have in a state of these types.
LEMMA HandleType ==
  ASSUME SeqType, NEW r \in Ring
  PROVE  /\ handle[r].state \in {"closed", "open", "done"} /\ handle[r].remain \in Nat
         /\ handle[r] \in [state : {"closed", "open", "done"}, remain : Nat]
         /\ queue[r] \in Seq(Frame) /\ used(r) \in Nat
BY LenProperties DEF SeqType, used

LEMMA ProdType ==
  ASSUME SeqType, NEW p \in Prod
  PROVE  staged[p] \in Seq(Frame) /\ pending(p) \in Nat
BY LenProperties DEF SeqType, pending

LEMMA ConsType ==
  ASSUME SeqType, NEW c \in Cons
  PROVE  taken[c] \in Nat
BY DEF SeqType

\* A ring whose handle and entries a step leaves alone stays as it is.
LEMMA RoomFrame ==
  ASSUME NEW p \in Prod, RoomOK(p), UNCHANGED <<queue[p], staged[p], handle[p]>>
  PROVE  RoomOK(p)'
BY DEF RoomOK, used, pending

LEMMA ReadFrame ==
  ASSUME NEW c \in Cons, ReadOK(c), UNCHANGED <<queue[c], taken[c], handle[c]>>
  PROVE  ReadOK(c)'
BY DEF ReadOK, used

\* A handle is opened with no more than there is.
LEMMA OpenType ==
  ASSUME TypeInv, \/ \E p \in Prod : OpenWriter(p)
                  \/ \E c \in Cons : OpenReader(c)
  PROVE  TypeInv'
<1>1. ASSUME NEW r \in Ring, NEW there \in Int, Open(r, there),
             NEW count \in Nat, count <= there,
             handle' = [handle EXCEPT ![r] = [state |-> "open", remain |-> count]]
      PROVE  /\ SeqType' /\ UNCHANGED <<queue, staged, taken>>
             /\ handle[r].state = "closed"
             /\ handle'[r] = [state |-> "open", remain |-> count]
             /\ \A q \in Ring : q # r => handle'[q] = handle[q]
  <2>1. UNCHANGED <<queue, staged, taken, pool, nic, power>>
    BY <1>1 DEF Open, rings
  <2>2. handle[r].state = "closed"
    BY <1>1 DEF Open, Borrowed
  <2>3. /\ handle' \in [Ring -> [state : {"closed", "open", "done"}, remain : Nat]]
        /\ handle'[r] = [state |-> "open", remain |-> count]
        /\ \A q \in Ring : q # r => handle'[q] = handle[q]
    BY <1>1 DEF TypeInv, SeqType
  <2> QED
    BY <2>1, <2>2, <2>3 DEF TypeInv, SeqType
<1>2. ASSUME NEW p \in Prod, OpenWriter(p) PROVE TypeInv'
  <2> DEFINE there == Depth[p] - used(p)
  <2>1. p \in Ring /\ there \in Int /\ used(p) \in Nat /\ Depth[p] \in Nat
    BY RingFacts, HandleType DEF TypeInv
  <2>2. Open(p, there)
    BY <1>2 DEF OpenWriter, used
  <2>3. PICK count \in 0 .. there :
          handle' = [handle EXCEPT ![p] = [state |-> "open", remain |-> count]]
    BY <2>2 DEF Open
  <2>4. count \in Nat /\ count <= there
    BY <2>1, <2>3
  <2> HIDE DEF there
  <2>5. /\ SeqType' /\ UNCHANGED <<queue, staged, taken>> /\ handle[p].state = "closed"
        /\ handle'[p] = [state |-> "open", remain |-> count]
        /\ \A q \in Ring : q # p => handle'[q] = handle[q]
    BY <1>1, <2>1, <2>2, <2>3, <2>4
  <2>6. RoomOK(p)'
    <3>1. pending(p) = 0
      BY <2>5, EmptySeq DEF TypeInv, RoomOK, pending
    <3>2. used(p)' = used(p) /\ pending(p)' = pending(p)
      BY <2>5 DEF used, pending
    <3> QED
      BY <2>1, <2>4, <2>5, <3>1, <3>2 DEF RoomOK, there
  <2>7. \A q \in Prod : RoomOK(q)'
    BY <2>5, <2>6, RoomFrame, RingFacts DEF TypeInv
  <2>8. \A c \in Cons : ReadOK(c)'
    BY <2>5, ReadFrame, RingFacts DEF TypeInv
  <2> QED
    BY <2>5, <2>7, <2>8 DEF TypeInv
<1>3. ASSUME NEW c \in Cons, OpenReader(c) PROVE TypeInv'
  <2> DEFINE there == used(c)
  <2>1. c \in Ring /\ there \in Int /\ there \in Nat
    BY RingFacts, HandleType DEF TypeInv
  <2>2. Open(c, there)
    BY <1>3 DEF OpenReader, used
  <2>3. PICK count \in 0 .. there :
          handle' = [handle EXCEPT ![c] = [state |-> "open", remain |-> count]]
    BY <2>2 DEF Open
  <2>4. count \in Nat /\ count <= there
    BY <2>1, <2>3
  <2> HIDE DEF there
  <2>5. /\ SeqType' /\ UNCHANGED <<queue, staged, taken>> /\ handle[c].state = "closed"
        /\ handle'[c] = [state |-> "open", remain |-> count]
        /\ \A q \in Ring : q # c => handle'[q] = handle[q]
    BY <1>1, <2>1, <2>2, <2>3, <2>4
  <2>6. ReadOK(c)'
    <3>1. taken[c] = 0 /\ used(c) <= Depth[c] /\ used(c)' = used(c)
      BY <2>5 DEF TypeInv, ReadOK, used
    <3> QED
      BY <2>1, <2>4, <2>5, <3>1 DEF ReadOK, there
  <2>7. \A d \in Cons : ReadOK(d)'
    BY <2>5, <2>6, ReadFrame, RingFacts DEF TypeInv
  <2>8. \A p \in Prod : RoomOK(p)'
    BY <2>5, RoomFrame, RingFacts DEF TypeInv
  <2> QED
    BY <2>5, <2>7, <2>8 DEF TypeInv
<1> QED
  BY <1>2, <1>3

\* insert moves a slot from what is left to what is staged, or none.
LEMMA InsertType ==
  ASSUME TypeInv, NEW p \in Prod, NEW f \in Frame, Insert(p, f)
  PROVE  TypeInv'
<1>1. /\ UNCHANGED <<queue, taken, nic, power>> /\ pool' \subseteq Frame
      /\ p \in Ring /\ handle[p].state = "open"
      /\ SeqType
  BY RingFacts DEF Insert, Polled, TypeInv, SeqType
<1>2. CASE /\ handle[p].remain > 0
           /\ staged' = [staged EXCEPT ![p] = Append(@, f)]
           /\ handle' = [handle EXCEPT ![p].remain = @ - 1]
  <2>1. /\ pending(p) \in Nat /\ Append(staged[p], f) \in Seq(Frame)
        /\ Len(Append(staged[p], f)) = pending(p) + 1
    BY <1>1, ProdType, AppendProperties DEF pending
  <2>2. handle[p].remain \in Nat /\ handle[p].remain - 1 \in Nat
    BY <1>1, <1>2, HandleType
  <2>3. /\ staged' \in [Prod -> Seq(Frame)] /\ staged'[p] = Append(staged[p], f)
        /\ \A q \in Prod : q # p => staged'[q] = staged[q]
    BY <1>1, <1>2, <2>1 DEF SeqType
  <2>4. /\ handle' \in [Ring -> [state : {"closed", "open", "done"}, remain : Nat]]
        /\ handle'[p].remain = handle[p].remain - 1 /\ handle'[p].state = handle[p].state
        /\ \A q \in Ring : q # p => handle'[q] = handle[q]
    BY <1>1, <1>2, <2>2 DEF SeqType
  <2>5. SeqType'
    BY <1>1, <2>3, <2>4 DEF SeqType
  <2>6. RoomOK(p)'
    <3>1. used(p) \in Nat /\ Depth[p] \in Nat
      BY <1>1, HandleType, RingFacts
    <3>2. used(p) + pending(p) + handle[p].remain <= Depth[p]
      BY DEF TypeInv, RoomOK
    <3>3. /\ used(p)' = used(p) /\ pending(p)' = pending(p) + 1
          /\ handle'[p].remain = handle[p].remain - 1 /\ handle'[p].state = "open"
      BY <1>1, <2>1, <2>3, <2>4 DEF used, pending
    <3> QED
      BY <2>1, <2>2, <3>1, <3>2, <3>3 DEF RoomOK
  <2>7. \A q \in Prod : RoomOK(q)'
    BY <1>1, <2>3, <2>4, <2>6, RoomFrame, RingFacts DEF TypeInv
  <2>8. \A c \in Cons : ReadOK(c)'
    BY <1>1, <2>4, ReadFrame, RingFacts DEF TypeInv
  <2> QED
    BY <2>5, <2>7, <2>8 DEF TypeInv
<1>3. CASE UNCHANGED <<staged, handle>>
  <2>1. SeqType'
    BY <1>1, <1>3 DEF SeqType
  <2> QED
    BY <1>1, <1>3, <2>1 DEF TypeInv, RoomOK, ReadOK, used, pending
<1> QED
  BY <1>2, <1>3 DEF Insert

\* What a step does to the handle, the entries and the staged entries of one
\* producer ring, and to nothing of another ring.
LEMMA ProdStep ==
  ASSUME TypeInv, NEW p \in Prod,
         NEW q \in Seq(Frame), NEW s \in Seq(Frame),
         NEW h \in [state : {"closed", "open", "done"}, remain : Nat],
         queue' = [queue EXCEPT ![p] = q], staged' = [staged EXCEPT ![p] = s],
         handle' = [handle EXCEPT ![p] = h], UNCHANGED taken,
         pool' \subseteq Frame, nic' \in [Prod -> SUBSET Frame],
         power' \in [Prod -> {"awake", "dozing", "asleep"}],
         Len(q) + Len(s) + h.remain <= Depth[p], h.state # "open" => s = <<>>
  PROVE  TypeInv'
<1>1. SeqType /\ p \in Ring
  BY RingFacts DEF TypeInv
<1>2. /\ queue' \in [Ring -> Seq(Frame)] /\ queue'[p] = q
      /\ \A r \in Ring : r # p => queue'[r] = queue[r]
  BY <1>1 DEF SeqType
<1>3. /\ staged' \in [Prod -> Seq(Frame)] /\ staged'[p] = s
      /\ \A r \in Prod : r # p => staged'[r] = staged[r]
  BY <1>1 DEF SeqType
<1>4. /\ handle' \in [Ring -> [state : {"closed", "open", "done"}, remain : Nat]]
      /\ handle'[p] = h
      /\ \A r \in Ring : r # p => handle'[r] = handle[r]
  BY <1>1 DEF SeqType
<1>5. SeqType'
  BY <1>1, <1>2, <1>3, <1>4 DEF SeqType
<1>6. RoomOK(p)'
  BY <1>2, <1>3, <1>4 DEF RoomOK, used, pending
<1>7. \A r \in Prod : RoomOK(r)'
  BY <1>2, <1>3, <1>4, <1>6, RoomFrame, RingFacts DEF TypeInv
<1>8. \A c \in Cons : ReadOK(c)'
  BY <1>2, <1>4, ReadFrame, RingFacts DEF TypeInv
<1> QED
  BY <1>5, <1>7, <1>8 DEF TypeInv

\* The same for a consumer ring.
LEMMA ConsStep ==
  ASSUME TypeInv, NEW c \in Cons,
         NEW q \in Seq(Frame), NEW t \in Nat,
         NEW h \in [state : {"closed", "open", "done"}, remain : Nat],
         queue' = [queue EXCEPT ![c] = q], taken' = [taken EXCEPT ![c] = t],
         handle' = [handle EXCEPT ![c] = h], UNCHANGED staged,
         pool' \subseteq Frame, nic' \in [Prod -> SUBSET Frame],
         power' \in [Prod -> {"awake", "dozing", "asleep"}],
         Len(q) <= Depth[c], t + h.remain <= Len(q), h.state # "open" => t = 0
  PROVE  TypeInv'
<1>1. SeqType /\ c \in Ring
  BY RingFacts DEF TypeInv
<1>2. /\ queue' \in [Ring -> Seq(Frame)] /\ queue'[c] = q
      /\ \A r \in Ring : r # c => queue'[r] = queue[r]
  BY <1>1 DEF SeqType
<1>3. /\ taken' \in [Cons -> Nat] /\ taken'[c] = t
      /\ \A r \in Cons : r # c => taken'[r] = taken[r]
  BY <1>1 DEF SeqType
<1>4. /\ handle' \in [Ring -> [state : {"closed", "open", "done"}, remain : Nat]]
      /\ handle'[c] = h
      /\ \A r \in Ring : r # c => handle'[r] = handle[r]
  BY <1>1 DEF SeqType
<1>5. SeqType'
  BY <1>1, <1>2, <1>3, <1>4 DEF SeqType
<1>6. ReadOK(c)'
  BY <1>2, <1>3, <1>4 DEF ReadOK, used
<1>7. \A r \in Cons : ReadOK(r)'
  BY <1>2, <1>3, <1>4, <1>6, ReadFrame, RingFacts DEF TypeInv
<1>8. \A r \in Prod : RoomOK(r)'
  BY <1>2, <1>4, RoomFrame, RingFacts DEF TypeInv
<1> QED
  BY <1>5, <1>7, <1>8 DEF TypeInv

\* commit and the drop of a writer leave nothing staged.
LEMMA WriterEndType ==
  ASSUME TypeInv, NEW p \in Prod, Commit(p) \/ DropWriter(p)
  PROVE  TypeInv'
<1>1. /\ SeqType /\ p \in Ring /\ queue[p] \in Seq(Frame) /\ staged[p] \in Seq(Frame)
      /\ used(p) \in Nat /\ pending(p) \in Nat
      /\ handle[p].remain \in Nat /\ Depth[p] \in Nat
      /\ used(p) + pending(p) + handle[p].remain <= Depth[p]
  BY RingFacts, HandleType, ProdType DEF TypeInv, RoomOK
<1>2. <<>> \in Seq(Frame) /\ Len(<<>>) = 0
  BY EmptySeq
<1>3. /\ NoHandle \in [state : {"closed", "open", "done"}, remain : Nat] /\ NoHandle.remain = 0
      /\ Done \in [state : {"closed", "open", "done"}, remain : Nat] /\ Done.remain = 0
  BY DEF NoHandle, Done
<1>4. CASE Commit(p)
  <2> DEFINE q == queue[p] \o staged[p]
  <2>1. q \in Seq(Frame) /\ Len(q) = used(p) + pending(p)
    BY <1>1, ConcatProperties DEF used, pending
  <2>3. /\ pool' \subseteq Frame /\ nic' \in [Prod -> SUBSET Frame]
        /\ power' \in [Prod -> {"awake", "dozing", "asleep"}]
    BY <1>1, <1>4 DEF Commit, SeqType
  <2>4. /\ queue' = [queue EXCEPT ![p] = q]
        /\ staged' = [staged EXCEPT ![p] = <<>>]
        /\ handle' = [handle EXCEPT ![p] = Done] /\ UNCHANGED taken
    BY <1>4 DEF Commit
  <2> HIDE DEF q
  <2>5. Len(q) + Len(<<>>) + Done.remain <= Depth[p]
    BY <1>1, <1>2, <1>3, <2>1
  <2> QED
    BY <1>2, <1>3, <2>1, <2>3, <2>4, <2>5, ProdStep
<1>5. CASE DropWriter(p)
  <2> DEFINE q == queue[p]
  <2>1. q \in Seq(Frame) /\ Len(q) = used(p)
    BY <1>1 DEF used
  <2>2. /\ pool' \subseteq Frame /\ nic' \in [Prod -> SUBSET Frame]
        /\ power' \in [Prod -> {"awake", "dozing", "asleep"}]
    BY <1>1, <1>5 DEF DropWriter, SeqType
  <2>3. /\ queue' = [queue EXCEPT ![p] = q]
        /\ staged' = [staged EXCEPT ![p] = <<>>]
        /\ handle' = [handle EXCEPT ![p] = NoHandle] /\ UNCHANGED taken
    BY <1>1, <1>5 DEF DropWriter, SeqType
  <2> HIDE DEF q
  <2>4. Len(q) + Len(<<>>) + NoHandle.remain <= Depth[p]
    BY <1>1, <1>2, <1>3, <2>1
  <2> QED
    BY <1>2, <1>3, <2>1, <2>2, <2>3, <2>4, ProdStep
<1> QED
  BY <1>4, <1>5

\* read takes an entry that is left, release and drop take none any more.
LEMMA ReaderType ==
  ASSUME TypeInv, NEW c \in Cons, Read(c) \/ Release(c) \/ DropReader(c)
  PROVE  TypeInv'
<1>1. /\ SeqType /\ c \in Ring /\ queue[c] \in Seq(Frame)
      /\ used(c) \in Nat /\ Len(queue[c]) = used(c)
      /\ handle[c] \in [state : {"closed", "open", "done"}, remain : Nat]
      /\ handle[c].remain \in Nat /\ Depth[c] \in Nat /\ taken[c] \in Nat
      /\ taken[c] + handle[c].remain <= used(c) /\ used(c) <= Depth[c]
  BY RingFacts, HandleType, ConsType DEF TypeInv, ReadOK, used
<1>2. /\ NoHandle \in [state : {"closed", "open", "done"}, remain : Nat] /\ NoHandle.remain = 0
      /\ Done \in [state : {"closed", "open", "done"}, remain : Nat] /\ Done.remain = 0
  BY DEF NoHandle, Done
<1>3. CASE Read(c)
  <2> DEFINE h == [state |-> "open", remain |-> handle[c].remain - 1]
  <2>1. h \in [state : {"closed", "open", "done"}, remain : Nat] /\ h.state = "open"
        /\ h.remain = handle[c].remain - 1
    BY <1>1, <1>3 DEF Read
  <2>2. handle' = [handle EXCEPT ![c] = h]
    <3>1. handle' = [handle EXCEPT ![c].remain = @ - 1] /\ handle[c].state = "open"
      BY <1>3 DEF Read
    <3>2. [handle[c] EXCEPT !.remain = @ - 1] = h
      BY <1>1, <3>1
    <3> QED
      BY <3>1, <3>2
  <2>3. /\ pool' \subseteq Frame /\ nic' \in [Prod -> SUBSET Frame]
        /\ power' \in [Prod -> {"awake", "dozing", "asleep"}]
        /\ queue' = [queue EXCEPT ![c] = queue[c]]
        /\ taken' = [taken EXCEPT ![c] = taken[c] + 1] /\ UNCHANGED staged
    BY <1>1, <1>3 DEF Read, SeqType
  <2> HIDE DEF h
  <2>4. taken[c] + 1 \in Nat /\ (taken[c] + 1) + h.remain <= used(c)
    BY <1>1, <2>1
  <2> QED
    BY <1>1, <2>1, <2>2, <2>3, <2>4, ConsStep
<1>4. CASE Release(c)
  <2>1. /\ Untaken(c) \in Seq(Frame) /\ Len(Untaken(c)) <= Depth[c] /\ Len(Untaken(c)) \in Nat
    <3>1. \A i \in taken[c] + 1 .. Len(queue[c]) : queue[c][i] \in Frame
      BY <1>1, ElementOfSeq
    <3> QED
      BY <1>1, <3>1, SubSeqProperties DEF Untaken
  <2>2. Elements(Taken(c)) \subseteq Frame
    <3>1. \A i \in 1 .. taken[c] : queue[c][i] \in Frame
      BY <1>1, ElementOfSeq
    <3>2. Taken(c) \in Seq(Frame)
      BY <1>1, <3>1, SubSeqProperties DEF Taken
    <3> QED
      BY <3>2, ElementsType
  <2>3. /\ pool' \subseteq Frame /\ nic' \in [Prod -> SUBSET Frame]
        /\ power' \in [Prod -> {"awake", "dozing", "asleep"}]
    BY <1>1, <1>4, <2>2 DEF Release, SeqType
  <2>4. /\ queue' = [queue EXCEPT ![c] = Untaken(c)]
        /\ taken' = [taken EXCEPT ![c] = 0]
        /\ handle' = [handle EXCEPT ![c] = Done] /\ UNCHANGED staged
    BY <1>4 DEF Release
  <2>5. 0 \in Nat /\ 0 + Done.remain <= Len(Untaken(c))
    BY <1>2, <2>1
  <2> QED
    BY <1>2, <2>1, <2>3, <2>4, <2>5, ConsStep
<1>5. CASE DropReader(c)
  <2>1. /\ pool' \subseteq Frame /\ nic' \in [Prod -> SUBSET Frame]
        /\ power' \in [Prod -> {"awake", "dozing", "asleep"}]
        /\ queue' = [queue EXCEPT ![c] = queue[c]]
        /\ taken' = [taken EXCEPT ![c] = 0]
        /\ handle' = [handle EXCEPT ![c] = NoHandle] /\ UNCHANGED staged
    BY <1>1, <1>5 DEF DropReader, SeqType
  <2>2. 0 \in Nat /\ 0 + NoHandle.remain <= used(c)
    BY <1>1, <1>2
  <2> QED
    BY <1>1, <1>2, <2>1, <2>2, ConsStep
<1> QED
  BY <1>3, <1>4, <1>5

\* The kernel takes from one ring and fills the other, which has room.
LEMMA KernelType ==
  ASSUME TypeInv, NEW p \in Prod, \/ KernelTake(p)
                                 \/ \E f \in Frame : KernelFinish(p, f)
  PROVE  TypeInv'
<1>1. CASE KernelTake(p)
  <2>1. /\ SeqType /\ p \in Ring /\ queue[p] \in Seq(Frame) /\ staged[p] \in Seq(Frame)
        /\ used(p) \in Nat /\ pending(p) \in Nat /\ Len(staged[p]) = pending(p)
        /\ handle[p] \in [state : {"closed", "open", "done"}, remain : Nat]
        /\ handle[p].remain \in Nat /\ Depth[p] \in Nat
        /\ used(p) + pending(p) + handle[p].remain <= Depth[p]
        /\ handle[p].state # "open" => staged[p] = <<>>
    BY RingFacts, HandleType, ProdType DEF TypeInv, RoomOK, pending
  <2>2. queue[p] # <<>>
    BY <1>1 DEF KernelTake, CanTake
  <2> DEFINE q == Tail(queue[p])
             s == staged[p]
  <2>3. /\ Head(queue[p]) \in Frame /\ q \in Seq(Frame) /\ Len(q) = used(p) - 1
        /\ s \in Seq(Frame) /\ Len(s) = pending(p)
        /\ handle[p].state # "open" => s = <<>>
    BY <2>1, <2>2, HeadTailProperties DEF used
  <2>4. /\ queue' = [queue EXCEPT ![p] = q]
        /\ staged' = [staged EXCEPT ![p] = s]
        /\ handle' = [handle EXCEPT ![p] = handle[p]] /\ UNCHANGED taken
        /\ pool' \subseteq Frame /\ power' \in [Prod -> {"awake", "dozing", "asleep"}]
    BY <1>1, <2>1 DEF KernelTake, SeqType
  <2>5. nic' \in [Prod -> SUBSET Frame]
    BY <1>1, <2>1, <2>3 DEF KernelTake, SeqType
  <2> HIDE DEF q, s
  <2>6. Len(q) + Len(s) + handle[p].remain <= Depth[p]
    BY <2>1, <2>3
  <2> QED
    BY <2>1, <2>3, <2>4, <2>5, <2>6, ProdStep
<1>2. ASSUME NEW f \in Frame, KernelFinish(p, f) PROVE TypeInv'
  <2> DEFINE c == Out(p)
  <2>1. c \in Cons
    BY RingFacts
  <2> HIDE DEF c
  <2>2. /\ SeqType /\ c \in Ring /\ queue[c] \in Seq(Frame) /\ used(c) \in Nat
        /\ handle[c] \in [state : {"closed", "open", "done"}, remain : Nat]
        /\ handle[c].remain \in Nat /\ Depth[c] \in Nat /\ taken[c] \in Nat
        /\ taken[c] + handle[c].remain <= used(c)
        /\ handle[c].state # "open" => taken[c] = 0
    BY <2>1, RingFacts, HandleType, ConsType DEF TypeInv, ReadOK
  <2> DEFINE q == Append(queue[c], f)
  <2>3. q \in Seq(Frame) /\ Len(q) = used(c) + 1
    BY <2>2, AppendProperties DEF used
  <2>4. /\ queue' = [queue EXCEPT ![c] = q] /\ used(c) < Depth[c]
        /\ taken' = [taken EXCEPT ![c] = taken[c]]
        /\ handle' = [handle EXCEPT ![c] = handle[c]] /\ UNCHANGED staged
        /\ pool' \subseteq Frame /\ power' \in [Prod -> {"awake", "dozing", "asleep"}]
    BY <1>2, <2>1, <2>2 DEF KernelFinish, SeqType, c, used
  <2>5. nic' \in [Prod -> SUBSET Frame]
    BY <1>2, <2>2 DEF KernelFinish, SeqType
  <2> HIDE DEF q
  <2>6. Len(q) <= Depth[c] /\ taken[c] + handle[c].remain <= Len(q)
    BY <2>2, <2>3, <2>4
  <2> QED
    BY <2>1, <2>2, <2>3, <2>4, <2>5, <2>6, ConsStep
<1> QED
  BY <1>1, <1>2

\* Going to sleep and waking up is not about frames.
LEMMA PowerType ==
  ASSUME TypeInv, NEW p \in Prod, Wake(p) \/ KernelDoze(p) \/ KernelSleep(p)
  PROVE  TypeInv' /\ UNCHANGED <<rings, pool, handle, nic>>
<1>1. UNCHANGED <<queue, staged, taken, pool, handle, nic>>
  BY DEF Wake, KernelDoze, KernelSleep, rings
<1>2. power' \in [Prod -> {"awake", "dozing", "asleep"}]
  BY DEF Wake, KernelDoze, KernelSleep, TypeInv, SeqType
<1>3. SeqType'
  BY <1>1, <1>2 DEF TypeInv, SeqType
<1> QED
  BY <1>1, <1>3 DEF TypeInv, RoomOK, ReadOK, used, pending, rings

\* Every step keeps the types and the room of the handles.
LEMMA NextType == TypeInv /\ [Next]_vars => TypeInv'
<1> SUFFICES ASSUME TypeInv, [Next]_vars PROVE TypeInv'
  OBVIOUS
<1>1. CASE UNCHANGED vars
  <2>1. UNCHANGED <<queue, staged, taken, pool, handle, nic, power>>
    BY <1>1 DEF vars, rings
  <2>2. SeqType'
    BY <2>1 DEF TypeInv, SeqType
  <2> QED
    BY <2>1, <2>2 DEF TypeInv, RoomOK, ReadOK, used, pending
<1>2. CASE Client
  BY <1>2, OpenType, InsertType, WriterEndType, ReaderType, PowerType DEF Client
<1>3. CASE Kernel
  BY <1>3, KernelType, PowerType DEF Kernel
<1> QED
  BY <1>1, <1>2, <1>3 DEF Next

\* No ring is ever filled beyond its entries, whatever batches are granted, and
\* whatever part of them is inserted, committed, read and released; a client whose
\* iterator drains included.
THEOREM TypeCorrect == Spec => []TypeOK
<1>1. TypeInv => TypeOK
  <2> SUFFICES ASSUME TypeInv PROVE TypeOK
    OBVIOUS
  <2>1. SeqType
    BY DEF TypeInv
  <2>2. ASSUME NEW p \in Prod
        PROVE  /\ Elements(queue[p]) \subseteq Frame /\ Len(queue[p]) <= Depth[p]
               /\ Elements(staged[p]) \subseteq Frame
               /\ Len(queue[p]) + Len(staged[p]) <= Depth[p]
    <3>1. /\ p \in Ring /\ queue[p] \in Seq(Frame) /\ staged[p] \in Seq(Frame)
          /\ used(p) \in Nat /\ pending(p) \in Nat /\ handle[p].remain \in Nat
          /\ Depth[p] \in Nat /\ used(p) + pending(p) + handle[p].remain <= Depth[p]
      BY <2>1, RingFacts, HandleType, ProdType DEF TypeInv, RoomOK
    <3>2. used(p) <= Depth[p] /\ used(p) + pending(p) <= Depth[p]
      BY <3>1
    <3> QED
      BY <3>1, <3>2, ElementsType DEF used, pending
  <2>3. ASSUME NEW c \in Cons
        PROVE  /\ Elements(queue[c]) \subseteq Frame /\ Len(queue[c]) <= Depth[c]
               /\ taken[c] \in 0 .. Len(queue[c])
    <3>1. /\ c \in Ring /\ queue[c] \in Seq(Frame)
          /\ used(c) \in Nat /\ handle[c].remain \in Nat /\ taken[c] \in Nat
          /\ used(c) <= Depth[c] /\ taken[c] + handle[c].remain <= used(c)
      BY <2>1, RingFacts, HandleType, ConsType DEF TypeInv, ReadOK
    <3>2. taken[c] \in 0 .. used(c)
      BY <3>1
    <3> QED
      BY <3>1, <3>2, ElementsType DEF used
  <2> QED
    BY <2>1, <2>2, <2>3 DEF TypeOK, SeqType, Ring
<1> QED
  BY <1>1, InitType, NextType, PTL DEF Spec

-----------------------------------------------------------------------------
(* How often a frame is in a sequence *)

\* Where f is in a sequence.
Where(f, s) == {i \in DOMAIN s : s[i] = f}

\* A frame is in a sequence as often as it has places there, none if it is not there.
LEMMA CountType ==
  ASSUME NEW s \in Seq(Frame), NEW f
  PROVE  /\ IsFiniteSet(Where(f, s)) /\ Where(f, s) \subseteq 1 .. Len(s)
         /\ Count(f, s) = Cardinality(Where(f, s)) /\ Count(f, s) \in Nat
         /\ Count(f, s) = 0 <=> f \notin Elements(s)
<1>1. DOMAIN s = 1 .. Len(s) /\ Len(s) \in Nat
  BY LenProperties
<1>2. IsFiniteSet(1 .. Len(s)) /\ Where(f, s) \subseteq 1 .. Len(s)
  BY <1>1, FS_Interval DEF Where
<1>3. IsFiniteSet(Where(f, s))
  BY <1>2, FS_Subset
<1>4. Count(f, s) = Cardinality(Where(f, s)) /\ Count(f, s) \in Nat
  BY <1>3, FS_CardinalityType DEF Count, Where
<1>5. Cardinality(Where(f, s)) = 0 <=> Where(f, s) = {}
  BY <1>3, FS_EmptySet
<1>6. Where(f, s) = {} <=> f \notin Elements(s)
  BY DEF Where, Elements
<1> QED
  BY <1>2, <1>3, <1>4, <1>5, <1>6

\* Two sequences hold together what each of them holds.
LEMMA CountConcat ==
  ASSUME NEW s \in Seq(Frame), NEW t \in Seq(Frame), NEW f
  PROVE  /\ s \o t \in Seq(Frame)
         /\ Count(f, s \o t) = Count(f, s) + Count(f, t)
         /\ Elements(s \o t) = Elements(s) \union Elements(t)
<1> DEFINE m == Len(s)
           n == Len(t)
           u == s \o t
           A == Where(f, s)
           B == Where(f, t)
           C == {i + m : i \in B}
           shift == [i \in B |-> i + m]
<1>1. /\ m \in Nat /\ DOMAIN s = 1 .. m
      /\ n \in Nat /\ DOMAIN t = 1 .. n
  BY LenProperties
<1>2. u \in Seq(Frame) /\ Len(u) = m + n
      /\ \A i \in 1 .. m + n : u[i] = IF i <= m THEN s[i] ELSE t[i - m]
  BY ConcatProperties
<1>3. DOMAIN u = 1 .. m + n
  BY <1>2, LenProperties
<1>4. /\ IsFiniteSet(A) /\ A \subseteq 1 .. m /\ Count(f, s) = Cardinality(A)
      /\ IsFiniteSet(B) /\ B \subseteq 1 .. n /\ Count(f, t) = Cardinality(B)
      /\ Count(f, u) = Cardinality(Where(f, u)) /\ Count(f, s) \in Nat /\ Count(f, t) \in Nat
  BY <1>2, CountType
<1> HIDE DEF m, n, u
<1>5. IsFiniteSet(C) /\ Cardinality(C) = Cardinality(B)
  <2>1. \A i \in B : i \in Nat
    BY <1>1, <1>4
  <2>2. shift \in [B -> C]
    OBVIOUS
  <2>3. \A i, j \in B : shift[i] = shift[j] => i = j
    BY <1>1, <2>1
  <2>4. \A k \in C : \E i \in B : shift[i] = k
    OBVIOUS
  <2> HIDE DEF shift, C
  <2>5. shift \in Bijection(B, C)
    BY <2>2, <2>3, <2>4, Fun_IsBij
  <2> QED
    BY <1>4, <2>5, FS_Bijection DEF ExistsBijection
<1>6. A \intersect C = {}
  BY <1>1, <1>4
<1>7. Where(f, u) = A \union C
  <2>1. \A i \in 1 .. m : u[i] = s[i] /\ i \in 1 .. m + n
    BY <1>1, <1>2
  <2>2. \A i \in 1 .. n : u[i + m] = t[i] /\ i + m \in 1 .. m + n
    BY <1>1, <1>2
  <2>3. \A i \in 1 .. m + n : i \in 1 .. m \/ (i - m \in 1 .. n /\ i = (i - m) + m)
    BY <1>1
  <2>4. A \union C \subseteq Where(f, u)
    BY <1>1, <1>3, <1>4, <2>1, <2>2 DEF Where
  <2>5. Where(f, u) \subseteq A \union C
    BY <1>1, <1>3, <2>1, <2>2, <2>3 DEF Where
  <2> QED
    BY <2>4, <2>5
<1> HIDE DEF A, B, C
<1>8. Cardinality(A \union C) = Cardinality(A) + Cardinality(C) - Cardinality({})
  BY <1>4, <1>5, <1>6, FS_Union
<1>9. Count(f, u) = Count(f, s) + Count(f, t)
  BY <1>4, <1>5, <1>7, <1>8, FS_EmptySet
<1>10. Elements(u) = Elements(s) \union Elements(t)
  <2>1. \A i \in 1 .. m : u[i] = s[i] /\ i \in 1 .. m + n
    BY <1>1, <1>2
  <2>2. \A i \in 1 .. n : u[i + m] = t[i] /\ i + m \in 1 .. m + n
    BY <1>1, <1>2
  <2>3. \A i \in 1 .. m + n : i \in 1 .. m \/ (i - m \in 1 .. n /\ i = (i - m) + m)
    BY <1>1
  <2>4. Elements(s) \union Elements(t) \subseteq Elements(u)
    BY <1>1, <1>3, <2>1, <2>2 DEF Elements
  <2>5. ASSUME NEW i \in 1 .. m + n PROVE u[i] \in Elements(s) \union Elements(t)
    <3>1. CASE i \in 1 .. m
      BY <1>1, <2>1, <3>1 DEF Elements
    <3>2. CASE i - m \in 1 .. n /\ i = (i - m) + m
      BY <1>1, <2>2, <3>2 DEF Elements
    <3> QED
      BY <2>3, <3>1, <3>2
  <2>6. Elements(u) \subseteq Elements(s) \union Elements(t)
    BY <1>3, <2>5 DEF Elements
  <2> QED
    BY <2>4, <2>6
<1> QED
  BY <1>2, <1>9, <1>10 DEF u

\* One frame is there once.
LEMMA CountOne ==
  ASSUME NEW g \in Frame, NEW f
  PROVE  /\ <<g>> \in Seq(Frame) /\ Elements(<<g>>) = {g}
         /\ Count(f, <<g>>) = Held(f, {g})
<1>1. <<g>> \in Seq(Frame) /\ DOMAIN <<g>> = {1} /\ <<g>>[1] = g
  OBVIOUS
<1>2. Elements(<<g>>) = {g}
  BY <1>1 DEF Elements
<1>3. {i \in DOMAIN <<g>> : <<g>>[i] = f} = IF f = g THEN {1} ELSE {}
  BY <1>1
<1> QED
  BY <1>1, <1>2, <1>3, FS_EmptySet, FS_Singleton DEF Count, Held

\* Nothing is in an empty sequence.
LEMMA CountNone ==
  ASSUME NEW f
  PROVE  Count(f, <<>>) = 0 /\ Elements(<<>>) = {}
<1>1. {i \in DOMAIN <<>> : <<>>[i] = f} = {}
  OBVIOUS
<1> QED
  BY <1>1, FS_EmptySet DEF Count, Elements

\* What Append adds.
LEMMA CountAppend ==
  ASSUME NEW s \in Seq(Frame), NEW g \in Frame, NEW f
  PROVE  /\ Count(f, Append(s, g)) = Count(f, s) + Held(f, {g})
         /\ Elements(Append(s, g)) = Elements(s) \union {g}
<1>1. Append(s, g) = s \o <<g>> /\ <<g>> \in Seq(Frame)
  BY AppendIsConcat, CountOne
<1>2. /\ Count(f, s \o <<g>>) = Count(f, s) + Count(f, <<g>>)
      /\ Elements(s \o <<g>>) = Elements(s) \union Elements(<<g>>)
  BY <1>1, CountConcat, Zenon
<1>3. Elements(<<g>>) = {g} /\ Count(f, <<g>>) = Held(f, {g})
  BY CountOne, Zenon
<1> QED
  BY <1>1, <1>2, <1>3, Zenon

\* What Tail takes away.
LEMMA CountTail ==
  ASSUME NEW s \in Seq(Frame), s # <<>>, NEW f
  PROVE  /\ Head(s) \in Frame /\ Head(s) \in Elements(s) /\ Tail(s) \in Seq(Frame)
         /\ Count(f, s) = Held(f, {Head(s)}) + Count(f, Tail(s))
<1>1. /\ Head(s) \in Frame /\ Tail(s) \in Seq(Frame)
      /\ <<Head(s)>> \in Seq(Frame) /\ Elements(<<Head(s)>>) = {Head(s)}
  BY HeadTailProperties, CountOne
<1>2. s = <<Head(s)>> \o Tail(s)
  BY HeadTailProperties
<1>3. /\ Count(f, <<Head(s)>> \o Tail(s)) = Count(f, <<Head(s)>>) + Count(f, Tail(s))
      /\ Elements(<<Head(s)>> \o Tail(s)) = Elements(<<Head(s)>>) \union Elements(Tail(s))
  BY <1>1, CountConcat, Zenon
<1>4. Count(f, <<Head(s)>>) = Held(f, {Head(s)})
  BY <1>1, CountOne, Zenon
<1>5. Count(f, s) = Held(f, {Head(s)}) + Count(f, Tail(s))
  BY <1>2, <1>3, <1>4, Zenon
<1>6. Head(s) \in Elements(s)
  BY <1>1, <1>2, <1>3, Zenon
<1> QED
  BY <1>1, <1>5, <1>6

\* What a reader has taken and what it has not.
LEMMA CountSplit ==
  ASSUME NEW s \in Seq(Frame), NEW n \in 0 .. Len(s), NEW f
  PROVE  /\ SubSeq(s, 1, n) \in Seq(Frame)
         /\ SubSeq(s, n + 1, Len(s)) \in Seq(Frame)
         /\ Count(f, s) = Count(f, SubSeq(s, 1, n)) + Count(f, SubSeq(s, n + 1, Len(s)))
<1> DEFINE l == Len(s)
<1>1. l \in Nat /\ \A i \in 1 .. l : s[i] \in Frame
  BY LenProperties, ElementOfSeq
<1>2. SubSeq(s, 1, l) = s
  BY SubSeqFull
<1> HIDE DEF l
<1>3. n \in 0 .. l
  BY DEF l
<1>4. 1 \in 1 .. l + 1 /\ n \in 1 - 1 .. l /\ l \in n .. l
  BY <1>1, <1>3
<1>5. SubSeq(s, 1, n) \o SubSeq(s, n + 1, l) = s
  BY <1>2, <1>4, ConcatAdjacentSubSeq DEF l
<1>6. SubSeq(s, 1, n) \in Seq(Frame) /\ SubSeq(s, n + 1, l) \in Seq(Frame)
  <2>1. \A i \in 1 .. n : s[i] \in Frame
    BY <1>1, <1>3
  <2>2. \A i \in n + 1 .. l : s[i] \in Frame
    BY <1>1, <1>3
  <2> QED
    BY <1>1, <1>3, <2>1, <2>2, SubSeqProperties
<1>7. Count(f, SubSeq(s, 1, n) \o SubSeq(s, n + 1, l))
        = Count(f, SubSeq(s, 1, n)) + Count(f, SubSeq(s, n + 1, l))
  BY <1>6, CountConcat, Zenon
<1>8. Count(f, s) = Count(f, SubSeq(s, 1, n)) + Count(f, SubSeq(s, n + 1, l))
  BY <1>5, <1>7, Zenon
<1> QED
  BY <1>6, <1>8 DEF l

-----------------------------------------------------------------------------
(* Conservation of frames *)

\* What is between the client's commit to p and its release of Out(p).
Passing(p, f) == Count(f, queue[p]) + Held(f, nic[p]) + Count(f, queue[Out(p)])

\* The client's spare and staged frames are all in its pool, unless it drains.
Tally(f) == Held(f, pool) + Passing("fill", f) + Passing("tx", f)

\* A frame is staged once, in one ring, and still in the pool.
StagedOnce ==
  /\ \A p \in Prod : Elements(staged[p]) \subseteq pool
  /\ \A p \in Prod : \A f \in Frame : Count(f, staged[p]) <= 1
  /\ \A p, q \in Prod : p # q => Elements(staged[p]) \intersect Elements(staged[q]) = {}

\* FramesConserved is not inductive: a frame staged twice is counted once until it
\* is committed.
FrameInv ==
  /\ TypeInv
  /\ StagedOnce
  /\ \A f \in Frame : Tally(f) = 1

\* A frame is in a set or not.
LEMMA HeldType ==
  ASSUME NEW f, NEW set
  PROVE  /\ Held(f, set) \in {0, 1}
         /\ Held(f, set) = 1 <=> f \in set
BY DEF Held

\* Tallies are numbers, now and after a step.
LEMMA PassingType ==
  ASSUME NEW p \in Prod, NEW f
  PROVE  /\ SeqType => Passing(p, f) \in Nat
         /\ SeqType' => Passing(p, f)' \in Nat
<1>1. p \in Ring /\ Out(p) \in Ring
  BY RingFacts
<1>2. ASSUME NEW a \in Seq(Frame), NEW b \in Seq(Frame), NEW set
      PROVE  Count(f, a) + Held(f, set) + Count(f, b) \in Nat
  BY CountType, HeldType
<1>3. SeqType => queue[p] \in Seq(Frame) /\ queue[Out(p)] \in Seq(Frame)
  BY <1>1 DEF SeqType
<1>4. SeqType' => queue'[p] \in Seq(Frame) /\ queue'[Out(p)] \in Seq(Frame)
  BY <1>1 DEF SeqType
<1> QED
  BY <1>2, <1>3, <1>4 DEF Passing

\* The tally of a path and of the other one.
LEMMA TallyOf ==
  ASSUME SeqType, NEW p \in Prod, NEW f
  PROVE  \E q \in Prod :
           /\ q # p /\ Out(q) # Out(p) /\ \A r \in Prod : r \in {p, q}
           /\ Tally(f) = Held(f, pool) + Passing(p, f) + Passing(q, f)
<1>1. Prod = {"fill", "tx"} /\ Out("fill") = "rx" /\ Out("tx") = "comp"
  BY RingFacts
<1>2. /\ Held(f, pool) \in {0, 1}
      /\ Passing("fill", f) \in Nat /\ Passing("tx", f) \in Nat
  BY <1>1, PassingType, HeldType
<1>3. CASE p = "fill"
  <2>1. /\ "tx" \in Prod /\ "tx" # p /\ Out("tx") # Out(p)
        /\ \A r \in Prod : r \in {p, "tx"}
    BY <1>1, <1>3
  <2>2. Tally(f) = Held(f, pool) + Passing(p, f) + Passing("tx", f)
    BY <1>3 DEF Tally
  <2> QED
    BY <2>1, <2>2
<1>4. CASE p = "tx"
  <2>1. /\ "fill" \in Prod /\ "fill" # p /\ Out("fill") # Out(p)
        /\ \A r \in Prod : r \in {p, "fill"}
    BY <1>1, <1>4
  <2>2. Tally(f) = Held(f, pool) + Passing(p, f) + Passing("fill", f)
    BY <1>2, <1>4 DEF Tally
  <2> QED
    BY <2>1, <2>2
<1> QED
  BY <1>1, <1>3, <1>4

\* A frame that is on one path is not in the pool, and is there once.
LEMMA OnceOnPath ==
  ASSUME SeqType, NEW p \in Prod, NEW f, Tally(f) = 1
  PROVE  Held(f, pool) + Passing(p, f) <= 1
<1>1. PICK q \in Prod : Tally(f) = Held(f, pool) + Passing(p, f) + Passing(q, f)
  BY TallyOf
<1>2. Held(f, pool) \in {0, 1} /\ Passing(p, f) \in Nat /\ Passing(q, f) \in Nat
  BY PassingType, HeldType
<1> QED
  BY <1>1, <1>2

\* A step that touches one path, and moves a frame between it and the pool, or
\* along it, keeps the tally.
LEMMA TallyStep ==
  ASSUME SeqType, SeqType', NEW p \in Prod, NEW f, Tally(f) = 1,
         \A q \in Prod : q # p => UNCHANGED <<queue[q], nic[q], queue[Out(q)]>>,
         Held(f, pool') + Passing(p, f)' = Held(f, pool) + Passing(p, f)
  PROVE  Tally(f)' = 1
<1>1. Prod = {"fill", "tx"}
  BY RingFacts
<1>2. ASSUME NEW q \in Prod, q # p PROVE Passing(q, f)' = Passing(q, f)
  BY <1>2 DEF Passing
<1>3. /\ Held(f, pool) \in {0, 1} /\ Held(f, pool') \in {0, 1}
      /\ \A q \in Prod : Passing(q, f) \in Nat /\ Passing(q, f)' \in Nat
  BY PassingType, HeldType
<1>4. CASE p = "fill"
  <2>1. Passing("tx", f)' = Passing("tx", f)
    BY <1>1, <1>2, <1>4
  <2>2. Tally(f)' = Held(f, pool') + Passing("fill", f)' + Passing("tx", f)'
    BY DEF Tally, Held
  <2> QED
    BY <1>4, <2>1, <2>2 DEF Tally
<1>5. CASE p = "tx"
  <2>1. Passing("fill", f)' = Passing("fill", f)
    BY <1>1, <1>2, <1>5
  <2>2. Tally(f)' = Held(f, pool') + Passing("fill", f)' + Passing("tx", f)'
    BY DEF Tally, Held
  <2> QED
    BY <1>1, <1>3, <1>5, <2>1, <2>2 DEF Tally
<1> QED
  BY <1>1, <1>4, <1>5

\* At the start all frames are the client's, none is staged.
LEMMA InitFrames == Init => FrameInv
<1> SUFFICES ASSUME Init PROVE FrameInv
  OBVIOUS
<1>1. TypeInv
  BY InitType
<1>2. /\ \A r \in Ring : queue[r] = <<>>
      /\ \A p \in Prod : staged[p] = <<>> /\ nic[p] = {}
      /\ pool = Frame
  BY DEF Init
<1>3. StagedOnce
  BY <1>2, CountNone DEF StagedOnce
<1>4. ASSUME NEW f \in Frame PROVE Tally(f) = 1
  <2>1. ASSUME NEW p \in Prod PROVE Passing(p, f) = 0
    <3>1. queue[p] = <<>> /\ queue[Out(p)] = <<>> /\ nic[p] = {}
      BY <1>2, RingFacts
    <3> QED
      BY <3>1, CountNone DEF Passing, Held
  <2> QED
    BY <1>2, <2>1, RingFacts DEF Tally, Held
<1> QED
  BY <1>1, <1>3, <1>4 DEF FrameInv

\* Frames that nothing moves stay where they are.
LEMMA StillFrames ==
  ASSUME FrameInv, TypeInv', UNCHANGED <<queue, staged, pool, nic>>
  PROVE  FrameInv'
<1>1. StagedOnce'
  BY DEF FrameInv, StagedOnce
<1>2. \A f \in Frame : Tally(f)' = Tally(f)
  BY DEF Tally, Passing
<1> QED
  BY <1>1, <1>2 DEF FrameInv

\* insert stages a frame that is neither staged nor out of the pool.
LEMMA InsertFrames ==
  ASSUME Draining = FALSE, FrameInv, TypeInv', NEW p \in Prod, NEW f \in Frame, Insert(p, f)
  PROVE  FrameInv'
<1>1. /\ UNCHANGED <<queue, pool, nic>> /\ f \in pool
      /\ \A q \in Prod : f \notin Elements(staged[q])
  BY DEF Insert, Polled, Spare
<1>2. CASE UNCHANGED staged
  BY <1>1, <1>2, StillFrames
<1>3. CASE staged' = [staged EXCEPT ![p] = Append(@, f)]
  <2>1. \A q \in Prod : staged[q] \in Seq(Frame)
    BY DEF FrameInv, TypeInv, SeqType
  <2>2. /\ staged'[p] = Append(staged[p], f)
        /\ \A q \in Prod : q # p => staged'[q] = staged[q]
    BY <1>3 DEF FrameInv, TypeInv, SeqType
  <2>3. Elements(staged'[p]) = Elements(staged[p]) \union {f}
    BY <2>1, <2>2, CountAppend
  <2>4. ASSUME NEW g \in Frame PROVE Count(g, staged'[p]) <= 1
    <3>1. Count(g, staged'[p]) = Count(g, staged[p]) + Held(g, {f})
      BY <2>1, <2>2, CountAppend, Zenon
    <3>2. /\ Count(g, staged[p]) \in Nat /\ Count(g, staged[p]) <= 1
          /\ Count(g, staged[p]) = 0 <=> g \notin Elements(staged[p])
      BY <2>1, CountType DEF FrameInv, StagedOnce
    <3> QED
      BY <1>1, <3>1, <3>2 DEF Held
  <2>5. StagedOnce'
    <3>1. \A q \in Prod : Elements(staged'[q]) \subseteq pool'
      BY <1>1, <2>2, <2>3 DEF FrameInv, StagedOnce
    <3>2. \A q \in Prod : \A g \in Frame : Count(g, staged'[q]) <= 1
      BY <2>2, <2>4 DEF FrameInv, StagedOnce
    <3>3. ASSUME NEW q \in Prod, NEW r \in Prod, q # r
          PROVE  Elements(staged'[q]) \intersect Elements(staged'[r]) = {}
      <4>1. /\ Elements(staged[q]) \intersect Elements(staged[r]) = {}
            /\ f \notin Elements(staged[q]) /\ f \notin Elements(staged[r])
        BY <1>1, <3>3 DEF FrameInv, StagedOnce
      <4>2. CASE q = p
        BY <2>2, <2>3, <3>3, <4>1, <4>2
      <4>3. CASE r = p
        BY <2>2, <2>3, <3>3, <4>1, <4>3
      <4>4. CASE q # p /\ r # p
        BY <2>2, <4>1, <4>4
      <4> QED
        BY <4>2, <4>3, <4>4
    <3> QED
      BY <3>1, <3>2, <3>3 DEF StagedOnce
  <2>6. \A g \in Frame : Tally(g)' = Tally(g)
    BY <1>1 DEF Tally, Passing
  <2> QED
    BY <2>5, <2>6 DEF FrameInv
<1> QED
  BY <1>2, <1>3 DEF Insert

\* What leaves the pool or the staged entries disturbs no other staged entry.
LEMMA StagedCleared ==
  ASSUME StagedOnce, NEW p \in Prod, staged' = [staged EXCEPT ![p] = <<>>],
         staged \in [Prod -> Seq(Frame)], pool \ Elements(staged[p]) \subseteq pool'
  PROVE  StagedOnce'
<1>1. staged'[p] = <<>> /\ \A q \in Prod : q # p => staged'[q] = staged[q]
  OBVIOUS
<1>2. Elements(staged'[p]) = {} /\ \A f : Count(f, staged'[p]) = 0
  BY <1>1, CountNone
<1>3. \A q \in Prod : Elements(staged'[q]) \subseteq pool'
  BY <1>1, <1>2 DEF StagedOnce
<1>4. \A q \in Prod : \A g \in Frame : Count(g, staged'[q]) <= 1
  BY <1>1, <1>2 DEF StagedOnce
<1>5. \A q, r \in Prod : q # r => Elements(staged'[q]) \intersect Elements(staged'[r]) = {}
  BY <1>1, <1>2 DEF StagedOnce
<1> QED
  BY <1>3, <1>4, <1>5 DEF StagedOnce

\* commit takes what is staged out of the pool; a drop puts it back, where it still is.
LEMMA CommitFrames ==
  ASSUME FrameInv, TypeInv', NEW p \in Prod, Commit(p)
  PROVE  FrameInv'
<1>1. /\ SeqType /\ SeqType' /\ StagedOnce
      /\ staged \in [Prod -> Seq(Frame)] /\ queue \in [Ring -> Seq(Frame)]
      /\ p \in Ring /\ Out(p) \in Ring /\ p # Out(p)
      /\ queue[p] \in Seq(Frame) /\ staged[p] \in Seq(Frame)
  BY RingFacts DEF FrameInv, TypeInv, SeqType
<1>2. /\ queue' = [queue EXCEPT ![p] = @ \o staged[p]]
      /\ staged' = [staged EXCEPT ![p] = <<>>]
      /\ pool' = pool \ Elements(staged[p]) /\ UNCHANGED nic
  BY DEF Commit
<1>3. StagedOnce'
  BY <1>1, <1>2, StagedCleared
<1>4. /\ queue'[p] = queue[p] \o staged[p]
      /\ \A r \in Ring : r # p => queue'[r] = queue[r]
  BY <1>1, <1>2
<1>5. ASSUME NEW f \in Frame PROVE Tally(f)' = 1
  <2>1. Count(f, queue'[p]) = Count(f, queue[p]) + Count(f, staged[p])
    <3>1. Count(f, queue[p] \o staged[p]) = Count(f, queue[p]) + Count(f, staged[p])
      BY <1>1, CountConcat, Zenon
    <3> QED
      BY <1>4, <3>1
  <2>2. /\ Count(f, queue[p]) \in Nat /\ Count(f, staged[p]) \in Nat
        /\ Count(f, queue[Out(p)]) \in Nat
        /\ Count(f, staged[p]) <= 1
        /\ Count(f, staged[p]) = 0 <=> f \notin Elements(staged[p])
        /\ Elements(staged[p]) \subseteq pool
    BY <1>1, CountType DEF StagedOnce, SeqType
  <2>3. Held(f, pool') + Count(f, staged[p]) = Held(f, pool)
    BY <1>2, <2>2 DEF Held
  <2>4. Held(f, pool') + Passing(p, f)' = Held(f, pool) + Passing(p, f)
    BY <1>1, <1>2, <1>4, <2>1, <2>2, <2>3, HeldType DEF Passing
  <2>5. \A q \in Prod : q # p => UNCHANGED <<queue[q], nic[q], queue[Out(q)]>>
    BY <1>2, <1>4, RingFacts
  <2> QED
    BY <1>1, <2>4, <2>5, TallyStep DEF FrameInv
<1> QED
  BY <1>3, <1>5 DEF FrameInv

\* The drop of a writer unstages what it has not committed; the pool still has it.
LEMMA DropWriterFrames ==
  ASSUME FrameInv, TypeInv', NEW p \in Prod, DropWriter(p)
  PROVE  FrameInv'
<1>1. StagedOnce'
  BY StagedCleared DEF DropWriter, FrameInv, TypeInv, SeqType
<1>2. \A f \in Frame : Tally(f)' = Tally(f)
  BY DEF DropWriter, Tally, Passing
<1> QED
  BY <1>1, <1>2 DEF FrameInv

\* release puts what was read into the pool: nothing else there is the same frame,
\* and nothing was read twice.
LEMMA ReleaseFrames ==
  ASSUME FrameInv, TypeInv', NEW c \in Cons, Release(c)
  PROVE  FrameInv'
<1>1. PICK p \in Prod : c = Out(p)
  BY DEF Cons
<1>2. /\ SeqType /\ SeqType' /\ StagedOnce /\ queue \in [Ring -> Seq(Frame)]
      /\ p \in Ring /\ c \in Ring /\ p # c
      /\ queue[c] \in Seq(Frame) /\ queue[p] \in Seq(Frame)
  BY <1>1, RingFacts DEF FrameInv, TypeInv, SeqType
<1>3. /\ queue' = [queue EXCEPT ![c] = Untaken(c)]
      /\ pool' = pool \union Elements(Taken(c)) /\ UNCHANGED <<staged, nic>>
  BY DEF Release
<1>4. StagedOnce'
  BY <1>2, <1>3 DEF StagedOnce
<1>5. /\ queue'[c] = Untaken(c)
      /\ \A r \in Ring : r # c => queue'[r] = queue[r]
  BY <1>2, <1>3
<1>6. taken[c] \in 0 .. Len(queue[c])
  <2>1. /\ used(c) \in Nat /\ handle[c].remain \in Nat /\ taken[c] \in Nat
        /\ taken[c] + handle[c].remain <= used(c)
    BY <1>2, HandleType, ConsType DEF FrameInv, TypeInv, ReadOK
  <2>2. taken[c] \in 0 .. used(c)
    BY <2>1
  <2> QED
    BY <2>2 DEF used
<1>7. Taken(c) \in Seq(Frame) /\ Untaken(c) \in Seq(Frame)
  BY <1>2, <1>6, CountSplit DEF Taken, Untaken
<1>8. ASSUME NEW f \in Frame PROVE Tally(f)' = 1
  <2>1. Count(f, queue[c]) = Count(f, Taken(c)) + Count(f, Untaken(c))
    BY <1>2, <1>6, CountSplit, Zenon DEF Taken, Untaken
  <2>2. /\ Count(f, Taken(c)) \in Nat /\ Count(f, Untaken(c)) \in Nat
        /\ Count(f, Taken(c)) = 0 <=> f \notin Elements(Taken(c))
        /\ Count(f, queue[p]) \in Nat /\ Count(f, queue[c]) \in Nat
    BY <1>2, <1>7, CountType
  <2>3. Held(f, pool) + Passing(p, f) <= 1
    BY <1>2, OnceOnPath DEF FrameInv
  <2>4. Held(f, pool) + Count(f, queue[c]) <= 1
    BY <1>1, <2>2, <2>3, HeldType DEF Passing
  <2>5. Held(f, pool') = Held(f, pool) + Count(f, Taken(c))
    BY <1>3, <2>1, <2>2, <2>4 DEF Held
  <2>6. Held(f, pool') + Passing(p, f)' = Held(f, pool) + Passing(p, f)
    <3>1. /\ Passing(p, f) = Count(f, queue[p]) + Held(f, nic[p]) + Count(f, queue[c])
          /\ Passing(p, f)' = Count(f, queue[p]) + Held(f, nic[p]) + Count(f, Untaken(c))
      BY <1>1, <1>2, <1>3, <1>5 DEF Passing
    <3>2. Held(f, pool) \in {0, 1} /\ Held(f, nic[p]) \in {0, 1}
      BY HeldType
    <3> QED
      BY <2>1, <2>2, <2>5, <3>1, <3>2
  <2>7. \A q \in Prod : q # p => UNCHANGED <<queue[q], nic[q], queue[Out(q)]>>
    BY <1>1, <1>3, <1>5, RingFacts
  <2> QED
    BY <1>2, <2>6, <2>7, TallyStep DEF FrameInv
<1> QED
  BY <1>4, <1>8 DEF FrameInv

\* The kernel takes a frame that it does not have yet.
LEMMA TakeFrames ==
  ASSUME FrameInv, TypeInv', NEW p \in Prod, KernelTake(p)
  PROVE  FrameInv'
<1>1. /\ SeqType /\ SeqType' /\ queue \in [Ring -> Seq(Frame)] /\ nic \in [Prod -> SUBSET Frame]
      /\ p \in Ring /\ Out(p) \in Ring /\ p # Out(p)
      /\ queue[p] \in Seq(Frame) /\ queue[Out(p)] \in Seq(Frame) /\ queue[p] # <<>>
  BY RingFacts DEF FrameInv, TypeInv, SeqType, KernelTake, CanTake
<1>2. /\ nic' = [nic EXCEPT ![p] = @ \union {Head(queue[p])}]
      /\ queue' = [queue EXCEPT ![p] = Tail(@)]
      /\ UNCHANGED <<staged, pool>>
  BY DEF KernelTake
<1>3. StagedOnce'
  BY <1>2 DEF FrameInv, StagedOnce
<1>4. /\ queue'[p] = Tail(queue[p]) /\ \A r \in Ring : r # p => queue'[r] = queue[r]
      /\ nic'[p] = nic[p] \union {Head(queue[p])}
      /\ \A q \in Prod : q # p => nic'[q] = nic[q]
  BY <1>1, <1>2
<1>5. Tail(queue[p]) \in Seq(Frame)
  BY <1>1, CountTail
<1>6. ASSUME NEW f \in Frame PROVE Tally(f)' = 1
  <2>1. Count(f, queue[p]) = Held(f, {Head(queue[p])}) + Count(f, Tail(queue[p]))
    BY <1>1, CountTail, Zenon
  <2>2. /\ Count(f, queue[p]) \in Nat /\ Count(f, Tail(queue[p])) \in Nat
        /\ Count(f, queue[Out(p)]) \in Nat
    BY <1>1, <1>5, CountType
  <2>3. Held(f, pool) + Passing(p, f) <= 1
    BY <1>1, OnceOnPath DEF FrameInv
  <2>4. Held(f, nic[p]) + Held(f, {Head(queue[p])}) <= 1
    BY <2>1, <2>2, <2>3, HeldType DEF Passing
  <2>5. Held(f, nic'[p]) = Held(f, nic[p]) + Held(f, {Head(queue[p])})
    BY <1>4, <2>4 DEF Held
  <2>6. Held(f, pool') + Passing(p, f)' = Held(f, pool) + Passing(p, f)
    <3>1. Passing(p, f)' = Count(f, Tail(queue[p])) + Held(f, nic'[p]) + Count(f, queue[Out(p)])
      BY <1>1, <1>4 DEF Passing, Held
    <3>2. /\ Held(f, nic[p]) \in {0, 1} /\ Held(f, {Head(queue[p])}) \in {0, 1}
      BY HeldType
    <3> QED
      BY <1>2, <2>1, <2>2, <2>5, <3>1, <3>2 DEF Passing
  <2>7. \A q \in Prod : q # p => UNCHANGED <<queue[q], nic[q], queue[Out(q)]>>
    BY <1>4, RingFacts
  <2> QED
    BY <1>1, <2>6, <2>7, TallyStep DEF FrameInv
<1> QED
  BY <1>3, <1>6 DEF FrameInv

\* The kernel gives back a frame that it has.
LEMMA FinishFrames ==
  ASSUME FrameInv, TypeInv', NEW p \in Prod, NEW g \in Frame, KernelFinish(p, g)
  PROVE  FrameInv'
<1> DEFINE c == Out(p)
<1>1. /\ SeqType /\ SeqType' /\ queue \in [Ring -> Seq(Frame)] /\ nic \in [Prod -> SUBSET Frame]
      /\ p \in Ring /\ c \in Ring /\ p # c
      /\ queue[p] \in Seq(Frame) /\ queue[c] \in Seq(Frame)
  BY RingFacts DEF FrameInv, TypeInv, SeqType
<1>2. /\ nic' = [nic EXCEPT ![p] = @ \ {g}] /\ g \in nic[p]
      /\ queue' = [queue EXCEPT ![c] = Append(@, g)]
      /\ UNCHANGED <<staged, pool>>
  BY DEF KernelFinish
<1>3. StagedOnce'
  BY <1>2 DEF FrameInv, StagedOnce
<1>4. /\ queue'[c] = Append(queue[c], g) /\ \A r \in Ring : r # c => queue'[r] = queue[r]
      /\ nic'[p] = nic[p] \ {g}
      /\ \A q \in Prod : q # p => nic'[q] = nic[q]
  BY <1>1, <1>2
<1>5. ASSUME NEW f \in Frame PROVE Tally(f)' = 1
  <2>1. Count(f, Append(queue[c], g)) = Count(f, queue[c]) + Held(f, {g})
    BY <1>1, CountAppend, Zenon
  <2>2. Count(f, queue[p]) \in Nat /\ Count(f, queue[c]) \in Nat
    BY <1>1, CountType
  <2>3. Held(f, nic'[p]) + Held(f, {g}) = Held(f, nic[p])
    BY <1>2, <1>4 DEF Held
  <2>4. Held(f, pool') + Passing(p, f)' = Held(f, pool) + Passing(p, f)
    <3>1. /\ Passing(p, f) = Count(f, queue[p]) + Held(f, nic[p]) + Count(f, queue[c])
          /\ Passing(p, f)' = Count(f, queue[p]) + Held(f, nic'[p]) + Count(f, Append(queue[c], g))
      BY <1>1, <1>4 DEF Passing, Held
    <3>2. Held(f, nic'[p]) \in {0, 1} /\ Held(f, {g}) \in {0, 1}
      BY HeldType
    <3> QED
      BY <1>2, <2>1, <2>2, <2>3, <3>1, <3>2
  <2>5. \A q \in Prod : q # p => UNCHANGED <<queue[q], nic[q], queue[Out(q)]>>
    BY <1>4, TallyOf, RingFacts
  <2> QED
    BY <1>1, <2>4, <2>5, TallyStep DEF FrameInv
<1> QED
  BY <1>3, <1>5 DEF FrameInv

\* Every step keeps every frame in its one place.
LEMMA NextFrames ==
  ASSUME Draining = FALSE, FrameInv, [Next]_vars
  PROVE  FrameInv'
<1>1. TypeInv'
  BY NextType DEF FrameInv
<1>2. CASE UNCHANGED vars
  BY <1>1, <1>2, StillFrames DEF vars, rings
<1>3. ASSUME NEW p \in Prod,
             \/ OpenWriter(p) \/ \E f \in Frame : Insert(p, f)
             \/ Commit(p) \/ DropWriter(p) \/ Wake(p)
      PROVE  FrameInv'
  <2>1. CASE OpenWriter(p)
    BY <1>1, <2>1, StillFrames DEF OpenWriter, Open, rings
  <2>2. CASE Wake(p)
    BY <1>1, <2>2, StillFrames DEF Wake, rings
  <2> QED
    BY <1>1, <1>3, <2>1, <2>2, InsertFrames, CommitFrames, DropWriterFrames
<1>4. ASSUME NEW c \in Cons, OpenReader(c) \/ Read(c) \/ Release(c) \/ DropReader(c)
      PROVE  FrameInv'
  <2>1. CASE OpenReader(c)
    BY <1>1, <2>1, StillFrames DEF OpenReader, Open, rings
  <2>2. CASE Read(c) \/ DropReader(c)
    BY <1>1, <2>2, StillFrames DEF Read, DropReader
  <2> QED
    BY <1>1, <1>4, <2>1, <2>2, ReleaseFrames
<1>5. ASSUME NEW p \in Prod,
             \/ KernelTake(p) \/ \E f \in Frame : KernelFinish(p, f)
             \/ KernelDoze(p) \/ KernelSleep(p)
      PROVE  FrameInv'
  <2>1. CASE KernelDoze(p) \/ KernelSleep(p)
    BY <1>1, <2>1, StillFrames DEF KernelDoze, KernelSleep, rings
  <2> QED
    BY <1>1, <1>5, <2>1, TakeFrames, FinishFrames
<1> QED
  BY <1>2, <1>3, <1>4, <1>5 DEF Next, Client, Kernel

\* A client that does not drain its iterator loses no frame.
LEMMA ConservedByInv == FrameInv => FramesConserved
<1> SUFFICES ASSUME FrameInv, NEW f \in Frame PROVE Places(f) = 1
  BY DEF FramesConserved
<1>1. pool \union Elements(staged["fill"]) \union Elements(staged["tx"]) = pool
  BY RingFacts DEF FrameInv, StagedOnce
<1>2. Tally(f) = 1
  BY DEF FrameInv
<1>3. /\ Passing("fill", f) = Count(f, queue["fill"]) + Held(f, nic["fill"]) + Count(f, queue["rx"])
      /\ Passing("tx", f) = Count(f, queue["tx"]) + Held(f, nic["tx"]) + Count(f, queue["comp"])
  BY RingFacts DEF Passing
<1>4. /\ Held(f, pool) \in {0, 1}
      /\ Held(f, nic["fill"]) \in {0, 1} /\ Held(f, nic["tx"]) \in {0, 1}
      /\ \A r \in Ring : Count(f, queue[r]) \in Nat
  BY HeldType, CountType DEF FrameInv, TypeInv, SeqType
<1>5. {"fill", "tx", "rx", "comp"} \subseteq Ring
  BY RingFacts
<1>6. Places(f) =
        Held(f, pool) + Held(f, nic["fill"]) + Held(f, nic["tx"])
          + Count(f, queue["fill"]) + Count(f, queue["tx"])
          + Count(f, queue["rx"]) + Count(f, queue["comp"])
  BY <1>1, Zenon DEF Places
<1>7. /\ Count(f, queue["fill"]) \in Nat /\ Count(f, queue["tx"]) \in Nat
      /\ Count(f, queue["rx"]) \in Nat /\ Count(f, queue["comp"]) \in Nat
  BY <1>4, <1>5
<1> QED
  BY <1>2, <1>3, <1>4, <1>6, <1>7 DEF Tally

\* No frame is ever lost or in two places, for every number of frames and every
\* depth of the rings, whatever batches are granted and whatever part of them is
\* inserted, committed, read and released; but for a client whose iterator drains.
THEOREM FramesConservedHolds ==
  ASSUME Draining = FALSE
  PROVE  Spec => []FramesConserved
<1>1. FrameInv /\ [Next]_vars => FrameInv'
  BY NextFrames
<1> QED
  BY <1>1, InitFrames, ConservedByInv, PTL DEF Spec

-----------------------------------------------------------------------------
(* The memory of the frames *)

\* A frame that the kernel can reach is not in the pool.
LEMMA KernelHolds ==
  ASSUME FrameInv, NEW f \in Frame, f \in InKernel
  PROVE  f \notin pool
<1>1. SeqType /\ Tally(f) = 1
  BY DEF FrameInv, TypeInv
<1>2. PICK p \in Prod : f \in nic[p] \/ f \in Elements(queue[p]) \/ f \in Elements(queue[Out(p)])
  <2>1. CASE \E p \in Prod : f \in nic[p]
    BY <2>1
  <2>2. ASSUME NEW r \in Ring, f \in Elements(queue[r])
        PROVE  \E p \in Prod : f \in Elements(queue[p]) \/ f \in Elements(queue[Out(p)])
    <3>1. r \in Prod \/ \E p \in Prod : r = Out(p)
      BY DEF Ring, Cons
    <3> QED
      BY <2>2, <3>1
  <2> QED
    BY <2>1, <2>2 DEF InKernel
<1>3. queue[p] \in Seq(Frame) /\ queue[Out(p)] \in Seq(Frame)
  BY <1>1, RingFacts DEF SeqType
<1>4. /\ Count(f, queue[p]) \in Nat /\ Count(f, queue[Out(p)]) \in Nat
      /\ Count(f, queue[p]) = 0 <=> f \notin Elements(queue[p])
      /\ Count(f, queue[Out(p)]) = 0 <=> f \notin Elements(queue[Out(p)])
  BY <1>3, CountType
<1>5. /\ Held(f, nic[p]) \in {0, 1} /\ Held(f, pool) \in {0, 1}
      /\ Held(f, nic[p]) = 1 <=> f \in nic[p]
      /\ Held(f, pool) = 1 <=> f \in pool
  BY HeldType
<1>6. Held(f, pool) + Passing(p, f) <= 1
  BY <1>1, OnceOnPath
<1>7. Passing(p, f) >= 1
  BY <1>2, <1>4, <1>5 DEF Passing
<1> QED
  BY <1>4, <1>5, <1>6, <1>7 DEF Passing

\* A frame in one place is memory in one hand.
LEMMA ExclusiveByInv == FrameInv => MemoryExclusive
<1> SUFFICES ASSUME FrameInv PROVE MemoryExclusive
  OBVIOUS
<1>1. /\ pool \subseteq Frame /\ InKernel \subseteq Frame
  <2>1. /\ pool \subseteq Frame /\ nic \in [Prod -> SUBSET Frame]
        /\ queue \in [Ring -> Seq(Frame)]
    BY DEF FrameInv, TypeInv, SeqType
  <2>2. \A r \in Ring : Elements(queue[r]) \subseteq Frame
    BY <2>1, ElementsType
  <2>3. UNION {Elements(queue[r]) : r \in Ring} \subseteq Frame
    BY <2>2
  <2>4. UNION {nic[p] : p \in Prod} \subseteq Frame
    BY <2>1
  <2> QED
    BY <2>1, <2>3, <2>4 DEF InKernel
<1>2. \A f \in Frame : f \in BufIdx /\ HasFrame(f)
  BY UmemCycleAssumption
<1>3. ASSUME NEW f \in InKernel, NEW g \in pool
      PROVE  Bytes(as_xdp(Chunk(f))) \intersect Bytes(as_xdp(Chunk(g))) = {}
  <2>1. f \in Frame /\ g \in Frame /\ f # g
    BY <1>1, KernelHolds
  <2> QED
    BY <1>2, <2>1, ChunksDisjoint
<1>4. MemoryOf(InKernel) \intersect MemoryOf(pool) = {}
  <2> SUFFICES ASSUME NEW b, b \in MemoryOf(InKernel), b \in MemoryOf(pool) PROVE FALSE
    OBVIOUS
  <2>1. PICK f \in InKernel : b \in Bytes(as_xdp(Chunk(f)))
    BY Zenon DEF MemoryOf
  <2>2. PICK g \in pool : b \in Bytes(as_xdp(Chunk(g)))
    BY Zenon DEF MemoryOf
  <2> QED
    BY <1>3, <2>1, <2>2
<1>5. MemoryOf(Frame) \subseteq 0 .. area_size - 1
  <2>1. ASSUME NEW f \in Frame PROVE Bytes(as_xdp(Chunk(f))) \subseteq 0 .. area_size - 1
    <3>1. f \in BufIdx /\ HasFrame(f) /\ 0 \in 0 .. frame_size
      BY <1>2, UmemAssumption
    <3> QED
      BY <3>1, DescriptorInBounds
  <2> QED
    BY <2>1 DEF MemoryOf
<1> QED
  BY <1>4, <1>5 DEF MemoryExclusive

\* Client and kernel share no byte of the area, and the kernel is never sent outside
\* of it, for every area, every frame size and every traffic: a frame is on one side
\* at a time, and chunks of different frames do not overlap.
THEOREM MemoryExclusiveHolds ==
  ASSUME Draining = FALSE
  PROVE  Spec => []MemoryExclusive
<1>1. FrameInv /\ [Next]_vars => FrameInv'
  BY NextFrames
<1> QED
  BY <1>1, InitFrames, ExclusiveByInv, PTL DEF Spec
=============================================================================
