-------------------------- MODULE FloodCountersProofs --------------------------
(***************************************************************************)
(* Proofs about FloodCounters, for every number of threads, every budget    *)
(* and every size of the rings.                                            *)
(***************************************************************************)
EXTENDS FloodCounters, FiniteSetTheorems, FunctionTheorems, TLAPS

-----------------------------------------------------------------------------
(* Sums *)

\* What one of them has, and all of them.
Part(f, i) == {i} \X (1 .. f[i])
Units(f) == UNION {Part(f, i) : i \in DOMAIN f}

\* The part of one is as large as its number.
LEMMA PartSize ==
  ASSUME NEW i, NEW n \in Nat
  PROVE  IsFiniteSet({i} \X (1 .. n)) /\ Cardinality({i} \X (1 .. n)) = n
<1> DEFINE S == 1 .. n
           T == {i} \X S
           F == [k \in S |-> <<i, k>>]
<1>1. IsFiniteSet(S) /\ Cardinality(S) = n
  BY FS_Interval
<1>2. F \in [S -> T]
  OBVIOUS
<1>3. \A a, b \in S : F[a] = F[b] => a = b
  OBVIOUS
<1>4. \A t \in T : \E s \in S : F[s] = t
  OBVIOUS
<1> HIDE DEF F, S, T
<1>5. F \in Bijection(S, T)
  BY <1>2, <1>3, <1>4, Fun_IsBij
<1>6. IsFiniteSet(T) /\ Cardinality(T) = Cardinality(S)
  BY <1>1, <1>5, FS_Bijection DEF ExistsBijection
<1> QED
  BY <1>1, <1>6 DEF S, T

\* A sum is a number, no less than any of its parts.
LEMMA SumType ==
  ASSUME NEW S, IsFiniteSet(S), NEW f \in [S -> Nat]
  PROVE  /\ IsFiniteSet(Units(f)) /\ SumOver(f) = Cardinality(Units(f)) /\ SumOver(f) \in Nat
         /\ \A i \in S : Part(f, i) \subseteq Units(f) /\ f[i] <= SumOver(f)
<1> DEFINE T == {Part(f, i) : i \in S}
           F == [i \in S |-> Part(f, i)]
<1>1. F \in [S -> T] /\ \A t \in T : \E i \in S : F[i] = t
  OBVIOUS
<1>2. \A t \in T : IsFiniteSet(t)
  <2>1. \A i \in S : IsFiniteSet(Part(f, i))
    BY PartSize DEF Part
  <2> QED
    BY <2>1
<1>3. Units(f) = UNION T
  BY DEF Units
<1>4. SumOver(f) = Cardinality(Units(f))
  BY DEF SumOver, Units, Part
<1>5. \A i \in S : Part(f, i) \subseteq Units(f)
  BY DEF Units
<1> HIDE DEF F, T
<1>6. IsFiniteSet(T)
  <2>1. F \in Surjection(S, T)
    BY <1>1, Fun_IsSurj
  <2> QED
    BY <2>1, FS_Surjection
<1>7. IsFiniteSet(Units(f)) /\ SumOver(f) \in Nat
  BY <1>2, <1>3, <1>4, <1>6, FS_UNION, FS_CardinalityType
<1>8. ASSUME NEW i \in S PROVE f[i] <= SumOver(f)
  <2>1. Cardinality(Part(f, i)) = f[i]
    BY PartSize DEF Part
  <2>2. Cardinality(Part(f, i)) <= Cardinality(Units(f))
    BY <1>5, <1>7, FS_Subset
  <2> QED
    BY <1>4, <2>1, <2>2
<1> QED
  BY <1>4, <1>5, <1>7, <1>8

\* Less in every part is less in all.
LEMMA SumLess ==
  ASSUME NEW S, IsFiniteSet(S), NEW f \in [S -> Nat], NEW g \in [S -> Nat],
         \A i \in S : f[i] <= g[i]
  PROVE  SumOver(f) <= SumOver(g)
<1>1. \A i \in S : Part(f, i) \subseteq Part(g, i)
  BY DEF Part
<1>2. Units(f) \subseteq Units(g)
  BY <1>1 DEF Units
<1>3. Cardinality(Units(f)) <= Cardinality(Units(g))
  BY <1>2, SumType, FS_Subset
<1> QED
  BY <1>3, SumType

\* All of nothing.
LEMMA SumZero ==
  ASSUME NEW S, IsFiniteSet(S), NEW f \in [S -> Nat], \A i \in S : f[i] = 0
  PROVE  SumOver(f) = 0
<1>1. \A i \in S : Part(f, i) = {}
  BY DEF Part
<1>2. Units(f) = {}
  BY <1>1 DEF Units
<1> QED
  BY <1>2, SumType, FS_EmptySet

\* Two sets without a common element.
LEMMA DisjointSize ==
  ASSUME NEW S, NEW T, IsFiniteSet(S), IsFiniteSet(T), S \intersect T = {}
  PROVE  Cardinality(S \union T) = Cardinality(S) + Cardinality(T)
<1>1. Cardinality(S \union T) = Cardinality(S) + Cardinality(T) - Cardinality(S \intersect T)
  BY FS_Union, Zenon
<1>2. /\ Cardinality(S) \in Nat /\ Cardinality(T) \in Nat
      /\ Cardinality(S \intersect T) = 0
  BY FS_CardinalityType, FS_EmptySet
<1> QED
  BY <1>1, <1>2

\* A change of one part is the change of the sum.
LEMMA SumChange ==
  ASSUME NEW S, IsFiniteSet(S), NEW f \in [S -> Nat], NEW g \in [S -> Nat],
         NEW i \in S, \A j \in S : j # i => g[j] = f[j]
  PROVE  SumOver(g) + f[i] = SumOver(f) + g[i]
<1> DEFINE R == Units(f) \ Part(f, i)
           A == Part(f, i)
           B == Part(g, i)
<1>1. /\ IsFiniteSet(A) /\ Cardinality(A) = f[i]
      /\ IsFiniteSet(B) /\ Cardinality(B) = g[i]
  BY PartSize DEF Part
<1>2. IsFiniteSet(R) /\ Cardinality(R) \in Nat
  <2>1. IsFiniteSet(Units(f)) /\ R \subseteq Units(f)
    BY SumType
  <2> QED
    BY <2>1, FS_Subset, FS_CardinalityType
<1>3. Units(f) = R \union A /\ R \intersect A = {}
  BY SumType
<1>4. Units(g) = R \union B /\ R \intersect B = {}
  <2>1. \A j \in S : j # i => Part(g, j) = Part(f, j)
    BY DEF Part
  <2>2. R = UNION {Part(f, j) : j \in S \ {i}}
    BY DEF Units, Part
  <2>3. Units(g) = B \union UNION {Part(g, j) : j \in S \ {i}}
    BY DEF Units
  <2>4. {Part(g, j) : j \in S \ {i}} = {Part(f, j) : j \in S \ {i}}
    BY <2>1
  <2>5. R \intersect B = {}
    BY <2>2 DEF Part
  <2> QED
    BY <2>2, <2>3, <2>4, <2>5
<1> HIDE DEF R, A, B
<1>5. Cardinality(Units(f)) = Cardinality(R) + f[i]
  BY <1>1, <1>2, <1>3, DisjointSize, Zenon
<1>6. Cardinality(Units(g)) = Cardinality(R) + g[i]
  BY <1>1, <1>2, <1>4, DisjointSize, Zenon
<1> QED
  BY <1>2, <1>5, <1>6, SumType

-----------------------------------------------------------------------------
(* The inductive invariant *)

SenderRecord ==
  [pc : {"check", "reserve", "transmit", "give_back", "count", "done"},
   send_batch : Nat, sent_now : Nat]
CompleterRecord ==
  [pc : {"completed", "sent", "reap", "count", "done"},
   current : Nat, comp_batch : Nat, comp_now : Nat]

\* A sender has sent nothing that it has not reserved, and a completer has reaped
\* nothing beyond its batch; neither keeps a number of an earlier round.
SenderOK(r) ==
  /\ r.send_batch <= batch /\ r.sent_now <= r.send_batch
  /\ r.pc \notin {"give_back", "count"} => r.sent_now = 0
CompleterOK(r) ==
  /\ r.current <= total /\ r.comp_batch <= batch /\ r.comp_now <= r.comp_batch
  /\ r.pc # "count" => r.comp_now = 0

Types ==
  /\ sent_reserved \in Nat /\ sent \in Nat /\ completed \in Nat
  /\ stalls \in [Sender -> 0 .. MaxStalls]
  /\ sender \in [Sender -> SenderRecord] /\ \A s \in Sender : SenderOK(sender[s])
  /\ completer \in [Completer -> CompleterRecord]
  /\ \A c \in Completer : CompleterOK(completer[c])
  /\ tx \in [Sender -> 0 .. TxSize]
  /\ comp \in [Completer -> 0 .. CompleteSize]
  /\ awake \in [Sender -> BOOLEAN]

\* Each counter is bounded by the one before it: sent_reserved by total, what was
\* sent by what was reserved, and what was completed by what was sent.
FloodInv ==
  /\ Types
  /\ sent_reserved <= total
  /\ BudgetExact
  /\ sent + SumOver(Uncounted) = SumOver(tx) + SumOver(comp) + SumOver(Reaped) + completed

\* The constants, as the steps need them.
LEMMA Constants ==
  /\ IsFiniteSet(Sender) /\ IsFiniteSet(Completer)
  /\ \A s \in Sender : QueueOf[s] \in Completer
  /\ total \in Nat /\ batch \in Nat /\ TxSize \in Nat /\ CompleteSize \in Nat
  /\ WAKE_THRESHOLD \in Nat /\ MaxStalls \in Nat /\ 1 <= MaxStalls
BY FloodAssumption DEF MaxStalls

\* What threads have and rings hold are numbers, now and after a step.
LEMMA PartsType ==
  /\ Types => /\ Reserved \in [Sender -> Nat] /\ Uncounted \in [Sender -> Nat]
              /\ Reaped \in [Completer -> Nat]
              /\ tx \in [Sender -> Nat] /\ comp \in [Completer -> Nat]
  /\ Types' => /\ Reserved' \in [Sender -> Nat] /\ Uncounted' \in [Sender -> Nat]
               /\ Reaped' \in [Completer -> Nat]
               /\ tx' \in [Sender -> Nat] /\ comp' \in [Completer -> Nat]
<1>1. /\ Types => /\ sender \in [Sender -> SenderRecord]
                  /\ completer \in [Completer -> CompleterRecord]
                  /\ tx \in [Sender -> 0 .. TxSize] /\ comp \in [Completer -> 0 .. CompleteSize]
      /\ Types' => /\ sender' \in [Sender -> SenderRecord]
                   /\ completer' \in [Completer -> CompleterRecord]
                   /\ tx' \in [Sender -> 0 .. TxSize] /\ comp' \in [Completer -> 0 .. CompleteSize]
  BY DEF Types
<1>2. 0 .. TxSize \subseteq Nat /\ 0 .. CompleteSize \subseteq Nat
  OBVIOUS
<1>3. ASSUME Types
      PROVE  /\ Reserved \in [Sender -> Nat] /\ Uncounted \in [Sender -> Nat]
             /\ Reaped \in [Completer -> Nat]
  BY <1>1, <1>3 DEF Reserved, Uncounted, Reaped, At, AtC, SenderRecord, CompleterRecord
<1>4. ASSUME Types'
      PROVE  /\ Reserved' \in [Sender -> Nat] /\ Uncounted' \in [Sender -> Nat]
             /\ Reaped' \in [Completer -> Nat]
  BY <1>1, <1>4 DEF Reserved, Uncounted, Reaped, At, AtC, SenderRecord, CompleterRecord
<1>5. ASSUME Types PROVE tx \in [Sender -> Nat] /\ comp \in [Completer -> Nat]
  BY <1>1, <1>2, <1>5
<1>6. ASSUME Types' PROVE tx' \in [Sender -> Nat] /\ comp' \in [Completer -> Nat]
  BY <1>1, <1>2, <1>6
<1> QED
  BY <1>3, <1>4, <1>5, <1>6

\* So are their sums.
LEMMA SumsType ==
  /\ Types => /\ SumOver(Reserved) \in Nat /\ SumOver(Uncounted) \in Nat
              /\ SumOver(Reaped) \in Nat /\ SumOver(tx) \in Nat /\ SumOver(comp) \in Nat
  /\ Types' => /\ SumOver(Reserved') \in Nat /\ SumOver(Uncounted') \in Nat
               /\ SumOver(Reaped') \in Nat /\ SumOver(tx') \in Nat /\ SumOver(comp') \in Nat
BY PartsType, SumType, Constants

\* A sum after a step is the sum of what there is then.
LEMMA SumsPrime ==
  /\ SumOver(Reserved)' = SumOver(Reserved') /\ SumOver(Uncounted)' = SumOver(Uncounted')
  /\ SumOver(Reaped)' = SumOver(Reaped')
  /\ SumOver(tx)' = SumOver(tx') /\ SumOver(comp)' = SumOver(comp')
BY DEF SumOver

\* The chain of the counters, and what one sender has of them.
LEMMA Chain ==
  ASSUME FloodInv
  PROVE  /\ sent + SumOver(Uncounted) <= total
         /\ sent <= total /\ completed <= total
         /\ \A s \in Sender : Reserved[s] \in Nat /\ Reserved[s] <= sent_reserved
<1>1. /\ Types /\ sent_reserved \in Nat /\ sent \in Nat /\ completed \in Nat /\ total \in Nat
      /\ sent_reserved <= total /\ sent_reserved = sent + SumOver(Reserved)
      /\ sent + SumOver(Uncounted) = SumOver(tx) + SumOver(comp) + SumOver(Reaped) + completed
  BY Constants DEF FloodInv, Types, BudgetExact
<1>2. /\ Reserved \in [Sender -> Nat] /\ Uncounted \in [Sender -> Nat]
      /\ IsFiniteSet(Sender)
  BY <1>1, PartsType, Constants
<1>3. \A s \in Sender : Uncounted[s] <= Reserved[s]
  BY <1>1 DEF Types, SenderOK, SenderRecord, Uncounted, Reserved, At
<1>4. SumOver(Uncounted) <= SumOver(Reserved)
  BY <1>2, <1>3, SumLess
<1>5. \A s \in Sender : Reserved[s] \in Nat /\ Reserved[s] <= SumOver(Reserved)
  BY <1>2, SumType
<1>6. /\ SumOver(Reserved) \in Nat /\ SumOver(Uncounted) \in Nat
      /\ SumOver(Reaped) \in Nat /\ SumOver(tx) \in Nat /\ SumOver(comp) \in Nat
  BY <1>1, SumsType
<1>7. sent + SumOver(Uncounted) <= total /\ sent <= total /\ completed <= total
  BY <1>1, <1>4, <1>6
<1>8. \A s \in Sender : Reserved[s] <= sent_reserved
  BY <1>1, <1>5, <1>6
<1> QED
  BY <1>5, <1>7, <1>8

\* Nothing is reserved, sent, reaped or completed at the start.
LEMMA InitInv == Init => FloodInv
<1> SUFFICES ASSUME Init PROVE FloodInv
  OBVIOUS
<1>1. Types
  BY Constants DEF Init, Types, SenderStart, CompleterStart, SenderRecord, CompleterRecord,
    SenderOK, CompleterOK
<1>2. /\ \A s \in Sender : Reserved[s] = 0 /\ Uncounted[s] = 0 /\ tx[s] = 0
      /\ \A c \in Completer : Reaped[c] = 0 /\ comp[c] = 0
  BY DEF Init, Reserved, Uncounted, Reaped, At, AtC, SenderStart, CompleterStart
<1>3. /\ SumOver(Reserved) = 0 /\ SumOver(Uncounted) = 0 /\ SumOver(tx) = 0
      /\ SumOver(Reaped) = 0 /\ SumOver(comp) = 0
  BY <1>1, <1>2, PartsType, SumZero, Constants
<1>4. sent_reserved = 0 /\ sent = 0 /\ completed = 0 /\ total \in Nat
  BY Constants DEF Init
<1> QED
  BY <1>1, <1>3, <1>4 DEF FloodInv, BudgetExact

-----------------------------------------------------------------------------
(* Steps of a sender *)

\* What a step of one sender changes of the sums is what it changes of its part.
LEMMA SenderSums ==
  ASSUME Types, Types', NEW s \in Sender,
         \A t \in Sender : t # s => sender'[t] = sender[t]
  PROVE  /\ SumOver(Reserved') + Reserved[s] = SumOver(Reserved) + Reserved'[s]
         /\ SumOver(Uncounted') + Uncounted[s] = SumOver(Uncounted) + Uncounted'[s]
<1>1. /\ Reserved \in [Sender -> Nat] /\ Reserved' \in [Sender -> Nat]
      /\ Uncounted \in [Sender -> Nat] /\ Uncounted' \in [Sender -> Nat]
      /\ IsFiniteSet(Sender)
  BY PartsType, Constants
<1>2. \A t \in Sender : t # s => Reserved'[t] = Reserved[t] /\ Uncounted'[t] = Uncounted[t]
  BY DEF Reserved, Uncounted, At
<1>3. \A f, g \in [Sender -> Nat] :
        (\A t \in Sender : t # s => g[t] = f[t]) => SumOver(g) + f[s] = SumOver(f) + g[s]
  BY <1>1, SumChange
<1> QED
  BY <1>1, <1>2, <1>3

\* A sender of these types.
LEMMA SenderFields ==
  ASSUME Types, NEW s \in Sender
  PROVE  /\ sender[s] \in SenderRecord /\ SenderOK(sender[s])
         /\ sender[s] = [pc |-> sender[s].pc, send_batch |-> sender[s].send_batch,
                         sent_now |-> sender[s].sent_now]
         /\ sender[s].send_batch \in Nat /\ sender[s].sent_now \in Nat
BY DEF Types, SenderRecord

\* A step of one sender leaves the senders of their types, and the others as they are.
LEMMA SenderUpdate ==
  ASSUME Types, NEW s \in Sender, NEW r \in SenderRecord, SenderOK(r),
         sender' = [sender EXCEPT ![s] = r]
  PROVE  /\ sender' \in [Sender -> SenderRecord] /\ \A t \in Sender : SenderOK(sender'[t])
         /\ sender'[s] = r /\ \A t \in Sender : t # s => sender'[t] = sender[t]
BY DEF Types

\* Granted is no more than what is there and what is wanted.
LEMMA GrantedType ==
  ASSUME NEW there \in Nat, NEW wanted \in Nat, NEW n \in Granted(there, wanted)
  PROVE  n \in Nat /\ n <= there /\ n <= wanted
BY DEF Granted, AtMost

\* The check for the end changes no number.
LEMMA CheckEndStep ==
  ASSUME FloodInv, NEW s \in Sender, CheckEnd(s)
  PROVE  FloodInv'
<1> DEFINE r == [sender[s] EXCEPT !.pc = IF sent >= total /\ completed >= total
                                        THEN "done" ELSE "reserve"]
<1>1. /\ Types /\ sender[s].pc = "check" /\ sender' = [sender EXCEPT ![s] = r]
      /\ UNCHANGED <<sent_reserved, sent, completed, stalls, completer, tx, comp, awake>>
  BY DEF FloodInv, CheckEnd, At, Go, counters, rings
<1>2. r \in SenderRecord /\ SenderOK(r) /\ r.pc \in {"done", "reserve"}
  BY <1>1, SenderFields DEF SenderRecord, SenderOK
<1> HIDE DEF r
<1>3. /\ sender' \in [Sender -> SenderRecord] /\ \A t \in Sender : SenderOK(sender'[t])
      /\ sender'[s] = r /\ \A t \in Sender : t # s => sender'[t] = sender[t]
  BY <1>1, <1>2, SenderUpdate
<1>4. Types'
  BY <1>1, <1>3 DEF Types
<1>5. Reserved' = Reserved /\ Uncounted' = Uncounted /\ Reaped' = Reaped
  BY <1>1, <1>2, <1>3 DEF Reserved, Uncounted, Reaped, At, AtC
<1> QED
  BY <1>1, <1>4, <1>5, SumsPrime DEF FloodInv, BudgetExact

\* A reservation is no more than what is left of the budget.
LEMMA ReserveStep ==
  ASSUME FloodInv, NEW s \in Sender, Reserve(s)
  PROVE  FloodInv'
<1> DEFINE b == Budget(sent_reserved)
           r == [sender[s] EXCEPT !.pc = "transmit", !.send_batch = b]
<1>1. /\ Types /\ sender[s].pc = "reserve" /\ sender' = [sender EXCEPT ![s] = r]
      /\ sent_reserved' = sent_reserved + b
      /\ UNCHANGED <<sent, completed, stalls, completer, tx, comp, awake>>
  BY DEF FloodInv, Reserve, At, rings
<1>2. /\ sent_reserved \in Nat /\ sent_reserved <= total /\ total \in Nat /\ batch \in Nat
      /\ sent_reserved = sent + SumOver(Reserved) /\ sent \in Nat /\ SumOver(Reserved) \in Nat
  BY <1>1, Constants, SumsType DEF FloodInv, BudgetExact, Types
<1>3. b \in Nat /\ b <= batch /\ sent_reserved + b <= total
  BY <1>2 DEF Budget, AtMost, SaturatingSub
<1> HIDE DEF b
<1>4. r \in SenderRecord /\ SenderOK(r) /\ r.pc = "transmit" /\ r.send_batch = b
  <2>1. Types /\ sender[s].pc = "reserve"
    BY <1>1
  <2>2. sender[s].sent_now = 0 /\ sender[s] \in SenderRecord
    BY <2>1, SenderFields DEF SenderOK
  <2>3. r \in SenderRecord
    BY <1>3, <2>2 DEF SenderRecord
  <2>4. r.pc = "transmit" /\ r.send_batch = b /\ r.sent_now = 0
    BY <2>2 DEF SenderRecord
  <2> HIDE DEF r
  <2> QED
    BY <1>3, <2>3, <2>4 DEF SenderOK
<1> HIDE DEF r
<1>5. /\ sender' \in [Sender -> SenderRecord] /\ \A t \in Sender : SenderOK(sender'[t])
      /\ sender'[s] = r /\ \A t \in Sender : t # s => sender'[t] = sender[t]
  BY <1>1, <1>4, SenderUpdate
<1>6. Types'
  BY <1>1, <1>2, <1>3, <1>5 DEF Types
<1>7. /\ Reserved[s] = 0 /\ Reserved'[s] = b /\ Uncounted[s] = 0 /\ Uncounted'[s] = 0
      /\ Reaped' = Reaped
  BY <1>1, <1>4, <1>5 DEF Reserved, Uncounted, Reaped, At, AtC
<1>8. /\ SumOver(Reserved') + 0 = SumOver(Reserved) + b
      /\ SumOver(Uncounted') + 0 = SumOver(Uncounted) + 0
  BY <1>1, <1>5, <1>6, <1>7, SenderSums
<1>9. SumOver(Reserved') \in Nat /\ SumOver(Uncounted') \in Nat /\ SumOver(Uncounted) \in Nat
  BY <1>1, <1>6, SumsType
<1>10. sent_reserved' <= total /\ BudgetExact'
  BY <1>1, <1>2, <1>3, <1>8, <1>9, SumsPrime DEF BudgetExact
<1>11. SumOver(Uncounted)' = SumOver(Uncounted) /\ SumOver(Reaped)' = SumOver(Reaped)
       /\ SumOver(tx)' = SumOver(tx) /\ SumOver(comp)' = SumOver(comp)
  BY <1>1, <1>7, <1>8, <1>9, SumsPrime
<1> QED
  BY <1>1, <1>6, <1>10, <1>11 DEF FloodInv

\* What is sent is in the TX ring, and was reserved.
LEMMA TransmitStep ==
  ASSUME FloodInv, NEW s \in Sender, Transmit(s)
  PROVE  FloodInv'
<1>1. PICK n \in Granted(TxSize - tx[s], sender[s].send_batch) :
        /\ tx' = [tx EXCEPT ![s] = @ + n]
        /\ sender' = [sender EXCEPT ![s].pc = "give_back", ![s].sent_now = n]
  BY DEF Transmit
<1> DEFINE r == [sender[s] EXCEPT !.pc = "give_back", !.sent_now = n]
<1>2. /\ Types /\ sender[s].pc = "transmit" /\ sender' = [sender EXCEPT ![s] = r]
      /\ UNCHANGED <<sent_reserved, sent, completed, stalls, completer, comp, awake>>
  BY <1>1 DEF FloodInv, Transmit, At, counters
<1>3. /\ tx \in [Sender -> 0 .. TxSize] /\ tx[s] \in Nat /\ tx[s] <= TxSize /\ TxSize \in Nat
      /\ sender[s].send_batch \in Nat
  BY <1>2, Constants, SenderFields DEF Types
<1>4. n \in Nat /\ n <= TxSize - tx[s] /\ n <= sender[s].send_batch
  <2>1. TxSize - tx[s] \in Nat
    BY <1>3
  <2> QED
    BY <1>1, <1>3, <2>1, GrantedType
<1>5. r \in SenderRecord /\ SenderOK(r) /\ r.pc = "give_back" /\ r.sent_now = n
      /\ r.send_batch = sender[s].send_batch
  BY <1>2, <1>4, SenderFields DEF SenderRecord, SenderOK
<1> HIDE DEF r
<1>6. /\ sender' \in [Sender -> SenderRecord] /\ \A t \in Sender : SenderOK(sender'[t])
      /\ sender'[s] = r /\ \A t \in Sender : t # s => sender'[t] = sender[t]
  BY <1>2, <1>5, SenderUpdate
<1>7. /\ tx' \in [Sender -> 0 .. TxSize] /\ tx'[s] = tx[s] + n
      /\ \A t \in Sender : t # s => tx'[t] = tx[t]
  BY <1>1, <1>3, <1>4
<1>8. Types'
  BY <1>2, <1>6, <1>7 DEF Types
<1>9. /\ Reserved[s] = sender[s].send_batch /\ Reserved'[s] = sender[s].send_batch
      /\ Uncounted[s] = 0 /\ Uncounted'[s] = n /\ Reaped' = Reaped
  BY <1>2, <1>5, <1>6 DEF Reserved, Uncounted, Reaped, At, AtC
<1>10. /\ SumOver(Reserved') + sender[s].send_batch = SumOver(Reserved) + sender[s].send_batch
       /\ SumOver(Uncounted') + 0 = SumOver(Uncounted) + n
  BY <1>2, <1>6, <1>8, <1>9, SenderSums
<1>11. SumOver(tx') + tx[s] = SumOver(tx) + (tx[s] + n)
  BY <1>2, <1>7, <1>8, PartsType, SumChange, Constants
<1>12. /\ SumOver(Reserved') \in Nat /\ SumOver(Uncounted') \in Nat /\ SumOver(tx') \in Nat
       /\ SumOver(Reserved) \in Nat /\ SumOver(Uncounted) \in Nat /\ SumOver(tx) \in Nat
       /\ SumOver(comp) \in Nat /\ SumOver(Reaped) \in Nat
  BY <1>2, <1>8, SumsType
<1>13. /\ SumOver(Reserved') = SumOver(Reserved) /\ SumOver(Uncounted') = SumOver(Uncounted) + n
       /\ SumOver(tx') = SumOver(tx) + n
  BY <1>3, <1>4, <1>10, <1>11, <1>12
<1>14. /\ sent_reserved <= total /\ sent_reserved = sent + SumOver(Reserved)
       /\ sent + SumOver(Uncounted) = SumOver(tx) + SumOver(comp) + SumOver(Reaped) + completed
       /\ sent \in Nat /\ completed \in Nat
  BY DEF FloodInv, BudgetExact, Types
<1>15. sent + SumOver(Uncounted') = SumOver(tx') + SumOver(comp) + SumOver(Reaped) + completed
  BY <1>4, <1>12, <1>13, <1>14
<1> QED
  BY <1>2, <1>8, <1>9, <1>13, <1>14, <1>15, SumsPrime DEF FloodInv, BudgetExact

\* What wakes the kernel leaves stalls and awake of their types.
LEMMA WakeType ==
  ASSUME Types, NEW s \in Sender, WakeIfStalled(s)
  PROVE  stalls' \in [Sender -> 0 .. MaxStalls] /\ awake' \in [Sender -> BOOLEAN]
<1>1. stalls \in [Sender -> 0 .. MaxStalls] /\ awake \in [Sender -> BOOLEAN]
  BY DEF Types
<1>2. CASE UNCHANGED <<stalls, awake>>
  BY <1>1, <1>2
<1>3. CASE /\ \E n \in 1 .. MaxStalls : stalls' = [stalls EXCEPT ![s] = n]
           /\ \E woken \in {awake[s], TRUE} : awake' = [awake EXCEPT ![s] = woken]
  <2>1. PICK n \in 1 .. MaxStalls : stalls' = [stalls EXCEPT ![s] = n]
    BY <1>3
  <2>2. n \in 0 .. MaxStalls
    BY Constants
  <2>3. PICK woken \in {awake[s], TRUE} : awake' = [awake EXCEPT ![s] = woken]
    BY <1>3
  <2>4. woken \in BOOLEAN
    BY <1>1, <2>3
  <2>5. awake' \in [Sender -> BOOLEAN]
    BY <1>1, <2>3, <2>4
  <2> QED
    BY <1>1, <2>1, <2>2, <2>5
<1> QED
  BY <1>2, <1>3 DEF WakeIfStalled

\* What is given back was reserved by this sender and has not been sent.
LEMMA GiveBackStep ==
  ASSUME FloodInv, NEW s \in Sender, GiveBack(s)
  PROVE  FloodInv'
<1> DEFINE b == sender[s].send_batch
           n == sender[s].sent_now
           r == [sender[s] EXCEPT !.pc = "count"]
<1>1. /\ Types /\ sender[s].pc = "give_back" /\ sender' = [sender EXCEPT ![s] = r]
      /\ sent_reserved' = sent_reserved - (b - n) /\ WakeIfStalled(s)
      /\ UNCHANGED <<sent, completed, completer, tx, comp>>
  BY DEF FloodInv, GiveBack, At, Go
<1>2. /\ b \in Nat /\ n \in Nat /\ n <= b
      /\ r \in SenderRecord /\ SenderOK(r) /\ r.pc = "count" /\ r.sent_now = n
  BY <1>1, SenderFields DEF SenderRecord, SenderOK
<1>3. Reserved[s] = b /\ Uncounted[s] = n
  BY <1>1 DEF Reserved, Uncounted, At
<1> HIDE DEF b, n, r
<1>4. /\ sender' \in [Sender -> SenderRecord] /\ \A t \in Sender : SenderOK(sender'[t])
      /\ sender'[s] = r /\ \A t \in Sender : t # s => sender'[t] = sender[t]
  BY <1>1, <1>2, SenderUpdate
<1>5. Reserved'[s] = n /\ Uncounted'[s] = n /\ Reaped' = Reaped
  BY <1>1, <1>2, <1>4 DEF Reserved, Uncounted, Reaped, At, AtC
<1>6. /\ sent_reserved \in Nat /\ sent \in Nat /\ total \in Nat /\ SumOver(Reserved) \in Nat
      /\ sent_reserved <= total /\ sent_reserved = sent + SumOver(Reserved)
      /\ b <= sent_reserved
  BY <1>1, <1>3, Chain, Constants, SumsType DEF FloodInv, BudgetExact, Types
<1>7. sent_reserved' \in Nat /\ sent_reserved' <= total
  BY <1>1, <1>2, <1>6
<1>8. Types'
  BY <1>1, <1>4, <1>7, WakeType DEF Types
<1>9. /\ SumOver(Reserved') + b = SumOver(Reserved) + n
      /\ SumOver(Uncounted') + n = SumOver(Uncounted) + n
  BY <1>1, <1>3, <1>4, <1>5, <1>8, SenderSums
<1>10. SumOver(Reserved') \in Nat /\ SumOver(Uncounted') \in Nat /\ SumOver(Uncounted) \in Nat
  BY <1>1, <1>8, SumsType
<1>11. sent_reserved' = sent + SumOver(Reserved') /\ SumOver(Uncounted') = SumOver(Uncounted)
  BY <1>1, <1>2, <1>6, <1>9, <1>10
<1>12. BudgetExact'
  BY <1>1, <1>11, SumsPrime DEF BudgetExact
<1>13. SumOver(Uncounted)' = SumOver(Uncounted) /\ SumOver(Reaped)' = SumOver(Reaped)
       /\ SumOver(tx)' = SumOver(tx) /\ SumOver(comp)' = SumOver(comp)
  BY <1>1, <1>5, <1>11, SumsPrime
<1> QED
  BY <1>1, <1>7, <1>8, <1>12, <1>13 DEF FloodInv

\* What a sender counts it has no longer reserved.
LEMMA CountSentStep ==
  ASSUME FloodInv, NEW s \in Sender, CountSent(s)
  PROVE  FloodInv'
<1> DEFINE n == sender[s].sent_now
<1>1. /\ Types /\ sender[s].pc = "count" /\ sender' = [sender EXCEPT ![s] = SenderStart]
      /\ sent' = sent + n
      /\ UNCHANGED <<sent_reserved, completed, stalls, completer, tx, comp, awake>>
  BY DEF FloodInv, CountSent, At, rings
<1>2. n \in Nat /\ Reserved[s] = n /\ Uncounted[s] = n
  BY <1>1, SenderFields DEF Reserved, Uncounted, At
<1> HIDE DEF n
<1>3. SenderStart \in SenderRecord /\ SenderOK(SenderStart) /\ SenderStart.pc = "check"
  BY Constants DEF SenderStart, SenderRecord, SenderOK
<1>4. /\ sender' \in [Sender -> SenderRecord] /\ \A t \in Sender : SenderOK(sender'[t])
      /\ sender'[s] = SenderStart /\ \A t \in Sender : t # s => sender'[t] = sender[t]
  BY <1>1, <1>3, SenderUpdate
<1>5. Reserved'[s] = 0 /\ Uncounted'[s] = 0 /\ Reaped' = Reaped
  BY <1>1, <1>3, <1>4 DEF Reserved, Uncounted, Reaped, At, AtC
<1>6. sent \in Nat /\ completed \in Nat /\ sent' \in Nat
  BY <1>1, <1>2 DEF Types
<1>7. Types'
  BY <1>1, <1>4, <1>6 DEF Types
<1>8. /\ SumOver(Reserved') + n = SumOver(Reserved) + 0
      /\ SumOver(Uncounted') + n = SumOver(Uncounted) + 0
  BY <1>1, <1>2, <1>4, <1>5, <1>7, SenderSums
<1>9. /\ SumOver(Reserved') \in Nat /\ SumOver(Uncounted') \in Nat
      /\ SumOver(Reserved) \in Nat /\ SumOver(Uncounted) \in Nat
  BY <1>1, <1>7, SumsType
<1>10. /\ sent' + SumOver(Reserved') = sent + SumOver(Reserved)
       /\ sent' + SumOver(Uncounted') = sent + SumOver(Uncounted)
  BY <1>1, <1>2, <1>6, <1>8, <1>9
<1>11. BudgetExact'
  BY <1>1, <1>10, SumsPrime DEF FloodInv, BudgetExact
<1>12. /\ sent' + SumOver(Uncounted)' = sent + SumOver(Uncounted)
       /\ SumOver(Reaped)' = SumOver(Reaped)
       /\ SumOver(tx)' = SumOver(tx) /\ SumOver(comp)' = SumOver(comp)
  BY <1>1, <1>5, <1>10, SumsPrime
<1> QED
  BY <1>1, <1>7, <1>11, <1>12 DEF FloodInv

-----------------------------------------------------------------------------
(* Steps of a completer *)

\* What a step of one completer changes of the sum is what it changes of its part.
LEMMA CompleterSums ==
  ASSUME Types, Types', NEW c \in Completer,
         \A d \in Completer : d # c => completer'[d] = completer[d]
  PROVE  SumOver(Reaped') + Reaped[c] = SumOver(Reaped) + Reaped'[c]
<1>1. /\ Reaped \in [Completer -> Nat] /\ Reaped' \in [Completer -> Nat]
      /\ IsFiniteSet(Completer)
  BY PartsType, Constants
<1>2. \A d \in Completer : d # c => Reaped'[d] = Reaped[d]
  BY DEF Reaped, AtC
<1>3. \A f, g \in [Completer -> Nat] :
        (\A d \in Completer : d # c => g[d] = f[d]) => SumOver(g) + f[c] = SumOver(f) + g[c]
  BY <1>1, SumChange
<1> QED
  BY <1>1, <1>2, <1>3

\* A completer of these types.
LEMMA CompleterFields ==
  ASSUME Types, NEW c \in Completer
  PROVE  /\ completer[c] \in CompleterRecord /\ CompleterOK(completer[c])
         /\ completer[c].current \in Nat /\ completer[c].comp_batch \in Nat
         /\ completer[c].comp_now \in Nat
BY DEF Types, CompleterRecord

\* A step of one completer leaves the others as they are.
LEMMA CompleterUpdate ==
  ASSUME Types, NEW c \in Completer, NEW r \in CompleterRecord, CompleterOK(r),
         completer' = [completer EXCEPT ![c] = r]
  PROVE  /\ completer' \in [Completer -> CompleterRecord]
         /\ \A d \in Completer : CompleterOK(completer'[d])
         /\ completer'[c] = r /\ \A d \in Completer : d # c => completer'[d] = completer[d]
BY DEF Types

\* A completer at the top of its loop.
LEMMA CompleterStartType ==
  /\ CompleterStart \in CompleterRecord /\ CompleterOK(CompleterStart)
  /\ CompleterStart.pc = "completed"
BY Constants DEF CompleterStart, CompleterRecord, CompleterOK

\* A completer that loads a counter has reaped nothing.
LEMMA LoadStep ==
  ASSUME FloodInv, NEW c \in Completer, NEW r \in CompleterRecord, CompleterOK(r),
         completer[c].pc # "count", r.pc # "count",
         completer' = [completer EXCEPT ![c] = r],
         UNCHANGED <<sent_reserved, sent, completed, stalls, sender, tx, comp, awake>>
  PROVE  FloodInv'
<1>1. Types
  BY DEF FloodInv
<1>2. /\ completer' \in [Completer -> CompleterRecord]
      /\ \A d \in Completer : CompleterOK(completer'[d])
      /\ completer'[c] = r /\ \A d \in Completer : d # c => completer'[d] = completer[d]
  BY <1>1, CompleterUpdate
<1>3. Types'
  BY <1>1, <1>2 DEF Types
<1>4. Reserved' = Reserved /\ Uncounted' = Uncounted /\ Reaped' = Reaped
  BY <1>2 DEF Reserved, Uncounted, Reaped, At, AtC
<1> QED
  BY <1>3, <1>4, SumsPrime DEF FloodInv, BudgetExact

\* The first load, of completed.
LEMMA LoadCurrentStep ==
  ASSUME FloodInv, NEW c \in Completer, LoadCurrent(c)
  PROVE  FloodInv'
<1> DEFINE r == [completer[c] EXCEPT !.current = completed,
                                     !.pc = IF completed = total THEN "done" ELSE "sent"]
<1>1. /\ completer[c].pc = "completed" /\ completer' = [completer EXCEPT ![c] = r]
      /\ UNCHANGED <<sent_reserved, sent, completed, stalls, sender, tx, comp, awake>>
  BY DEF LoadCurrent, AtC, counters, rings
<1>2. Types /\ completed \in Nat /\ completed <= total
  BY Chain DEF FloodInv, Types
<1>3. r \in CompleterRecord
  <2>1. completer[c] \in CompleterRecord
    BY <1>2, CompleterFields
  <2>2. (IF completed = total THEN "done" ELSE "sent")
          \in {"completed", "sent", "reap", "count", "done"}
    OBVIOUS
  <2> QED
    BY <1>2, <2>1, <2>2 DEF CompleterRecord
<1>4. CompleterOK(r) /\ r.pc # "count"
  <2>1. completer[c] \in CompleterRecord /\ CompleterOK(completer[c])
    BY <1>2, CompleterFields
  <2>2. /\ r.current = completed /\ r.pc \in {"done", "sent"}
        /\ r.comp_batch = completer[c].comp_batch /\ r.comp_now = completer[c].comp_now
    BY <2>1 DEF CompleterRecord
  <2>3. completer[c].pc # "count"
    BY <1>1
  <2> HIDE DEF r
  <2> QED
    BY <1>2, <2>1, <2>2, <2>3 DEF CompleterOK
<1> HIDE DEF r
<1>5. completer[c].pc # "count"
  BY <1>1
<1> QED
  BY <1>1, <1>3, <1>4, <1>5, LoadStep

\* The second load, of sent.
LEMMA LoadBatchStep ==
  ASSUME FloodInv, NEW c \in Completer, LoadBatch(c)
  PROVE  FloodInv'
<1> DEFINE b == AtMost(SaturatingSub(sent, completer[c].current), batch)
           r == [completer[c] EXCEPT !.comp_batch = b, !.current = 0, !.pc = "reap"]
<1>1. /\ completer[c].pc = "sent" /\ completer' = [completer EXCEPT ![c] = r]
      /\ UNCHANGED <<sent_reserved, sent, completed, stalls, sender, tx, comp, awake>>
  BY DEF LoadBatch, AtC, counters, rings
<1>2. /\ Types /\ sent \in Nat /\ batch \in Nat /\ total \in Nat
      /\ completer[c] \in CompleterRecord /\ CompleterOK(completer[c])
      /\ completer[c].current \in Nat
  BY Constants, CompleterFields DEF FloodInv, Types
<1>3. b \in Nat /\ b <= batch
  BY <1>2 DEF AtMost, SaturatingSub
<1>4. completer[c].pc # "count"
  BY <1>1
<1> HIDE DEF b
<1>5. r \in CompleterRecord
  BY <1>2, <1>3 DEF CompleterRecord
<1>6. r.current = 0 /\ r.pc = "reap" /\ r.comp_batch = b /\ r.comp_now = completer[c].comp_now
  BY <1>2 DEF CompleterRecord
<1> HIDE DEF r
<1>7. completer[c].comp_now = 0
  BY <1>2, <1>4 DEF CompleterOK
<1>8. CompleterOK(r)
  BY <1>2, <1>3, <1>6, <1>7 DEF CompleterOK
<1> QED
  BY <1>1, <1>4, <1>5, <1>6, <1>8, LoadStep

\* What is reaped leaves the completion ring.
LEMMA ReapStep ==
  ASSUME FloodInv, NEW c \in Completer, Reap(c)
  PROVE  FloodInv'
<1>1. PICK n \in Granted(comp[c], completer[c].comp_batch) :
        /\ comp' = [comp EXCEPT ![c] = @ - n]
        /\ \/ /\ n > 0
              /\ completer' = [completer EXCEPT ![c].pc = "count", ![c].comp_now = n]
              /\ UNCHANGED stalls
           \/ /\ n = 0
              /\ completer' = [completer EXCEPT ![c] = CompleterStart]
              /\ stalls' = [s \in Sender |-> AtMost(stalls[s] + 1, MaxStalls)]
  BY DEF Reap
<1>2. /\ Types /\ completer[c].pc = "reap"
      /\ UNCHANGED <<sent_reserved, sent, completed, sender, tx, awake>>
  BY DEF FloodInv, Reap, AtC, counters
<1>3. /\ comp \in [Completer -> 0 .. CompleteSize] /\ comp[c] \in Nat
      /\ CompleteSize \in Nat /\ comp[c] <= CompleteSize
      /\ completer[c] \in CompleterRecord /\ CompleterOK(completer[c])
      /\ completer[c].comp_batch \in Nat
  BY <1>2, Constants, CompleterFields DEF Types
<1>4. n \in Nat /\ n <= comp[c] /\ n <= completer[c].comp_batch
  BY <1>1, <1>3, GrantedType
<1>5. PICK r \in CompleterRecord :
        /\ CompleterOK(r) /\ completer' = [completer EXCEPT ![c] = r]
        /\ (IF r.pc = "count" THEN r.comp_now ELSE 0) = n
  <2>1. CASE n = 0
    BY <1>1, <2>1, CompleterStartType
  <2>2. CASE n > 0
    <3> DEFINE q == [completer[c] EXCEPT !.pc = "count", !.comp_now = n]
    <3>1. completer' = [completer EXCEPT ![c] = q]
      <4>1. completer' = [completer EXCEPT ![c].pc = "count", ![c].comp_now = n]
        BY <1>1, <1>4, <2>2
      <4> QED
        BY <4>1
    <3>2. q \in CompleterRecord
      BY <1>3, <1>4 DEF CompleterRecord
    <3>3. /\ q.pc = "count" /\ q.comp_now = n /\ q.current = completer[c].current
          /\ q.comp_batch = completer[c].comp_batch
      BY <1>3 DEF CompleterRecord
    <3> HIDE DEF q
    <3>4. CompleterOK(q)
      BY <1>3, <1>4, <3>3 DEF CompleterOK
    <3> QED
      BY <3>1, <3>2, <3>3, <3>4
  <2> QED
    BY <1>4, <2>1, <2>2
<1>6. /\ completer' \in [Completer -> CompleterRecord]
      /\ \A d \in Completer : CompleterOK(completer'[d])
      /\ completer'[c] = r /\ \A d \in Completer : d # c => completer'[d] = completer[d]
  BY <1>2, <1>5, CompleterUpdate
<1>7. /\ comp' \in [Completer -> 0 .. CompleteSize] /\ comp'[c] = comp[c] - n
      /\ \A d \in Completer : d # c => comp'[d] = comp[d]
  BY <1>1, <1>3, <1>4
<1>8. stalls' \in [Sender -> 0 .. MaxStalls]
  <2>1. stalls \in [Sender -> 0 .. MaxStalls] /\ MaxStalls \in Nat
    BY <1>2, Constants DEF Types
  <2>2. \A s \in Sender : AtMost(stalls[s] + 1, MaxStalls) \in 0 .. MaxStalls
    BY <2>1 DEF AtMost
  <2> QED
    BY <1>1, <2>1, <2>2
<1>9. Types'
  BY <1>2, <1>6, <1>7, <1>8 DEF Types
<1>10. /\ Reaped[c] = 0 /\ Reaped'[c] = n
       /\ Reserved' = Reserved /\ Uncounted' = Uncounted
  BY <1>2, <1>5, <1>6 DEF Reserved, Uncounted, Reaped, At, AtC
<1>11. SumOver(Reaped') + 0 = SumOver(Reaped) + n
  BY <1>2, <1>6, <1>9, <1>10, CompleterSums
<1>12. SumOver(comp') + comp[c] = SumOver(comp) + (comp[c] - n)
  <2>1. /\ comp \in [Completer -> Nat] /\ comp' \in [Completer -> Nat]
        /\ IsFiniteSet(Completer)
    BY <1>2, <1>9, PartsType, Constants
  <2>2. \A f, g \in [Completer -> Nat] :
          (\A d \in Completer : d # c => g[d] = f[d]) => SumOver(g) + f[c] = SumOver(f) + g[c]
    BY <2>1, SumChange
  <2> QED
    BY <1>7, <2>1, <2>2
<1>13. /\ SumOver(Reaped') \in Nat /\ SumOver(comp') \in Nat
       /\ SumOver(Reaped) \in Nat /\ SumOver(comp) \in Nat
       /\ SumOver(tx) \in Nat /\ SumOver(Uncounted) \in Nat
       /\ completed \in Nat /\ sent \in Nat
  BY <1>2, <1>9, SumsType DEF Types
<1>14. SumOver(comp') + SumOver(Reaped') = SumOver(comp) + SumOver(Reaped)
  BY <1>3, <1>4, <1>11, <1>12, <1>13
<1>15. sent + SumOver(Uncounted) = SumOver(tx) + SumOver(comp) + SumOver(Reaped) + completed
  BY DEF FloodInv
<1>16. sent + SumOver(Uncounted) = SumOver(tx) + SumOver(comp') + SumOver(Reaped') + completed
  BY <1>13, <1>14, <1>15
<1> QED
  BY <1>2, <1>9, <1>10, <1>16, SumsPrime DEF FloodInv, BudgetExact

\* What a completer counts it has no longer reaped.
LEMMA CountCompletedStep ==
  ASSUME FloodInv, NEW c \in Completer, CountCompleted(c)
  PROVE  FloodInv'
<1> DEFINE n == completer[c].comp_now
<1>1. /\ Types /\ completer[c].pc = "count"
      /\ completer' = [completer EXCEPT ![c] = CompleterStart]
      /\ completed' = completed + n
      /\ UNCHANGED <<sent_reserved, sent, stalls, sender, tx, comp, awake>>
  BY DEF FloodInv, CountCompleted, AtC, rings
<1>2. n \in Nat /\ Reaped[c] = n
  BY <1>1, CompleterFields DEF Reaped, AtC
<1> HIDE DEF n
<1>3. /\ completer' \in [Completer -> CompleterRecord]
      /\ \A d \in Completer : CompleterOK(completer'[d])
      /\ completer'[c] = CompleterStart
      /\ \A d \in Completer : d # c => completer'[d] = completer[d]
  BY <1>1, CompleterStartType, CompleterUpdate
<1>4. Reaped'[c] = 0 /\ Reserved' = Reserved /\ Uncounted' = Uncounted
  BY <1>1, <1>3, CompleterStartType DEF Reserved, Uncounted, Reaped, At, AtC
<1>5. completed \in Nat /\ completed' \in Nat
  BY <1>1, <1>2 DEF Types
<1>6. Types'
  BY <1>1, <1>3, <1>5 DEF Types
<1>7. SumOver(Reaped') + n = SumOver(Reaped) + 0
  BY <1>1, <1>2, <1>3, <1>4, <1>6, CompleterSums
<1>8. /\ SumOver(Reaped') \in Nat /\ SumOver(Reaped) \in Nat
      /\ SumOver(tx) \in Nat /\ SumOver(comp) \in Nat
  BY <1>1, <1>6, SumsType
<1>9. SumOver(tx) + SumOver(comp) + SumOver(Reaped') + completed'
        = SumOver(tx) + SumOver(comp) + SumOver(Reaped) + completed
  BY <1>1, <1>2, <1>5, <1>7, <1>8
<1> QED
  BY <1>1, <1>4, <1>6, <1>9, SumsPrime DEF FloodInv, BudgetExact

-----------------------------------------------------------------------------
(* Steps of the kernel *)

\* A packet goes from a TX ring to a completion ring that has room.
LEMMA KernelSendStep ==
  ASSUME FloodInv, NEW s \in Sender, KernelSend(s)
  PROVE  FloodInv'
<1> DEFINE c == QueueOf[s]
<1>1. /\ Types /\ c \in Completer /\ tx[s] > 0 /\ comp[c] < CompleteSize
      /\ tx' = [tx EXCEPT ![s] = @ - 1] /\ comp' = [comp EXCEPT ![c] = @ + 1]
      /\ \E more \in BOOLEAN : awake' = [awake EXCEPT ![s] = more]
      /\ UNCHANGED <<sent_reserved, sent, completed, stalls, sender, completer>>
  BY Constants DEF FloodInv, KernelSend, CanSend, counters
<1> HIDE DEF c
<1>2. /\ tx \in [Sender -> 0 .. TxSize] /\ comp \in [Completer -> 0 .. CompleteSize]
      /\ awake \in [Sender -> BOOLEAN]
      /\ TxSize \in Nat /\ CompleteSize \in Nat /\ tx[s] \in Nat /\ comp[c] \in Nat
  BY <1>1, Constants DEF Types
<1>3. /\ tx' \in [Sender -> 0 .. TxSize] /\ tx'[s] = tx[s] - 1
      /\ \A t \in Sender : t # s => tx'[t] = tx[t]
  BY <1>1, <1>2
<1>4. /\ comp' \in [Completer -> 0 .. CompleteSize] /\ comp'[c] = comp[c] + 1
      /\ \A d \in Completer : d # c => comp'[d] = comp[d]
  BY <1>1, <1>2
<1>5. awake' \in [Sender -> BOOLEAN]
  BY <1>1, <1>2
<1>6. Types'
  BY <1>1, <1>3, <1>4, <1>5 DEF Types
<1>7. /\ tx \in [Sender -> Nat] /\ tx' \in [Sender -> Nat] /\ IsFiniteSet(Sender)
      /\ comp \in [Completer -> Nat] /\ comp' \in [Completer -> Nat] /\ IsFiniteSet(Completer)
  BY <1>1, <1>6, PartsType, Constants
<1>8. SumOver(tx') + tx[s] = SumOver(tx) + (tx[s] - 1)
  <2>1. \A f, g \in [Sender -> Nat] :
          (\A t \in Sender : t # s => g[t] = f[t]) => SumOver(g) + f[s] = SumOver(f) + g[s]
    BY <1>7, SumChange
  <2> QED
    BY <1>3, <1>7, <2>1
<1>9. SumOver(comp') + comp[c] = SumOver(comp) + (comp[c] + 1)
  <2>1. \A f, g \in [Completer -> Nat] :
          (\A d \in Completer : d # c => g[d] = f[d]) => SumOver(g) + f[c] = SumOver(f) + g[c]
    BY <1>1, <1>7, SumChange
  <2> QED
    BY <1>4, <1>7, <2>1
<1>10. Reserved' = Reserved /\ Uncounted' = Uncounted /\ Reaped' = Reaped
  BY <1>1 DEF Reserved, Uncounted, Reaped, At, AtC
<1>11. /\ SumOver(tx') \in Nat /\ SumOver(comp') \in Nat
       /\ SumOver(tx) \in Nat /\ SumOver(comp) \in Nat
  BY <1>1, <1>6, SumsType
<1>12. SumOver(tx') + SumOver(comp') = SumOver(tx) + SumOver(comp)
  BY <1>2, <1>8, <1>9, <1>11
<1> QED
  BY <1>1, <1>6, <1>10, <1>12, SumsPrime DEF FloodInv, BudgetExact

\* What no counter, ring or thread notices.
LEMMA StillStep ==
  ASSUME FloodInv, Types',
         UNCHANGED <<sent_reserved, sent, completed, sender, completer, tx, comp>>
  PROVE  FloodInv'
<1>1. Reserved' = Reserved /\ Uncounted' = Uncounted /\ Reaped' = Reaped
  BY DEF Reserved, Uncounted, Reaped, At, AtC
<1> QED
  BY <1>1, SumsPrime DEF FloodInv, BudgetExact

\* Every step of every thread and of the kernel keeps the invariant.
LEMMA NextInv == FloodInv /\ [Next]_vars => FloodInv'
<1> SUFFICES ASSUME FloodInv, [Next]_vars PROVE FloodInv'
  OBVIOUS
<1>1. CASE UNCHANGED vars
  <2>1. UNCHANGED <<sent_reserved, sent, completed, stalls, sender, completer, tx, comp, awake>>
    BY <1>1 DEF vars, counters, rings
  <2>2. Types'
    BY <2>1 DEF FloodInv, Types
  <2> QED
    BY <2>1, <2>2, StillStep
<1>2. ASSUME NEW s \in Sender, KernelSleep(s) PROVE FloodInv'
  <2>1. /\ UNCHANGED <<sent_reserved, sent, completed, stalls, sender, completer, tx, comp>>
        /\ awake' = [awake EXCEPT ![s] = FALSE]
    BY <1>2 DEF KernelSleep, counters
  <2>2. Types'
    BY <2>1 DEF FloodInv, Types
  <2> QED
    BY <2>1, <2>2, StillStep
<1>3. ASSUME NEW s \in Sender, SenderStep(s) PROVE FloodInv'
  BY <1>3, CheckEndStep, ReserveStep, TransmitStep, GiveBackStep, CountSentStep
    DEF SenderStep
<1>4. ASSUME NEW c \in Completer, CompleterStep(c) PROVE FloodInv'
  BY <1>4, LoadCurrentStep, LoadBatchStep, ReapStep, CountCompletedStep DEF CompleterStep
<1> QED
  BY <1>1, <1>2, <1>3, <1>4, KernelSendStep DEF Next

-----------------------------------------------------------------------------
(* Theorems *)

\* The invariant holds of every run.
LEMMA FloodInvHolds == Spec => []FloodInv
BY InitInv, NextInv, PTL DEF Spec

\* No counter leaves 0 .. total: in particular sent_reserved never goes below zero,
\* where it would wrap, and completed never passes total, which completers compare
\* it with for equality; and no ring is filled beyond its entries.
THEOREM TypeCorrect == Spec => []TypeOK
<1>1. FloodInv => TypeOK
  <2> SUFFICES ASSUME FloodInv PROVE TypeOK
    OBVIOUS
  <2>1. /\ Types /\ sent_reserved <= total /\ sent <= total /\ completed <= total
        /\ total \in Nat /\ batch \in Nat
    BY Chain, Constants DEF FloodInv
  <2>2. {sent_reserved, sent, completed} \subseteq 0 .. total
    BY <2>1 DEF Types
  <2>3. ASSUME NEW s \in Sender
        PROVE  /\ sender[s].pc \in {"check", "reserve", "transmit", "give_back", "count", "done"}
               /\ sender[s].send_batch \in 0 .. batch
               /\ sender[s].sent_now \in 0 .. sender[s].send_batch
    <3>1. /\ sender[s] \in SenderRecord /\ SenderOK(sender[s])
          /\ sender[s].send_batch \in Nat /\ sender[s].sent_now \in Nat
      BY <2>1, SenderFields
    <3>2. sender[s].send_batch <= batch /\ sender[s].sent_now <= sender[s].send_batch
      BY <3>1 DEF SenderOK
    <3>3. sender[s].pc \in {"check", "reserve", "transmit", "give_back", "count", "done"}
      BY <3>1 DEF SenderRecord
    <3> QED
      BY <2>1, <3>1, <3>2, <3>3
  <2>4. ASSUME NEW c \in Completer
        PROVE  /\ completer[c].pc \in {"completed", "sent", "reap", "count", "done"}
               /\ completer[c].current \in 0 .. total
               /\ completer[c].comp_batch \in 0 .. batch
               /\ completer[c].comp_now \in 0 .. completer[c].comp_batch
    BY <2>1, CompleterFields DEF CompleterRecord, CompleterOK
  <2> QED
    BY <2>1, <2>2, <2>3, <2>4 DEF TypeOK, Types
<1> QED
  BY <1>1, FloodInvHolds, PTL

\* The budget is shared out exactly, for every number of senders and every batch.
THEOREM BudgetExactHolds == Spec => []BudgetExact
<1>1. FloodInv => BudgetExact
  BY DEF FloodInv
<1> QED
  BY <1>1, FloodInvHolds, PTL

\* Every packet comes out of the budget and is counted as completed once, for every
\* number of threads and every assignment of the senders to completion rings.
THEOREM PacketsExactHolds == Spec => []PacketsExact
<1>1. FloodInv => PacketsExact
  BY Chain DEF FloodInv, PacketsExact
<1> QED
  BY <1>1, FloodInvHolds, PTL
================================================================================
