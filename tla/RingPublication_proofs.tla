------------------------ MODULE RingPublication_proofs ------------------------
(***************************************************************************)
(* Proofs about RingPublication, for every capacity, index width, number   *)
(* of generations and payload size: type correctness, that a delivered     *)
(* page holds no torn record (PageCoherent), where the newest-committed    *)
(* estimate lies (NewestBracketed), that a page accounts for every entry   *)
(* it should (NoSilentLoss), and that the ring and its reader implement    *)
(* the abstract log (ImplementsLog).                                       *)
(*                                                                         *)
(* The inductive invariant says why the two token checks suffice.  In the  *)
(* current segment a nonzero token in the slot of a committed index always *)
(* vouches for the whole payload; a token can become `index' only once per *)
(* segment, before the reader starts decoding it; and a reader whose       *)
(* generation is no longer current never finishes with a page.             *)
(***************************************************************************)
EXTENDS RingPublication, TLAPS

Writing == wpc \in {"invalidate", "payload", "publish"}

\* The last generation a producer published.
CurrentGeneration == IF generation = 0 THEN wgeneration ELSE generation

\* The producer's control state and the header agree.
WriterInv ==
    /\ generation = 0 <=> wpc \in {"resetHead", "successor"}
    /\ generation = 0 => wgeneration < MaxGeneration
    /\ wpc = "successor" => head = 0
    /\ Writing => head \in 1 .. MaxIndex
    /\ wpc \in {"payload", "publish"} => token[SlotOf(head)] = 0
    /\ wpc = "payload" => \A w \in 1 .. wword - 1 : payload[SlotOf(head)][w] = <<generation, head>>
    /\ wpc = "publish" => \A w \in Words : payload[SlotOf(head)][w] = <<generation, head>>

\* A nonzero token in the slot of a committed index vouches for the payload.
TokenVouches ==
    generation # 0 =>
        \A i \in 1 .. Committed : token[SlotOf(i)] # 0 =>
            \A w \in Words : payload[SlotOf(i)][w] = <<generation, token[SlotOf(i)]>>

\* Which tokens a slot may hold: one of the last Capacity committed indexes
\* where the segment has already reached, else nothing or a leftover of the
\* last lap of the segment before.
TokenRange ==
    \A s \in Slots :
        LET t == token[s] IN
        /\ t # 0 => SlotOf(t) = s
        /\ (t # 0 /\ s < Committed) => t > Committed - Capacity /\ t <= Committed
        /\ (t # 0 /\ s >= Committed) => t > MaxIndex - Capacity

\* The segment the reader loaded is still the producer's.
Live == rgeneration # 0 /\ generation = rgeneration

ReaderInv ==
    /\ rgeneration <= CurrentGeneration
    /\ rpc \in {"newest", "reloadHead"} => rhead # 0
    /\ rpc \notin {"idle", "flags", "head"} => rgeneration # 0
    /\ (Live /\ rpc \notin {"idle", "flags", "head"}) => rhead <= head
    /\ (Live /\ rpc \notin {"idle", "flags", "head", "newest", "reloadHead"})
           => newest <= Committed
    /\ rpc = "plan" => newest <= rhead /\ rhead <= newest + 1
    /\ rpc = "loop" => index <= newest + 1 /\ (index = 0 => newest = MaxIndex)
    /\ rpc \in {"decode", "tokenAfter"} => index \in 1 .. newest

\* While the token still stands, what has been decoded is that entry's.
DecodeInv ==
    /\ (Live /\ rpc = "decode" /\ token[SlotOf(index)] = index) =>
           \A w \in 1 .. word - 1 : entry[w] = <<rgeneration, index>>
    /\ (Live /\ rpc = "tokenAfter" /\ token[SlotOf(index)] = index) =>
           \A w \in Words : entry[w] = <<rgeneration, index>>

AllCoherent == \A k \in 1 .. Len(entries) : Coherent(entries[k])

PageInv ==
    /\ rpc \in {"flags", "head", "newest", "reloadHead", "plan"} => entries = <<>>
    /\ (Live /\ rpc \in {"loop", "decode", "tokenAfter", "generation"}) => AllCoherent
    /\ rpc \in {"finalFlags", "idle"} => AllCoherent

IInv == TypeOK /\ WriterInv /\ TokenVouches /\ TokenRange /\ ReaderInv /\ DecodeInv /\ PageInv

-----------------------------------------------------------------------------
(* Arithmetic of the slots and of the index window.                        *)

\* Division by the capacity leaves a unique remainder.
LEMMA RemainderUnique ==
    ASSUME NEW C \in Nat \ {0}, NEW p \in Int, NEW q \in Int,
           NEW r \in 0 .. C - 1, NEW s \in 0 .. C - 1, C * p + r = C * q + s
    PROVE  r = s
<1>1. p = q \/ p >= q + 1 \/ q >= p + 1
  OBVIOUS
<1>2. CASE p = q
  BY <1>2, SMT
<1>3. CASE p >= q + 1
  <2>1. C * (p - q - 1) \in Nat
    BY <1>3, SMT
  <2>2. C * (p - q - 1) = C * p - C * q - C
    BY SMT
  <2> QED
    BY <2>1, <2>2, SMT
<1>4. CASE q >= p + 1
  <2>1. C * (q - p - 1) \in Nat
    BY <1>4, SMT
  <2>2. C * (q - p - 1) = C * q - C * p - C
    BY SMT
  <2> QED
    BY <2>1, <2>2, SMT
<1> QED
  BY <1>1, <1>2, <1>3, <1>4

\* Indexes one lap apart share a slot.
LEMMA SlotLap ==
    ASSUME NEW i \in Int
    PROVE  SlotOf(i - Capacity) = SlotOf(i)
<1> DEFINE x == i - 1
           p == ((x - Capacity) \div Capacity) + 1
           q == x \div Capacity
           r == (x - Capacity) % Capacity
           s == x % Capacity
<1>1. x = (Capacity * q) + s /\ q \in Int /\ s \in 0 .. Capacity - 1
  BY RingAssumption, SMT
<1>2. x = (Capacity * p) + r /\ p \in Int /\ r \in 0 .. Capacity - 1
  <2> DEFINE d == (x - Capacity) \div Capacity
  <2>1. x - Capacity = (Capacity * d) + r /\ d \in Int /\ r \in 0 .. Capacity - 1
    BY RingAssumption, SMT
  <2>2. Capacity * (d + 1) = Capacity * d + Capacity
    BY <2>1, RingAssumption, SMT
  <2> QED
    BY <2>1, <2>2, RingAssumption, SMT
<1> HIDE DEF p, q, r, s
<1>3. (Capacity * p) + r = (Capacity * q) + s
  BY <1>1, <1>2
<1>4. r = s
  BY <1>1, <1>2, <1>3, RemainderUnique, RingAssumption
<1>5. SlotOf(i - Capacity) = (x - Capacity) % Capacity
  BY RingAssumption, SMT DEF SlotOf
<1> QED
  BY <1>4, <1>5 DEF r, s, SlotOf

\* Every index has a slot, and the first lap fills the slots in order.
LEMMA SlotType ==
    ASSUME NEW i \in Int
    PROVE  /\ SlotOf(i) \in Slots
           /\ i \in 1 .. Capacity => SlotOf(i) = i - 1
  BY RingAssumption, SMT DEF SlotOf, Slots

\* The remainder of a number within one period of zero.
LEMMA RemainderValue ==
    ASSUME NEW C \in Nat \ {0}, NEW x \in Int
    PROVE  /\ x \in 0 .. C - 1 => x % C = x
           /\ x = C => x % C = 0
           /\ x \in -C .. -1 => x % C = x + C
<1>1. x \in 0 .. C - 1 => x % C = x
  BY SMT
<1>2. C % C = 0
  BY SMT
<1>3. x \in -C .. -1 => x % C = x + C
  BY SMT
<1> QED
  BY <1>1, <1>2, <1>3

\* Distances of two index words, without the modulus.
LEMMA DistanceValue ==
    ASSUME NEW a \in 0 .. MaxIndex + 1, NEW b \in 0 .. MaxIndex
    PROVE  /\ a >= b /\ a - b <= MaxIndex => Distance(a, b) = a - b
           /\ a - b = MaxIndex + 1 => Distance(a, b) = 0
           /\ a < b => Distance(a, b) = a - b + MaxIndex + 1
<1> DEFINE C == MaxIndex + 1
<1>1. C \in Nat \ {0} /\ a - b \in Int /\ Distance(a, b) = (a - b) % C
  BY RingAssumption, SMT DEF Distance, Window
<1>2. a - b \in -C .. C
  BY RingAssumption, SMT
<1> HIDE DEF C
<1>3. /\ a - b \in 0 .. C - 1 => Distance(a, b) = a - b
      /\ a - b = C => Distance(a, b) = 0
      /\ a - b \in -C .. -1 => Distance(a, b) = a - b + C
  BY <1>1, RemainderValue
<1> QED
  BY <1>2, <1>3, RingAssumption, SMT DEF C

\* The last lap of a segment lies in the upper half window of the first lap of
\* the next: a leftover token never looks like a later lap's.
LEMMA HalfWindowValue ==
    /\ HalfWindow \in Nat
    /\ 2 * HalfWindow <= MaxIndex + 1 /\ MaxIndex + 1 <= 2 * HalfWindow + 1
    /\ HalfWindow <= MaxIndex - 2 * Capacity + 1
  BY RingAssumption, SMT DEF HalfWindow, Window

-----------------------------------------------------------------------------
(* Typing.                                                                 *)

\* The count of committed entries is an index word.
LEMMA CommittedType ==
    ASSUME RingTypeOK, WriterInv
    PROVE  /\ Committed \in 0 .. MaxIndex
           /\ generation # 0 => Committed \in {head, head - 1}
           /\ generation # 0 /\ Writing => Committed = head - 1
           /\ generation # 0 /\ ~Writing => Committed = head
  BY RingAssumption, SMT DEF RingTypeOK, WriterInv, Writing, Committed

\* The initial state is well typed.
LEMMA TypeInit == Init => TypeOK
<1> SUFFICES ASSUME Init PROVE TypeOK
  OBVIOUS
<1> USE RingAssumption DEF Init
<1>1. RingTypeOK
  BY DEF RingTypeOK, Slots, Words, Tags
<1>2. ReaderTypeOK
  BY DEF ReaderTypeOK, Words
<1>3. PageTypeOK
  BY DEF PageTypeOK, Words, Tags, NoEntry
<1> QED
  BY <1>1, <1>2, <1>3 DEF TypeOK

\* A step of the producer keeps the types.
LEMMA TypeWriter ==
    ASSUME TypeOK, WriterInv, WStep
    PROVE  TypeOK'
<1> USE RingAssumption
<1>0. UNCHANGED reader
  BY DEF WStep, WReserve, WInvalidate, WStoreWord, WPublish, WBeginTransition,
         WResetHead, WSuccessor, WExhaust
<1>1. ReaderTypeOK' /\ PageTypeOK'
  BY <1>0 DEF TypeOK, ReaderTypeOK, PageTypeOK, reader, result
<1>2. SlotOf(head) \in Slots
  BY SlotType DEF TypeOK, RingTypeOK
<1>3. RingTypeOK'
  <2> USE DEF TypeOK, RingTypeOK
  <2>1. CASE WReserve
    BY <2>1 DEF WReserve
  <2>2. CASE WInvalidate
    BY <1>2, <2>2 DEF WInvalidate, Words
  <2>3. CASE WStoreWord
    <3> DEFINE tag == <<generation, head>>
    <3>1. tag \in Tags
      BY DEF Tags
    <3> HIDE DEF tag
    <3>2. payload' = [payload EXCEPT ![SlotOf(head)][wword] = tag]
      BY <2>3 DEF WStoreWord, tag
    <3>3. payload' \in [Slots -> [Words -> Tags]]
      BY <1>2, <3>1, <3>2
    <3>4. wword' \in Words
      BY <2>3 DEF WStoreWord, Words
    <3> QED
      BY <2>3, <3>3, <3>4 DEF WStoreWord
  <2>4. CASE WPublish
    BY <1>2, <2>4 DEF WPublish
  <2>5. CASE WBeginTransition
    BY <2>5 DEF WBeginTransition, WriterInv
  <2>6. CASE WResetHead
    BY <2>6 DEF WResetHead
  <2>7. CASE WSuccessor
    BY <2>7 DEF WSuccessor, WriterInv
  <2>8. CASE WExhaust
    BY <2>8 DEF WExhaust, writer
  <2> QED
    BY <2>1, <2>2, <2>3, <2>4, <2>5, <2>6, <2>7, <2>8 DEF WStep
<1> QED
  BY <1>1, <1>3 DEF TypeOK

\* The reader writes nothing but its own state.
LEMMA ReaderFrame ==
    ASSUME RStart \/ RContinue
    PROVE  UNCHANGED <<shared, writer>>
  BY DEF RContinue, RStart, RLoadFlags, RLoadHead, RNewestToken, RReloadHead, RPlan,
         REndLoop, RTokenBefore, RDecodeWord, RTokenAfter, RFinalGeneration, RFinalFlags

\* The producer writes nothing of the reader's.
LEMMA WriterFrame ==
    ASSUME WStep
    PROVE  UNCHANGED reader
  BY DEF WStep, WReserve, WInvalidate, WStoreWord, WPublish, WBeginTransition,
         WResetHead, WSuccessor, WExhaust

\* A step of the reader keeps the types.
LEMMA TypeReader ==
    ASSUME TypeOK, WriterInv, ReaderInv, RStart \/ RContinue
    PROVE  TypeOK'
<1> USE RingAssumption
<1>1. RingTypeOK'
  BY ReaderFrame DEF TypeOK, RingTypeOK, shared, writer
<1>2. Committed \in 0 .. MaxIndex
  BY CommittedType DEF TypeOK
<1>3. ReaderTypeOK'
  <2> USE <1>2 DEF TypeOK, RingTypeOK, ReaderTypeOK
  <2>1. CASE RStart
    BY <2>1 DEF RStart
  <2>2. CASE RLoadFlags
    BY <2>2 DEF RLoadFlags
  <2>3. CASE RLoadHead
    BY <2>3 DEF RLoadHead
  <2>4. CASE RNewestToken
    BY <2>4 DEF RNewestToken
  <2>5. CASE RReloadHead
    BY <2>5 DEF RReloadHead, ReaderInv
  <2>6. CASE RPlan
    <3>1. (request.after + 1) % Window \in 0 .. MaxIndex
      BY DEF Window
    <3>2. rhead # 0 => OldestRetained \in 0 .. MaxIndex
      BY DEF OldestRetained, Retained
    <3>3. OldestRetained \in 0 .. MaxIndex
      BY <3>2 DEF OldestRetained, Retained
    <3> QED
      BY <2>6, <3>1, <3>3 DEF RPlan
  <2>7. CASE REndLoop
    BY <2>7 DEF REndLoop
  <2>8. CASE RTokenBefore
    BY <2>8 DEF RTokenBefore, Words
  <2>9. CASE RDecodeWord
    BY <2>9 DEF RDecodeWord, Words
  <2>10. CASE RTokenAfter
    <3>1. (index + 1) % Window \in 0 .. MaxIndex
      BY DEF Window
    <3> QED
      BY <2>10, <3>1 DEF RTokenAfter
  <2>11. CASE RFinalGeneration
    BY <2>11 DEF RFinalGeneration
  <2>12. CASE RFinalFlags
    BY <2>12 DEF RFinalFlags
  <2> QED
    BY <2>1, <2>2, <2>3, <2>4, <2>5, <2>6, <2>7, <2>8, <2>9, <2>10, <2>11, <2>12
       DEF RContinue
<1>4. PageTypeOK'
  <2> DEFINE Record == [index : 0 .. MaxIndex, words : [Words -> Tags]]
  <2>0. <<>> \in Seq(Record)
    OBVIOUS
  <2> USE <2>0 DEF TypeOK, PageTypeOK
  <2>1. CASE RStart
    BY <2>1 DEF RStart
  <2>2. CASE RLoadFlags
    BY <2>2 DEF RLoadFlags, result
  <2>3. CASE RLoadHead
    BY <2>3 DEF RLoadHead, result, RejectWholePage
  <2>4. CASE RNewestToken
    BY <2>4 DEF RNewestToken, result
  <2>5. CASE RReloadHead
    BY <2>5 DEF RReloadHead, result
  <2>6. CASE RPlan
    <3>1. (request.after + 1) % Window \in 0 .. MaxIndex
      BY DEF Window, ReaderTypeOK
    <3>2. rhead # 0 => OldestRetained - 1 \in 0 .. MaxIndex
      BY DEF OldestRetained, Retained, ReaderTypeOK
    <3>3. newest # 0 => rhead # 0
      BY <2>6 DEF RPlan, ReaderInv, ReaderTypeOK
    <3> QED
      BY <2>6, <3>1, <3>2, <3>3 DEF RPlan
  <2>7. CASE REndLoop
    BY <2>7 DEF REndLoop
  <2>8. CASE RTokenBefore
    BY <2>8 DEF RTokenBefore
  <2>9. CASE RDecodeWord
    <3>1. payload[SlotOf(index)] \in [Words -> Tags]
      <4>1. SlotOf(index) \in Slots
        BY SlotType DEF ReaderTypeOK
      <4> QED
        BY <4>1 DEF RingTypeOK
    <3>2. payload[SlotOf(index)][word] \in Tags
      BY <3>1 DEF ReaderTypeOK
    <3>3. entry' \in [Words -> Tags]
      BY <2>9, <3>2 DEF RDecodeWord
    <3> QED
      BY <2>9, <3>3 DEF RDecodeWord, result
  <2>10. CASE RTokenAfter
    <3> DEFINE record == [index |-> index, words |-> entry]
    <3>1. record \in Record
      BY DEF ReaderTypeOK
    <3>2. NoEntry \in [Words -> Tags]
      BY DEF NoEntry, Tags
    <3> HIDE DEF record, Record
    <3>3. entries' \in Seq(Record)
      <4>1. entries' = entries \/ entries' = Append(entries, record)
        BY <2>10 DEF RTokenAfter, record
      <4>2. entries \in Seq(Record)
        BY DEF Record
      <4> QED
        BY <3>1, <4>1, <4>2
    <3> QED
      BY <2>10, <3>2, <3>3 DEF RTokenAfter, Record
  <2>11. CASE RFinalGeneration
    BY <2>11 DEF RFinalGeneration, result, RejectWholePage
  <2>12. CASE RFinalFlags
    BY <2>12 DEF RFinalFlags, result, RejectWholePage
  <2> QED
    BY <2>1, <2>2, <2>3, <2>4, <2>5, <2>6, <2>7, <2>8, <2>9, <2>10, <2>11, <2>12
       DEF RContinue
<1> QED
  BY <1>1, <1>3, <1>4 DEF TypeOK

-----------------------------------------------------------------------------
(* The producer's invariants.                                              *)

\* A step of the producer keeps its control state and the header in agreement.
LEMMA WriterInvStep ==
    ASSUME TypeOK, WriterInv, WStep
    PROVE  WriterInv'
<1> USE RingAssumption DEF TypeOK, RingTypeOK, WriterInv, Writing
<1>0. SlotOf(head) \in Slots
  BY SlotType
<1>1. CASE WReserve
  BY <1>1 DEF WReserve
<1>2. CASE WInvalidate
  BY <1>0, <1>2 DEF WInvalidate, Words
<1>3. CASE WStoreWord
  <2> DEFINE tag == <<generation, head>>
             s == SlotOf(head)
  <2>1. s \in Slots /\ wword \in Words
    BY <1>0
  <2>2. payload' = [payload EXCEPT ![s][wword] = tag]
    BY <1>3 DEF WStoreWord
  <2>3. \A w \in 1 .. wword - 1 : payload[s][w] = tag
    BY <1>3 DEF WStoreWord
  <2>4. SlotOf(head)' = s /\ tag' = tag /\ UNCHANGED <<generation, head, token>>
    BY <1>3 DEF WStoreWord, SlotOf
  <2> HIDE DEF tag, s
  <2>5. \A w \in 1 .. wword : payload'[s][w] = tag
    BY <2>1, <2>2, <2>3 DEF Words
  <2>6. \/ wpc' = "publish" /\ wword = PayloadWords
        \/ wpc' = "payload" /\ wword' = wword + 1
    BY <1>3 DEF WStoreWord
  <2>7. wpc' = "payload" => \A w \in 1 .. wword' - 1 : payload'[s][w] = tag
    BY <2>1, <2>5, <2>6 DEF Words
  <2>8. wpc' = "publish" => \A w \in Words : payload'[s][w] = tag
    BY <2>1, <2>5, <2>6 DEF Words
  <2>9. token'[s] = 0
    BY <1>3, <2>4 DEF WStoreWord, s
  <2> QED
    BY <1>3, <2>4, <2>6, <2>7, <2>8, <2>9 DEF WStoreWord, s, tag, SlotOf
<1>4. CASE WPublish
  BY <1>4 DEF WPublish
<1>5. CASE WBeginTransition
  BY <1>5 DEF WBeginTransition
<1>6. CASE WResetHead
  BY <1>6 DEF WResetHead
<1>7. CASE WSuccessor
  BY <1>7 DEF WSuccessor
<1>8. CASE WExhaust
  BY <1>8 DEF WExhaust, writer
<1> QED
  BY <1>1, <1>2, <1>3, <1>4, <1>5, <1>6, <1>7, <1>8 DEF WStep

\* A step of the producer keeps every committed slot's token truthful.
LEMMA TokenVouchesStep ==
    ASSUME TypeOK, WriterInv, TokenVouches, WStep
    PROVE  TokenVouches'
<1> USE RingAssumption DEF TypeOK, RingTypeOK
<1>0. /\ \A i \in Int : SlotOf(i) \in Slots /\ SlotOf(i)' = SlotOf(i)
      /\ Committed \in 0 .. MaxIndex
  BY SlotType, CommittedType DEF SlotOf
<1>1. CASE WReserve
  <2>1. UNCHANGED <<generation, token, payload>> /\ (generation # 0 => Committed' = Committed)
    BY <1>1 DEF WReserve, Committed, WriterInv
  <2> QED
    BY <1>0, <2>1 DEF TokenVouches
<1>2. CASE WInvalidate
  <2>1. UNCHANGED <<generation, payload>> /\ Committed' = Committed
    BY <1>2 DEF WInvalidate, Committed
  <2>2. \A s \in Slots : token'[s] = token[s] \/ token'[s] = 0
    BY <1>0, <1>2 DEF WInvalidate
  <2> QED
    BY <1>0, <2>1, <2>2 DEF TokenVouches
<1>3. CASE WStoreWord
  <2>1. UNCHANGED <<generation, token>> /\ Committed' = Committed
    BY <1>3 DEF WStoreWord, Committed
  <2>2. token[SlotOf(head)] = 0
    BY <1>3 DEF WStoreWord, WriterInv
  <2>3. \A s \in Slots : s # SlotOf(head) => payload'[s] = payload[s]
    BY <1>0, <1>3 DEF WStoreWord
  <2> QED
    BY <1>0, <2>1, <2>2, <2>3 DEF TokenVouches
<1>4. CASE WPublish
  <2>1. UNCHANGED <<generation, head, payload>> /\ generation # 0
        /\ Committed' = head /\ Committed = head - 1
    BY <1>4 DEF WPublish, Committed, WriterInv, Writing
  <2>2. \A w \in Words : payload[SlotOf(head)][w] = <<generation, head>>
    BY <1>4 DEF WPublish, WriterInv
  <2>3. token'[SlotOf(head)] = head
    BY <1>0, <1>4 DEF WPublish
  <2>4. \A s \in Slots : s # SlotOf(head) => token'[s] = token[s]
    BY <1>0, <1>4 DEF WPublish
  <2>5. SUFFICES ASSUME NEW i \in 1 .. head, token'[SlotOf(i)] # 0, NEW w \in Words
                 PROVE  payload[SlotOf(i)][w] = <<generation, token'[SlotOf(i)]>>
    BY <1>0, <2>1 DEF TokenVouches
  <2>6. CASE SlotOf(i) = SlotOf(head)
    BY <2>2, <2>3, <2>6
  <2>7. CASE SlotOf(i) # SlotOf(head)
    <3>0. i # head
      BY <2>7
    <3>1. i \in 1 .. Committed /\ token'[SlotOf(i)] = token[SlotOf(i)]
      <4>1. SlotOf(i) \in Slots
        BY <1>0
      <4> QED
        BY <2>1, <2>4, <2>7, <3>0, <4>1
    <3>2. \A v \in Words : payload[SlotOf(i)][v] = <<generation, token[SlotOf(i)]>>
      BY <2>1, <2>5, <3>1 DEF TokenVouches
    <3> QED
      BY <3>1, <3>2
  <2> QED
    BY <2>6, <2>7
<1>5. CASE WBeginTransition
  BY <1>5 DEF WBeginTransition, TokenVouches
<1>6. CASE WResetHead
  BY <1>6 DEF WResetHead, TokenVouches, WriterInv
<1>7. CASE WSuccessor
  <2>1. Committed' = 0
    BY <1>7 DEF WSuccessor, Committed, WriterInv
  <2> QED
    BY <2>1 DEF TokenVouches
<1>8. CASE WExhaust
  BY <1>0, <1>8 DEF WExhaust, writer, TokenVouches, Committed
<1> QED
  BY <1>1, <1>2, <1>3, <1>4, <1>5, <1>6, <1>7, <1>8 DEF WStep

\* A step of the producer keeps each slot's token within its last lap.
LEMMA TokenRangeStep ==
    ASSUME TypeOK, WriterInv, TokenRange, WStep
    PROVE  TokenRange'
<1> USE RingAssumption DEF TypeOK, RingTypeOK
<1>0. /\ \A i \in Int : SlotOf(i) \in Slots /\ SlotOf(i)' = SlotOf(i)
      /\ Committed \in 0 .. MaxIndex
  BY SlotType, CommittedType DEF SlotOf
<1>00. \A i \in 1 .. Capacity : SlotOf(i) = i - 1
  BY SlotType
<1>1. CASE WReserve \/ WStoreWord \/ WBeginTransition \/ WResetHead \/ WExhaust
  <2>1. UNCHANGED token
    BY <1>1 DEF WReserve, WStoreWord, WBeginTransition, WResetHead, WExhaust
  <2>2. Committed' = Committed
    BY <1>1 DEF WReserve, WStoreWord, WBeginTransition, WResetHead, WExhaust,
                Committed, WriterInv, writer
  <2> QED
    BY <1>0, <2>1, <2>2 DEF TokenRange, SlotOf, Slots
<1>2. CASE WInvalidate
  <2>1. Committed' = Committed
    BY <1>2 DEF WInvalidate, Committed
  <2>2. \A s \in Slots : token'[s] = token[s] \/ token'[s] = 0
    BY <1>0, <1>2 DEF WInvalidate
  <2> QED
    BY <1>0, <2>1, <2>2 DEF TokenRange
<1>3. CASE WPublish
  <2> DEFINE own == SlotOf(head)
  <2>1. head \in 1 .. MaxIndex /\ Committed' = head /\ Committed = head - 1
    BY <1>3 DEF WPublish, Committed, WriterInv, Writing
  <2>2. SUFFICES ASSUME NEW s \in Slots
                 PROVE  LET t == token'[s] IN
                        /\ t # 0 => SlotOf(t) = s
                        /\ (t # 0 /\ s < head) => t > head - Capacity /\ t <= head
                        /\ (t # 0 /\ s >= head) => t > MaxIndex - Capacity
    BY <1>0, <2>1 DEF TokenRange, SlotOf, Slots
  <2>3. CASE s = own
    <3>1. token'[s] = head
      BY <1>0, <1>3, <2>3 DEF WPublish
    <3>2. s \in Nat /\ s < Capacity
      BY DEF Slots
    <3>3. s >= head => own = head - 1
      <4>1. s >= head => head \in 1 .. Capacity
        BY <2>1, <3>2
      <4> QED
        BY <1>00, <4>1
    <3> QED
      BY <2>1, <2>3, <3>1, <3>3
  <2>4. CASE s # own
    <3>1. token'[s] = token[s] /\ token[s] \in 0 .. MaxIndex
      BY <1>0, <1>3, <2>4 DEF WPublish
    <3>2. token[s] # 0 => SlotOf(token[s]) = s /\ token[s] # head - Capacity
      BY <2>1, <2>4, SlotLap DEF TokenRange
    <3>3. s # head - 1
      <4>1. head - 1 < Capacity => own = head - 1
        <5>1. head - 1 < Capacity => head \in 1 .. Capacity
          BY <2>1
        <5> QED
          BY <1>00, <5>1
      <4>2. SUFFICES ASSUME s = head - 1 PROVE FALSE
        OBVIOUS
      <4>3. head - 1 < Capacity
        BY <4>2 DEF Slots
      <4> QED
        BY <2>4, <4>1, <4>2, <4>3
    <3>4. (token[s] # 0 /\ s < head - 1) => token[s] > head - 1 - Capacity /\ token[s] <= head - 1
      BY <2>1 DEF TokenRange
    <3>5. (token[s] # 0 /\ s >= head - 1) => token[s] > MaxIndex - Capacity
      BY <2>1 DEF TokenRange
    <3> QED
      BY <2>1, <3>1, <3>2, <3>3, <3>4, <3>5 DEF Slots
  <2> QED
    BY <2>3, <2>4
<1>4. CASE WSuccessor
  <2>1. UNCHANGED token /\ Committed' = 0 /\ Committed = MaxIndex
    BY <1>4 DEF WSuccessor, Committed, WriterInv
  <2>2. \A s \in Slots : token[s] # 0 => token[s] > MaxIndex - Capacity /\ SlotOf(token[s]) = s
    BY <2>1 DEF TokenRange, Slots
  <2> QED
    BY <1>0, <2>1, <2>2 DEF TokenRange, Slots
<1> QED
  BY <1>1, <1>2, <1>3, <1>4 DEF WStep

\* Before its slot is invalidated, a reserved index meets there either nothing
\* or a token that cannot be taken for it or for a later lap.
LEMMA LeftoverToken ==
    ASSUME TypeOK, WriterInv, TokenRange, generation # 0, Writing
    PROVE  LET t == token[SlotOf(head)] IN
           t # head /\ (t # 0 => Distance(t, head) >= HalfWindow)
<1> DEFINE own == SlotOf(head)
           t == token[own]
<1> USE RingAssumption DEF TypeOK, RingTypeOK
<1>1. head \in 1 .. MaxIndex /\ Committed = head - 1 /\ own \in Slots
  BY SlotType, CommittedType DEF WriterInv
<1>2. t \in 0 .. MaxIndex
  BY <1>1
<1>3. CASE t = 0
  BY <1>1, <1>3
<1>4. CASE t # 0 /\ own < Committed
  <2>1. t > head - 1 - Capacity /\ t <= head - 1
    BY <1>1, <1>4 DEF TokenRange
  <2>2. Distance(t, head) = t - head + MaxIndex + 1
    BY <1>1, <1>2, <2>1, DistanceValue
  <2> QED
    BY <1>1, <1>2, <2>1, <2>2, HalfWindowValue
<1>5. CASE t # 0 /\ own >= Committed
  <2>1. t > MaxIndex - Capacity
    BY <1>1, <1>5 DEF TokenRange
  <2>2. head <= Capacity
    BY <1>1, <1>5 DEF Slots
  <2>3. Distance(t, head) = t - head
    BY <1>1, <1>2, <2>1, <2>2, DistanceValue
  <2> QED
    BY <1>1, <1>2, <2>1, <2>2, <2>3, HalfWindowValue
<1> QED
  BY <1>1, <1>3, <1>4, <1>5 DEF Slots

-----------------------------------------------------------------------------
(* The reader's invariants under a step of the producer.                   *)

\* A segment, once left, never comes back; while it lasts its head and its
\* committed count only grow.
LEMMA SegmentMonotone ==
    ASSUME TypeOK, WriterInv, ReaderInv, WStep
    PROVE  /\ CurrentGeneration <= CurrentGeneration'
           /\ Live' => Live /\ head <= head' /\ Committed <= Committed'
<1> USE RingAssumption DEF TypeOK, RingTypeOK, ReaderTypeOK, WriterInv
<1>0. rgeneration' = rgeneration /\ rgeneration <= CurrentGeneration
  BY WriterFrame DEF reader, ReaderInv
<1>1. CASE WReserve \/ WInvalidate \/ WStoreWord \/ WPublish \/ WExhaust
  BY <1>0, <1>1 DEF WReserve, WInvalidate, WStoreWord, WPublish, WExhaust, writer,
                    CurrentGeneration, Live, Committed
<1>2. CASE WBeginTransition \/ WResetHead \/ WSuccessor
  BY <1>0, <1>2 DEF WBeginTransition, WResetHead, WSuccessor, CurrentGeneration, Live
<1> QED
  BY <1>1, <1>2 DEF WStep

\* The producer leaves the reader's bounds true.
LEMMA ReaderInvWriter ==
    ASSUME TypeOK, WriterInv, ReaderInv, WStep
    PROVE  ReaderInv'
<1>1. UNCHANGED <<rpc, rgeneration, rhead, newest, index>>
  BY WriterFrame DEF reader
<1>2. head \in Int /\ head' \in Int /\ Committed \in Int /\ Committed' \in Int
      /\ rhead \in Int /\ newest \in Int /\ rgeneration \in Int
      /\ CurrentGeneration \in Int /\ CurrentGeneration' \in Int
  <2>1. TypeOK' /\ WriterInv'
    BY TypeWriter, WriterInvStep
  <2> QED
    BY <2>1, RingAssumption DEF TypeOK, RingTypeOK, ReaderTypeOK, Committed, CurrentGeneration
<1> QED
  BY <1>1, <1>2, SegmentMonotone DEF ReaderInv

\* A token that equals the index being decoded was so before the step: in one
\* segment the producer publishes each index once.
LEMMA DecodeInvWriter ==
    ASSUME TypeOK, WriterInv, ReaderInv, DecodeInv, WStep
    PROVE  DecodeInv'
<1> USE RingAssumption DEF TypeOK, RingTypeOK
<1>1. UNCHANGED <<rpc, rgeneration, index, word, entry>>
  BY WriterFrame DEF reader
<1>2. SUFFICES ASSUME Live', rpc \in {"decode", "tokenAfter"}, token'[SlotOf(index)] = index
               PROVE  token[SlotOf(index)] = index
  BY <1>1, SegmentMonotone DEF DecodeInv, Words, SlotOf
<1>3. index \in 1 .. Committed /\ Committed \in 0 .. MaxIndex
  BY <1>2, SegmentMonotone, CommittedType DEF ReaderInv, ReaderTypeOK
<1>4. SlotOf(index) \in Slots /\ SlotOf(head) \in Slots
  BY <1>3, SlotType
<1>5. CASE WPublish
  <2>1. Committed = head - 1
    BY <1>5 DEF WPublish, WriterInv, Committed
  <2>2. token' = [token EXCEPT ![SlotOf(head)] = head] /\ index # head
    BY <1>3, <1>5, <2>1 DEF WPublish
  <2> QED
    BY <1>2, <1>4, <2>2
<1>6. CASE WInvalidate
  BY <1>2, <1>3, <1>4, <1>6 DEF WInvalidate
<1>7. CASE ~WPublish /\ ~WInvalidate
  BY <1>2, <1>7 DEF WStep, WReserve, WStoreWord, WBeginTransition, WResetHead,
                    WSuccessor, WExhaust
<1> QED
  BY <1>5, <1>6, <1>7

\* The producer leaves the page true.
LEMMA PageInvWriter ==
    ASSUME TypeOK, WriterInv, ReaderInv, PageInv, WStep
    PROVE  PageInv'
  BY WriterFrame, SegmentMonotone DEF PageInv, AllCoherent, Coherent, reader, result, Words

-----------------------------------------------------------------------------
(* The reader's invariants under its own steps.                            *)

\* A step of the reader leaves the producer's invariants true.
LEMMA RingInvReader ==
    ASSUME TypeOK, WriterInv, TokenVouches, TokenRange, RStart \/ RContinue
    PROVE  WriterInv' /\ TokenVouches' /\ TokenRange'
<1>1. UNCHANGED <<shared, writer>>
  BY ReaderFrame
<1> QED
  BY <1>1 DEF shared, writer, WriterInv, TokenVouches, TokenRange, Writing, Committed,
              SlotOf, Slots, Words

\* Where the cursor is placed, the first index lies in the committed range.
LEMMA PlanBounds ==
    ASSUME TypeOK, ReaderInv, RPlan, rpc' = "loop"
    PROVE  index' <= newest + 1 /\ (index' = 0 => newest = MaxIndex)
<1> DEFINE after == request.after
<1> USE RingAssumption
<1>1. /\ after \in 0 .. MaxIndex /\ rhead \in 0 .. MaxIndex /\ newest \in 1 .. MaxIndex
      /\ newest <= rhead /\ rhead <= newest + 1
  BY DEF RPlan, TypeOK, ReaderTypeOK, ReaderInv
<1>2. /\ Distance(rhead, after) <= HalfWindow
      /\ Distance(newest, after) \in 1 .. HalfWindow
      /\ index' = IF Distance(rhead, after) > Retained
                    THEN OldestRetained ELSE (after + 1) % Window
  BY DEF RPlan
<1>3. Retained \in 1 .. rhead /\ OldestRetained = rhead - Retained + 1
  BY <1>1 DEF Retained, OldestRetained
<1>4. CASE Distance(rhead, after) > Retained
  BY <1>1, <1>2, <1>3, <1>4
<1>5. CASE Distance(rhead, after) <= Retained
  <2>1. index' = (after + 1) % Window
    BY <1>1, <1>2, <1>3, <1>5 DEF Distance, Window
  <2>2. after <= newest
    <3>1. CASE after > rhead
      <4>1. Distance(rhead, after) = rhead - after + MaxIndex + 1
        BY <1>1, <3>1, DistanceValue
      <4> QED
        BY <1>1, <1>3, <1>5, <4>1
    <3>2. CASE after = newest + 1
      <4>1. Distance(newest, after) = MaxIndex
        BY <1>1, <3>2, DistanceValue
      <4> QED
        BY <1>2, <4>1, HalfWindowValue
    <3> QED
      BY <1>1, <3>1, <3>2
  <2>3. after # newest
    <3>1. after = newest => Distance(newest, after) = 0
      BY <1>1, DistanceValue
    <3> QED
      BY <1>2, <3>1
  <2>4. after + 1 \in 1 .. newest
    BY <1>1, <2>2, <2>3
  <2>5. (after + 1) % Window = after + 1
    BY <1>1, <2>4, RemainderValue DEF Window
  <2> QED
    BY <1>1, <2>1, <2>4, <2>5
<1> QED
  BY <1>1, <1>2, <1>3, <1>4, <1>5 DEF Distance, Window

\* Only a committed index is ever decoded.
LEMMA DecodeBounds ==
    ASSUME TypeOK, ReaderInv, rpc = "loop", ~RangeDone
    PROVE  index \in 1 .. newest
<1> USE RingAssumption DEF TypeOK, ReaderTypeOK
<1>1. Distance(newest + 1, index) # 0
  BY DEF RangeDone, Remaining
<1>2. index # newest + 1
  BY <1>1, DistanceValue
<1>3. index # 0
  BY <1>1, DistanceValue DEF ReaderInv
<1> QED
  BY <1>2, <1>3 DEF ReaderInv

\* A step of the reader keeps its bounds.
LEMMA ReaderInvReader ==
    ASSUME TypeOK, WriterInv, TokenRange, ReaderInv, RStart \/ RContinue
    PROVE  ReaderInv'
<1>1. /\ UNCHANGED <<generation, head, wgeneration, wpc>>
      /\ Committed' = Committed /\ CurrentGeneration' = CurrentGeneration
  BY ReaderFrame DEF shared, writer, Committed, CurrentGeneration
<1>2. /\ Committed \in 0 .. MaxIndex /\ head \in 0 .. MaxIndex
      /\ generation # 0 => Committed \in {head, head - 1}
      /\ generation # 0 /\ ~Writing => Committed = head
  BY CommittedType DEF TypeOK, RingTypeOK
<1>3. /\ rhead \in 0 .. MaxIndex /\ newest \in 0 .. MaxIndex /\ index \in 0 .. MaxIndex
      /\ rgeneration \in Nat /\ generation \in Nat
  BY DEF TypeOK, ReaderTypeOK, RingTypeOK
<1> USE <1>1, <1>3, RingAssumption DEF ReaderInv, Live
<1>4. CASE RStart
  BY <1>4 DEF RStart, CurrentGeneration, WriterInv, TypeOK, RingTypeOK
<1>5. CASE RLoadFlags
  BY <1>5 DEF RLoadFlags
<1>6. CASE RLoadHead
  BY <1>2, <1>6 DEF RLoadHead
<1>7. CASE RNewestToken
  <2> DEFINE t == token[SlotOf(rhead)]
  <2>1. Live /\ Writing /\ rhead = head => t # rhead /\ (t # 0 => Distance(t, rhead) >= HalfWindow)
    BY LeftoverToken
  <2>2. Live => rhead <= head /\ generation # 0
    BY <1>7 DEF RNewestToken
  <2>3. rpc' = "plan" => (t = rhead \/ (t # 0 /\ Distance(t, rhead) < HalfWindow)) /\ newest' = rhead
    BY <1>7 DEF RNewestToken
  <2>4. Distance(t, rhead) \in Int /\ HalfWindow \in Int
    <3>1. t \in 0 .. MaxIndex
      BY SlotType DEF TypeOK, RingTypeOK
    <3> QED
      BY <3>1, HalfWindowValue DEF Distance, Window
  <2>5. Live /\ rpc' = "plan" => rhead <= Committed
    BY <1>2, <2>1, <2>2, <2>3, <2>4
  <2> HIDE DEF t
  <2>6. /\ rpc = "newest" /\ rpc' \in {"plan", "reloadHead"}
        /\ UNCHANGED <<rgeneration, rhead, index>>
    BY <1>7 DEF RNewestToken
  <2> QED
    BY <2>3, <2>5, <2>6
<1>8. CASE RReloadHead
  <2>1. /\ rpc = "reloadHead" /\ rpc' = "plan" /\ UNCHANGED <<rgeneration, rhead, index>>
        /\ newest' = IF head # rhead THEN rhead ELSE rhead - 1
    BY <1>8 DEF RReloadHead
  <2>2. Live => newest' <= Committed
    BY <1>2, <2>1
  <2> QED
    BY <2>1, <2>2
<1>9. CASE RPlan
  BY <1>9, PlanBounds DEF RPlan
<1>10. CASE REndLoop
  BY <1>10 DEF REndLoop
<1>11. CASE RTokenBefore
  BY <1>11, DecodeBounds DEF RTokenBefore
<1>12. CASE RDecodeWord
  BY <1>12 DEF RDecodeWord
<1>13. CASE RTokenAfter
  <2>1. index \in 1 .. newest /\ rpc = "tokenAfter"
    BY <1>13 DEF RTokenAfter
  <2>2. /\ index + 1 <= MaxIndex => (index + 1) % Window = index + 1
        /\ index + 1 > MaxIndex => (index + 1) % Window = 0 /\ newest = MaxIndex
    BY <2>1, RemainderValue DEF Window
  <2>3. /\ rpc' \in {"loop", "generation"} /\ UNCHANGED <<rgeneration, rhead, newest>>
        /\ rpc' = "loop" => index' = (index + 1) % Window
    BY <1>13 DEF RTokenAfter
  <2> QED
    BY <2>1, <2>2, <2>3
<1>14. CASE RFinalGeneration
  BY <1>14 DEF RFinalGeneration
<1>15. CASE RFinalFlags
  BY <1>15 DEF RFinalFlags
<1> QED
  BY <1>4, <1>5, <1>6, <1>7, <1>8, <1>9, <1>10, <1>11, <1>12, <1>13, <1>14, <1>15
     DEF RContinue

\* A step of the reader keeps what it decoded true to the token.
LEMMA DecodeInvReader ==
    ASSUME TypeOK, WriterInv, TokenVouches, ReaderInv, DecodeInv, RStart \/ RContinue
    PROVE  DecodeInv'
<1>1. UNCHANGED <<generation, token, payload>>
  BY ReaderFrame DEF shared
<1>2. CASE RTokenBefore
  BY <1>1, <1>2 DEF RTokenBefore, DecodeInv
<1>3. CASE RDecodeWord
  <2>1. /\ rpc = "decode" /\ UNCHANGED <<rgeneration, index>>
        /\ entry' = [entry EXCEPT ![word] = payload[SlotOf(index)][word]]
        /\ \/ word = PayloadWords /\ rpc' = "tokenAfter"
           \/ rpc' = "decode" /\ word' = word + 1
    BY <1>3 DEF RDecodeWord
  <2>2. word \in Words /\ entry \in [Words -> Tags]
    BY DEF TypeOK, ReaderTypeOK, PageTypeOK
  <2>3. SUFFICES ASSUME Live, token[SlotOf(index)] = index
                 PROVE  \A w \in 1 .. word : entry'[w] = <<rgeneration, index>>
    <3>1. Live' = Live /\ (token[SlotOf(index)])' = token[SlotOf(index)]
      BY <1>1, <2>1 DEF Live, SlotOf
    <3> QED
      BY <2>1, <2>2, <2>3, <3>1, RingAssumption DEF DecodeInv, Words
  <2>4. index \in 1 .. Committed
    <3>1. index \in 1 .. newest /\ newest <= Committed /\ newest \in Int /\ Committed \in Int
      BY <2>1, <2>3, CommittedType DEF ReaderInv, TypeOK, ReaderTypeOK
    <3> QED
      BY <3>1
  <2>5. payload[SlotOf(index)][word] = <<rgeneration, index>>
    <3>1. generation # 0 /\ generation = rgeneration
      BY <2>3 DEF Live
    <3>2. token[SlotOf(index)] # 0
      BY <2>3, <2>4
    <3> QED
      BY <2>2, <2>3, <2>4, <3>1, <3>2 DEF TokenVouches
  <2>6. \A w \in 1 .. word - 1 : entry[w] = <<rgeneration, index>>
    BY <2>1, <2>3 DEF DecodeInv
  <2> QED
    BY <2>1, <2>2, <2>5, <2>6, RingAssumption DEF Words
<1>4. CASE ~RTokenBefore /\ ~RDecodeWord
  <2>1. rpc' \notin {"decode", "tokenAfter"}
    BY <1>4 DEF RContinue, RStart, RLoadFlags, RLoadHead, RNewestToken, RReloadHead,
                RPlan, REndLoop, RTokenAfter, RFinalGeneration, RFinalFlags
  <2> QED
    BY <2>1 DEF DecodeInv
<1> QED
  BY <1>2, <1>3, <1>4

\* A step of the reader keeps its page coherent.
LEMMA PageInvReader ==
    ASSUME TypeOK, ReaderInv, DecodeInv, PageInv, RStart \/ RContinue
    PROVE  PageInv'
<1>1. Live' => (rgeneration' # rgeneration \/ Live)
  BY ReaderFrame DEF shared, Live
<1> USE DEF PageInv, AllCoherent, Coherent, Words
<1>2. CASE RStart
  BY <1>2 DEF RStart
<1>3. CASE RLoadFlags
  BY <1>3 DEF RLoadFlags, result
<1>4. CASE RLoadHead
  BY <1>4 DEF RLoadHead, result, RejectWholePage
<1>5. CASE RNewestToken
  BY <1>5 DEF RNewestToken, result
<1>6. CASE RReloadHead
  BY <1>6 DEF RReloadHead, result
<1>7. CASE RPlan
  BY <1>7 DEF RPlan
<1>8. CASE REndLoop
  BY <1>1, <1>8 DEF REndLoop
<1>9. CASE RTokenBefore
  BY <1>1, <1>9 DEF RTokenBefore
<1>10. CASE RDecodeWord
  BY <1>1, <1>10 DEF RDecodeWord, result
<1>11. CASE RTokenAfter
  <2> DEFINE record == [index |-> index, words |-> entry]
             Record == [index : 0 .. MaxIndex, words : [Words -> Tags]]
  <2>1. rpc = "tokenAfter" /\ rpc' \in {"loop", "generation"} /\ rgeneration' = rgeneration
    BY <1>11 DEF RTokenAfter
  <2>2. SUFFICES ASSUME Live' PROVE AllCoherent'
    BY <2>1
  <2>3. Live /\ AllCoherent
    BY <1>1, <2>1, <2>2
  <2>4. CASE token[SlotOf(index)] = index
    <3>1. Coherent(record)
      BY <2>1, <2>3, <2>4 DEF DecodeInv
    <3>2. record \in Record /\ entries \in Seq(Record)
      BY DEF TypeOK, PageTypeOK, ReaderTypeOK
    <3>3. entries' = Append(entries, record)
      BY <1>11, <2>4 DEF RTokenAfter
    <3> HIDE DEF record, Record
    <3>4. /\ Len(entries') = Len(entries) + 1 /\ Len(entries) \in Nat
          /\ \A k \in 1 .. Len(entries) : entries'[k] = entries[k]
          /\ entries'[Len(entries) + 1] = record
      BY <3>2, <3>3
    <3>5. \A k \in 1 .. Len(entries') : Coherent(entries'[k])
      BY <2>3, <3>1, <3>4
    <3> QED
      BY <2>1, <3>5
  <2>5. CASE token[SlotOf(index)] # index
    BY <1>11, <2>1, <2>3, <2>5 DEF RTokenAfter
  <2> QED
    BY <2>4, <2>5
<1>12. CASE RFinalGeneration
  <2>1. generation = rgeneration => Live
    BY <1>12 DEF RFinalGeneration, Live, ReaderInv
  <2> QED
    BY <1>12, <2>1 DEF RFinalGeneration, result, RejectWholePage
<1>13. CASE RFinalFlags
  BY <1>13 DEF RFinalFlags, result, RejectWholePage
<1> QED
  BY <1>2, <1>3, <1>4, <1>5, <1>6, <1>7, <1>8, <1>9, <1>10, <1>11, <1>12, <1>13
     DEF RContinue

-----------------------------------------------------------------------------
(* The theorems.                                                           *)

\* The initial state satisfies the inductive invariant.
LEMMA IInvInit == Init => IInv
<1> SUFFICES ASSUME Init PROVE IInv
  OBVIOUS
<1>1. TypeOK
  BY TypeInit
<1>2. WriterInv /\ TokenVouches
  BY RingAssumption DEF Init, WriterInv, Writing, TokenVouches, Committed
<1>3. TokenRange
  BY RingAssumption DEF Init, TokenRange, Slots
<1>4. ReaderInv /\ DecodeInv
  BY RingAssumption DEF Init, ReaderInv, DecodeInv, Live, CurrentGeneration
<1>5. PageInv
  BY DEF Init, PageInv, AllCoherent
<1> QED
  BY <1>1, <1>2, <1>3, <1>4, <1>5 DEF IInv

\* Every step preserves the inductive invariant.
LEMMA IInvStep == IInv /\ [Next]_vars => IInv'
<1> SUFFICES ASSUME IInv, [Next]_vars PROVE IInv'
  OBVIOUS
<1>1. CASE WStep
  BY <1>1, TypeWriter, WriterInvStep, TokenVouchesStep, TokenRangeStep, ReaderInvWriter,
     DecodeInvWriter, PageInvWriter DEF IInv
<1>2. CASE RStart \/ RContinue
  BY <1>2, TypeReader, RingInvReader, ReaderInvReader, DecodeInvReader, PageInvReader DEF IInv
<1>3. CASE UNCHANGED vars
  <2>1. UNCHANGED shared /\ UNCHANGED writer /\ UNCHANGED reader
    BY <1>3 DEF vars
  <2>2. TypeOK'
    BY <2>1 DEF shared, writer, reader, result, IInv, TypeOK, RingTypeOK, ReaderTypeOK, PageTypeOK
  <2>3. WriterInv' /\ TokenVouches' /\ TokenRange'
    BY <2>1 DEF shared, writer, IInv, WriterInv, Writing, TokenVouches, TokenRange,
                Committed, SlotOf, Slots, Words
  <2>4. ReaderInv' /\ DecodeInv'
    BY <2>1 DEF shared, writer, reader, IInv, ReaderInv, DecodeInv, Live, Committed,
                CurrentGeneration, SlotOf, Words
  <2>5. PageInv'
    BY <2>1 DEF shared, reader, result, IInv, PageInv, AllCoherent, Coherent, Live, Words
  <2> QED
    BY <2>2, <2>3, <2>4, <2>5 DEF IInv
<1> QED
  BY <1>1, <1>2, <1>3 DEF Next

\* Every word of the ring, every local of its producer and reader and every
\* returned page keeps its type: heads, tokens and generations never leave
\* their width.
THEOREM TypeCorrect == Spec => []TypeOK
<1>1. IInv => TypeOK
  BY DEF IInv
<1> QED
  BY <1>1, IInvInit, IInvStep, PTL DEF Spec

\* No reader of an event ring ever receives a torn record, whatever the
\* interleaving with the producer and with its segment transitions.
THEOREM NoTornRecord == Spec => []PageCoherent
<1>1. IInv => PageCoherent
  BY DEF IInv, PageInv, PageCoherent, Delivered, AllCoherent
<1> QED
  BY <1>1, IInvInit, IInvStep, PTL DEF Spec

(***************************************************************************)
(* The invariant above says that a page is true; the one added here says   *)
(* that it is complete.  It follows the reader's two promises through the  *)
(* read: nothing that was committed when the head was loaded is above the  *)
(* estimate, and nothing committed below the cursor is unaccounted for.    *)
(***************************************************************************)
\* The reader has loaded the three header words; it has made its estimate.
HeaderLoaded == rpc \notin {"idle", "flags", "head"}
Estimated == HeaderLoaded /\ rpc \notin {"newest", "reloadHead"}
Paging == rpc \in {"loop", "decode", "tokenAfter"}

\* Between two appends the newest index is published; a ring closes only when
\* its last segment is full.
RestInv ==
    /\ generation # 0 /\ ~Writing /\ head # 0 => token[SlotOf(head)] = head
    /\ flags = 1 => wpc = "idle" /\ head = MaxIndex /\ generation = MaxGeneration

\* The estimate is never short of what was committed at the head load.  A token
\* that is not the head's, under a head that did not move, is an entry that had
\* not been committed.
BracketInv ==
    /\ Live /\ HeaderLoaded => published <= rhead /\ published <= Committed
    /\ Live /\ rpc = "reloadHead" /\ head = rhead => published < rhead
    /\ Live /\ Estimated => published <= newest

\* The page is a run of indexes that ends just before the cursor.
RunInv ==
    /\ Paging \/ rpc = "generation" =>
         /\ \A k \in 1 .. Len(entries) : entries[k].index \in 1 .. newest
         /\ \A k \in 2 .. Len(entries) : entries[k].index = entries[k-1].index + 1
    /\ Paging /\ entries # <<>> /\ index # 0 => index = entries[Len(entries)].index + 1

Accounted(i) ==
    \/ i <= request.after /\ request.after <= rhead
    \/ InGap(i)
    \/ \E k \in 1 .. Len(entries) : entries[k].index = i

AllAccounted == \A i \in 1 .. published : Accounted(i)

\* Everything below the cursor is accounted for, and what lies between the
\* cursor and the estimate is not taken for a negative distance.
CompleteInv ==
    /\ Paging => /\ index # 0 => newest + 1 - index <= HalfWindow
                 /\ \A i \in 1 .. published : i < index \/ index = 0 => Accounted(i)
    /\ Live /\ rpc = "generation" /\ status = "ok" /\ truncation = "none" => AllAccounted
    /\ rpc \in {"finalFlags", "idle"} /\ status = "ok" /\ truncation = "none" => AllAccounted

PagesInv == IInv /\ RestInv /\ BracketInv /\ RunInv /\ CompleteInv

-----------------------------------------------------------------------------
(* The producer's side.                                                    *)

\* A step of the producer leaves the newest index published between appends.
LEMMA RestInvWriter ==
    ASSUME TypeOK, WriterInv, RestInv, WStep
    PROVE  RestInv'
<1> USE RingAssumption DEF TypeOK, RingTypeOK, WriterInv, RestInv, Writing
<1>0. SlotOf(head) \in Slots
  BY SlotType
<1>1. CASE WReserve
  BY <1>1 DEF WReserve
<1>2. CASE WInvalidate
  BY <1>2 DEF WInvalidate
<1>3. CASE WStoreWord
  BY <1>3 DEF WStoreWord
<1>4. CASE WPublish
  BY <1>0, <1>4 DEF WPublish, SlotOf
<1>5. CASE WBeginTransition
  BY <1>5 DEF WBeginTransition
<1>6. CASE WResetHead
  BY <1>6 DEF WResetHead
<1>7. CASE WSuccessor
  BY <1>7 DEF WSuccessor
<1>8. CASE WExhaust
  BY <1>8 DEF WExhaust, writer, SlotOf
<1> QED
  BY <1>1, <1>2, <1>3, <1>4, <1>5, <1>6, <1>7, <1>8 DEF WStep

\* The producer cannot make an estimate short: in the reader's segment its
\* counts only grow, and a head that equals the loaded one has not moved.
LEMMA BracketInvWriter ==
    ASSUME TypeOK, WriterInv, ReaderInv, BracketInv, WStep
    PROVE  BracketInv'
<1>1. UNCHANGED <<rpc, rhead, newest, published>>
  BY WriterFrame DEF reader
<1>2. Live' => Live /\ head <= head' /\ Committed <= Committed'
  BY SegmentMonotone
<1>3. /\ head \in Int /\ head' \in Int /\ rhead \in Int /\ published \in Int
      /\ Committed \in Int /\ Committed' \in Int
  <2>1. TypeOK' /\ WriterInv'
    BY TypeWriter, WriterInvStep
  <2> QED
    BY <2>1, RingAssumption DEF TypeOK, RingTypeOK, ReaderTypeOK, Committed
<1>4. Live /\ rpc = "reloadHead" => rhead <= head
  BY DEF ReaderInv
<1> QED
  BY <1>1, <1>2, <1>3, <1>4 DEF BracketInv, HeaderLoaded, Estimated

\* The page is the reader's own.
LEMMA PageOfReader ==
    ASSUME RunInv, CompleteInv, ReaderInv, TypeOK, WriterInv, WStep
    PROVE  RunInv' /\ CompleteInv'
<1>1. UNCHANGED <<rpc, request, rhead, newest, index, entries, gap, status, truncation,
                  published, rgeneration>>
  BY WriterFrame DEF reader, result
<1>2. Live' => Live
  BY SegmentMonotone
<1>3. RunInv'
  BY <1>1 DEF RunInv, Paging
<1>4. \A i : Accounted(i)' <=> Accounted(i)
  BY <1>1 DEF Accounted, InGap, Distance
<1>5. CompleteInv'
  BY <1>1, <1>2, <1>4 DEF CompleteInv, AllAccounted, Paging
<1> QED
  BY <1>3, <1>5

-----------------------------------------------------------------------------
(* The reader's side.                                                      *)

\* The reader writes nothing of the ring.
LEMMA RestInvReader ==
    ASSUME RestInv, RStart \/ RContinue
    PROVE  RestInv'
  BY ReaderFrame DEF RestInv, Writing, SlotOf, shared, writer

\* A step of the reader keeps its estimate from falling short.
LEMMA BracketInvReader ==
    ASSUME TypeOK, WriterInv, RestInv, ReaderInv, BracketInv, RStart \/ RContinue
    PROVE  BracketInv'
<1>1. UNCHANGED <<generation, head, token>> /\ Committed' = Committed
  BY ReaderFrame DEF shared, writer, Committed
<1>2. /\ Committed \in 0 .. MaxIndex /\ head \in 0 .. MaxIndex
      /\ generation # 0 => Committed \in {head, head - 1}
      /\ generation # 0 /\ Writing => Committed = head - 1
  BY CommittedType DEF TypeOK, RingTypeOK
<1>3. rhead \in 0 .. MaxIndex /\ newest \in 0 .. MaxIndex /\ published \in 0 .. MaxIndex
  BY DEF TypeOK, ReaderTypeOK
<1> USE <1>1, <1>2, <1>3, RingAssumption DEF BracketInv, HeaderLoaded, Estimated, Live
<1>4. CASE RStart
  BY <1>4 DEF RStart
<1>5. CASE RLoadFlags
  BY <1>5 DEF RLoadFlags
<1>6. CASE RLoadHead
  BY <1>6 DEF RLoadHead
<1>7. CASE RNewestToken
  <2>1. rhead # 0 /\ (Live => rhead <= head)
    BY <1>7 DEF RNewestToken, ReaderInv
  <2>2. /\ rpc = "newest" /\ UNCHANGED <<rgeneration, rhead, published>>
        /\ \/ rpc' = "plan" /\ newest' = rhead
           \/ rpc' = "reloadHead" /\ token[SlotOf(rhead)] # rhead
    BY <1>7 DEF RNewestToken
  <2>3. Live /\ rpc' = "reloadHead" /\ head = rhead => published < rhead
    BY <2>1, <2>2 DEF RestInv
  <2> QED
    BY <2>2, <2>3
<1>8. CASE RReloadHead
  BY <1>8 DEF RReloadHead
<1>9. CASE RPlan
  BY <1>9 DEF RPlan
<1>10. CASE REndLoop \/ RTokenBefore \/ RDecodeWord \/ RTokenAfter
  BY <1>10 DEF REndLoop, RTokenBefore, RDecodeWord, RTokenAfter
<1>11. CASE RFinalGeneration \/ RFinalFlags
  BY <1>11 DEF RFinalGeneration, RFinalFlags
<1> QED
  BY <1>4, <1>5, <1>6, <1>7, <1>8, <1>9, <1>10, <1>11 DEF RContinue

\* A step of the reader keeps its page a run.
LEMMA RunInvReader ==
    ASSUME TypeOK, ReaderInv, PageInv, RunInv, RStart \/ RContinue
    PROVE  RunInv'
<1> USE RingAssumption DEF RunInv, Paging
<1>1. CASE RStart \/ RLoadFlags \/ RLoadHead \/ RNewestToken \/ RReloadHead
  BY <1>1 DEF RStart, RLoadFlags, RLoadHead, RNewestToken, RReloadHead
<1>2. CASE RPlan
  BY <1>2 DEF RPlan, PageInv
<1>3. CASE REndLoop \/ RTokenBefore \/ RDecodeWord
  BY <1>3 DEF REndLoop, RTokenBefore, RDecodeWord, result
<1>4. CASE RTokenAfter
  <2> DEFINE record == [index |-> index, words |-> entry]
             Record == [index : 0 .. MaxIndex, words : [Words -> Tags]]
             last == Len(entries)
  <2>1. /\ rpc = "tokenAfter" /\ rpc' \in {"loop", "generation"} /\ newest' = newest
        /\ index \in 1 .. newest /\ newest \in 0 .. MaxIndex
    BY <1>4 DEF RTokenAfter, ReaderInv, TypeOK, ReaderTypeOK
  <2>2. record \in Record /\ entries \in Seq(Record) /\ record.index = index
    BY DEF TypeOK, PageTypeOK, ReaderTypeOK
  <2>3. CASE token[SlotOf(index)] # index
    BY <1>4, <2>1, <2>3 DEF RTokenAfter
  <2>4. CASE token[SlotOf(index)] = index
    <3>1. entries' = Append(entries, record) /\ index' = (index + 1) % Window
      BY <1>4, <2>4 DEF RTokenAfter
    <3> HIDE DEF record, Record
    <3>2. /\ Len(entries') = last + 1 /\ last \in Nat /\ entries' # <<>>
          /\ \A k \in 1 .. last : entries'[k] = entries[k]
          /\ entries'[last + 1] = record
      BY <2>2, <3>1
    <3>3. last # 0 => index = entries[last].index + 1
      BY <2>1, <3>2
    <3>4. \A k \in 1 .. last + 1 : entries'[k].index \in 1 .. newest
      BY <2>1, <2>2, <3>2
    <3>5. \A k \in 2 .. last + 1 : entries'[k].index = entries'[k-1].index + 1
      <4>1. SUFFICES ASSUME NEW k \in 2 .. last + 1
                     PROVE  entries'[k].index = entries'[k-1].index + 1
        OBVIOUS
      <4>2. CASE k = last + 1
        BY <2>2, <3>2, <3>3, <4>2
      <4>3. CASE k # last + 1
        <5>1. k \in 2 .. last /\ k - 1 \in 1 .. last
          BY <3>2, <4>3
        <5>2. entries[k].index = entries[k-1].index + 1
          BY <2>1, <5>1
        <5> QED
          BY <3>2, <5>1, <5>2
      <4> QED
        BY <4>2, <4>3
    <3>6. index' # 0 => index' = index + 1
      <4>1. /\ index + 1 <= MaxIndex => (index + 1) % Window = index + 1
            /\ index + 1 > MaxIndex => (index + 1) % Window = 0
        BY <2>1, RemainderValue DEF Window
      <4> QED
        BY <2>1, <3>1, <4>1
    <3> QED
      BY <2>1, <2>2, <3>2, <3>4, <3>5, <3>6
  <2> QED
    BY <2>3, <2>4
<1>5. CASE RFinalGeneration \/ RFinalFlags
  BY <1>5 DEF RFinalGeneration, RFinalFlags
<1> QED
  BY <1>1, <1>2, <1>3, <1>4, <1>5 DEF RContinue

\* Where the cursor is placed, the entries it skips are old or in the gap, and
\* a read that returns no entries has none to return.
LEMMA PlanAccounts ==
    ASSUME TypeOK, ReaderInv, RPlan, NEW i \in 1 .. MaxIndex
    PROVE  /\ rpc' = "loop" => /\ index' # 0 /\ newest + 1 - index' <= HalfWindow
                               /\ i < index' => Accounted(i)'
           /\ (rpc' = "generation" /\ status' = "ok" /\ truncation' = "none" /\ i <= newest)
                => Accounted(i)'
<1> DEFINE after == request.after
<1> USE RingAssumption
<1>1. /\ after \in 0 .. MaxIndex /\ rhead \in 0 .. MaxIndex /\ newest \in 0 .. MaxIndex
      /\ newest <= rhead /\ rhead <= newest + 1
      /\ UNCHANGED <<request, rhead, newest, entries>>
  BY DEF RPlan, TypeOK, ReaderTypeOK, ReaderInv
<1>2. /\ HalfWindow \in Nat /\ 2 * HalfWindow <= MaxIndex + 1
      /\ MaxIndex + 1 <= 2 * HalfWindow + 1 /\ Capacity <= HalfWindow
      /\ HalfWindow < MaxIndex
  BY HalfWindowValue
<1>3. /\ UNCHANGED <<request, rhead, newest, entries>>
      /\ Retained \in 0 .. rhead /\ OldestRetained \in 0 .. MaxIndex
      /\ rhead # 0 => Retained \in 1 .. Capacity /\ OldestRetained = rhead - Retained + 1
  BY <1>1 DEF RPlan, Retained, OldestRetained
<1>4. /\ rhead >= after => Distance(rhead, after) = rhead - after
      /\ rhead < after => Distance(rhead, after) = rhead - after + MaxIndex + 1
      /\ newest >= after => Distance(newest, after) = newest - after
      /\ newest < after => Distance(newest, after) = newest - after + MaxIndex + 1
  BY <1>1, DistanceValue
<1>5. CASE rpc' = "loop"
  <2>1. /\ Distance(rhead, after) <= HalfWindow /\ newest # 0
        /\ Distance(newest, after) \in 1 .. HalfWindow
        /\ index' = IF Distance(rhead, after) > Retained
                      THEN OldestRetained ELSE (after + 1) % Window
        /\ gap' = IF Distance(rhead, after) > Retained
                    THEN <<(after + 1) % Window, OldestRetained - 1>> ELSE <<>>
    BY <1>5 DEF RPlan
  <2>2. after < newest \/ after > rhead
    BY <1>1, <1>2, <1>4, <2>1
  <2>3. after < newest => (after + 1) % Window = after + 1
    BY <1>1, RemainderValue DEF Window
  <2>4. /\ after > rhead /\ after < MaxIndex => (after + 1) % Window = after + 1
        /\ after = MaxIndex => (after + 1) % Window = 0
    <3>1. after < MaxIndex => (after + 1) % Window = after + 1
      BY <1>1, RemainderValue DEF Window
    <3>2. after = MaxIndex => (after + 1) % Window = 0
      BY <1>1, RemainderValue DEF Window
    <3> QED
      BY <3>1, <3>2
  <2>5. CASE Distance(rhead, after) <= Retained
    <3>1. after < newest
      BY <1>1, <1>3, <1>4, <2>2, <2>5
    <3>2. index' = after + 1
      BY <1>1, <1>3, <1>4, <2>1, <2>3, <2>5, <3>1
    <3>3. newest + 1 - index' <= HalfWindow
      BY <1>1, <1>2, <1>4, <2>1, <3>1, <3>2
    <3>4. i < index' => Accounted(i)'
      BY <1>1, <1>3, <3>1, <3>2 DEF Accounted
    <3> QED
      BY <1>1, <1>5, <3>2, <3>3, <3>4
  <2>6. CASE Distance(rhead, after) > Retained
    <3> DEFINE first == (after + 1) % Window
               last == OldestRetained - 1
    <3>1. index' = OldestRetained /\ gap' = <<first, last>>
      BY <2>1, <2>6
    <3>2. /\ OldestRetained \in 1 .. rhead /\ OldestRetained = rhead - Retained + 1
          /\ Retained \in 1 .. Capacity
      BY <1>1, <1>3, <2>1
    <3>3. newest + 1 - index' <= HalfWindow
      BY <1>1, <1>2, <3>1, <3>2
    <3>4. SUFFICES ASSUME i <= last, ~(i <= after /\ after <= rhead) PROVE InGap(i)'
      BY <1>1, <1>3, <1>5, <3>1, <3>2, <3>3 DEF Accounted
    <3>5. /\ first \in 0 .. MaxIndex /\ last \in 0 .. MaxIndex /\ i \in 0 .. MaxIndex
          /\ \/ first <= i
             \/ first > last
      <4>1. CASE after < newest
        BY <1>1, <2>3, <3>2, <3>4, <4>1
      <4>2. CASE after > rhead
        BY <1>1, <2>4, <3>2, <4>2
      <4> QED
        BY <2>2, <4>1, <4>2
    <3> HIDE DEF first, last
    <3>6. Distance(i, first) <= Distance(last, first)
      BY <3>4, <3>5, DistanceValue
    <3>7. InGap(i)' = (gap' # <<>> /\ Distance(i, gap'[1]) <= Distance(gap'[2], gap'[1]))
      BY DEF InGap, Distance
    <3> QED
      BY <3>1, <3>6, <3>7
  <2> QED
    BY <2>5, <2>6, <1>1, <1>3, <1>4
<1>6. CASE rpc' = "generation" /\ status' = "ok" /\ truncation' = "none" /\ i <= newest
  <2>1. /\ Distance(rhead, after) <= HalfWindow
        /\ Distance(newest, after) = 0 \/ Distance(newest, after) > HalfWindow
    BY <1>6 DEF RPlan
  <2>2. newest <= after /\ after <= rhead
    BY <1>1, <1>2, <1>4, <2>1
  <2>3. i <= after /\ (request.after)' = after /\ rhead' = rhead
    BY <1>1, <1>3, <1>6, <2>2
  <2> QED
    BY <1>6, <2>2, <2>3 DEF Accounted
<1> QED
  BY <1>5, <1>6

\* A step of the reader keeps its account complete.
LEMMA CompleteInvReader ==
    ASSUME TypeOK, WriterInv, ReaderInv, PageInv, BracketInv, RunInv, CompleteInv,
           RStart \/ RContinue
    PROVE  CompleteInv'
<1>1. UNCHANGED <<generation, head>> /\ Committed' = Committed
  BY ReaderFrame DEF shared, writer, Committed
<1>2. published \in 0 .. MaxIndex /\ newest \in 0 .. MaxIndex /\ index \in 0 .. MaxIndex
  BY DEF TypeOK, ReaderTypeOK
<1>3. ASSUME UNCHANGED <<request, rhead, entries, gap>>
      PROVE  \A i : Accounted(i)' <=> Accounted(i)
  BY <1>3 DEF Accounted, InGap, Distance
<1> USE <1>2, RingAssumption DEF CompleteInv, AllAccounted, Paging
<1>4. CASE RStart
  BY <1>4 DEF RStart
<1>5. CASE RLoadFlags \/ RNewestToken \/ RReloadHead
  BY <1>5 DEF RLoadFlags, RNewestToken, RReloadHead
<1>6. CASE RLoadHead
  BY <1>6 DEF RLoadHead, RejectWholePage
<1>7. CASE RPlan
  <2>1. rpc = "plan" /\ rpc' \in {"loop", "generation"}
        /\ UNCHANGED <<published, newest, rgeneration, rhead>>
    BY <1>7 DEF RPlan
  <2>2. Live' => published <= newest
    BY <1>1, <2>1 DEF BracketInv, HeaderLoaded, Estimated, Live
  <2>3. rpc' = "loop" => index' # 0 /\ newest + 1 - index' <= HalfWindow
    <3>1. 1 \in 1 .. MaxIndex
      OBVIOUS
    <3> QED
      BY <1>7, <3>1, PlanAccounts
  <2>4. rpc' = "loop" => \A i \in 1 .. published : i < index' => Accounted(i)'
    BY <1>7, PlanAccounts
  <2>5. (Live' /\ rpc' = "generation" /\ status' = "ok" /\ truncation' = "none")
           => \A i \in 1 .. published : Accounted(i)'
    BY <1>7, <2>2, PlanAccounts
  <2> QED
    BY <2>1, <2>3, <2>4, <2>5
<1>8. CASE REndLoop
  <2>1. /\ rpc = "loop" /\ rpc' = "generation"
        /\ UNCHANGED <<request, rhead, entries, gap, published, newest, rgeneration>>
        /\ truncation' = "none" => RangeDone
    BY <1>8 DEF REndLoop
  <2>2. Live' => published <= newest
    BY <1>1, <2>1 DEF BracketInv, HeaderLoaded, Estimated, Live
  <2>3. RangeDone => index = 0 \/ index = newest + 1
    <3>1. index # 0 => newest + 1 - index \in 0 .. MaxIndex /\ newest + 1 - index <= HalfWindow
      BY <2>1 DEF ReaderInv
    <3>2. index # 0 => Distance(newest + 1, index) = newest + 1 - index
      BY <3>1, DistanceValue
    <3> QED
      BY <3>1, <3>2, HalfWindowValue DEF RangeDone, Remaining
  <2> QED
    BY <1>3, <2>1, <2>2, <2>3
<1>9. CASE RTokenBefore
  BY <1>3, <1>9 DEF RTokenBefore
<1>10. CASE RDecodeWord
  BY <1>3, <1>10 DEF RDecodeWord, result
<1>11. CASE RTokenAfter
  <2> DEFINE record == [index |-> index, words |-> entry]
             Record == [index : 0 .. MaxIndex, words : [Words -> Tags]]
  <2>1. /\ rpc = "tokenAfter" /\ rpc' \in {"loop", "generation"} /\ index \in 1 .. newest
        /\ UNCHANGED <<request, rhead, gap, published, newest>>
    BY <1>11 DEF RTokenAfter, ReaderInv
  <2>2. CASE token[SlotOf(index)] # index
    BY <1>11, <2>2 DEF RTokenAfter
  <2>3. CASE token[SlotOf(index)] = index
    <3>1. /\ rpc' = "loop" /\ entries' = Append(entries, record)
          /\ index' = (index + 1) % Window
      BY <1>11, <2>3 DEF RTokenAfter
    <3>2. record \in Record /\ entries \in Seq(Record) /\ record.index = index
      BY DEF TypeOK, PageTypeOK, ReaderTypeOK
    <3> HIDE DEF record, Record
    <3>3. /\ Len(entries') = Len(entries) + 1 /\ Len(entries) \in Nat
          /\ \A k \in 1 .. Len(entries) : entries'[k] = entries[k]
          /\ entries'[Len(entries) + 1] = record
      BY <3>1, <3>2
    <3>4. \A i : Accounted(i) => Accounted(i)'
      BY <2>1, <3>3 DEF Accounted, InGap, Distance
    <3>5. \A i : i = index => Accounted(i)'
      <4>1. Len(entries) + 1 \in 1 .. Len(entries') /\ entries'[Len(entries) + 1].index = index
        BY <3>2, <3>3
      <4> QED
        BY <4>1 DEF Accounted
    <3>6. \/ index' = index + 1
          \/ index' = 0 /\ index = MaxIndex
      <4>1. index + 1 <= MaxIndex => (index + 1) % Window = index + 1
        BY <2>1, RemainderValue DEF Window
      <4>2. index = MaxIndex => (index + 1) % Window = 0
        BY <2>1, RemainderValue DEF Window
      <4> QED
        BY <2>1, <3>1, <4>1, <4>2
    <3>7. index' # 0 => newest' + 1 - index' <= HalfWindow
      BY <2>1, <3>6, HalfWindowValue
    <3>8. \A i \in 1 .. published : i < index' \/ index' = 0 => Accounted(i)'
      BY <2>1, <3>4, <3>5, <3>6
    <3> QED
      BY <2>1, <3>1, <3>7, <3>8
  <2> QED
    BY <2>2, <2>3
<1>12. CASE RFinalGeneration
  <2>1. generation = rgeneration => Live
    BY <1>12 DEF RFinalGeneration, Live, ReaderInv
  <2> QED
    BY <1>3, <1>12, <2>1 DEF RFinalGeneration, result, RejectWholePage
<1>13. CASE RFinalFlags
  BY <1>3, <1>13 DEF RFinalFlags, result, RejectWholePage
<1> QED
  BY <1>4, <1>5, <1>6, <1>7, <1>8, <1>9, <1>10, <1>11, <1>12, <1>13 DEF RContinue

-----------------------------------------------------------------------------
(* The invariant of the complete page.                                     *)

\* The initial state satisfies it.
LEMMA PagesInvInit == Init => PagesInv
<1> SUFFICES ASSUME Init PROVE PagesInv
  OBVIOUS
<1>1. IInv
  BY IInvInit
<1>2. RestInv /\ BracketInv
  BY RingAssumption DEF Init, RestInv, BracketInv, HeaderLoaded, Estimated
<1>3. RunInv /\ CompleteInv
  BY DEF Init, RunInv, CompleteInv, Paging
<1> QED
  BY <1>1, <1>2, <1>3 DEF PagesInv

\* Every step preserves it.
LEMMA PagesInvStep == PagesInv /\ [Next]_vars => PagesInv'
<1> SUFFICES ASSUME PagesInv, [Next]_vars PROVE PagesInv'
  OBVIOUS
<1>1. IInv'
  BY IInvStep DEF PagesInv
<1>2. CASE WStep
  BY <1>1, <1>2, RestInvWriter, BracketInvWriter, PageOfReader DEF PagesInv, IInv
<1>3. CASE RStart \/ RContinue
  BY <1>1, <1>3, RestInvReader, BracketInvReader, RunInvReader, CompleteInvReader
     DEF PagesInv, IInv
<1>4. CASE UNCHANGED vars
  <2>1. UNCHANGED shared /\ UNCHANGED writer /\ UNCHANGED reader
    BY <1>4 DEF vars
  <2>2. RestInv'
    BY <2>1 DEF PagesInv, RestInv, shared, writer, Writing, SlotOf
  <2>3. BracketInv'
    BY <2>1 DEF PagesInv, BracketInv, HeaderLoaded, Estimated, Live, Committed,
                shared, writer, reader
  <2>4. RunInv' /\ CompleteInv'
    BY <2>1 DEF PagesInv, RunInv, CompleteInv, AllAccounted, Accounted, InGap, Distance,
                Paging, Live, shared, reader, result
  <2> QED
    BY <1>1, <2>2, <2>3, <2>4 DEF PagesInv
<1> QED
  BY <1>2, <1>3, <1>4 DEF Next

\* When a reader's generation is confirmed, its estimate of the newest
\* committed entry lies between what was committed when it loaded the head and
\* what is committed now: the two readings of a zero token are told apart
\* whatever the producer does between the two head loads.
THEOREM EstimateBracketed == Spec => []NewestBracketed
<1>1. PagesInv => NewestBracketed
  BY DEF PagesInv, IInv, BracketInv, ReaderInv, NewestBracketed, Live, HeaderLoaded, Estimated
<1> QED
  BY <1>1, PagesInvInit, PagesInvStep, PTL DEF Spec

\* No reader loses an entry silently: a page that does not say it was cut
\* short accounts for everything committed when it began.
THEOREM NothingLostSilently == Spec => []NoSilentLoss
<1>1. PagesInv => NoSilentLoss
  BY DEF PagesInv, CompleteInv, AllAccounted, Accounted, NoSilentLoss, Delivered
<1> QED
  BY <1>1, PagesInvInit, PagesInvStep, PTL DEF Spec

-----------------------------------------------------------------------------
(* The ring implements the abstract log.                                   *)

\* All the words of a coherent record name its entry.
LEMMA TagOfCoherent ==
    ASSUME NEW e, Coherent(e)
    PROVE  TagOf(e) = <<rgeneration, e.index>>
<1>1. 1 \in Words
  BY RingAssumption DEF Words
<1> QED
  BY <1>1 DEF TagOf, Coherent

\* An answer is empty exactly when it has no entries.
LEMMA AnswerEmpty ==
    /\ rpc \notin {"finalFlags", "idle"} => Answer = <<>>
    /\ Len(entries) = 0 => Answer = <<>>
  BY DEF Answer

\* An append commits when its token is stored; a full segment gives way when
\* its successor's generation is; the other stores of the producer are internal.
LEMMA WriterRefines ==
    ASSUME PagesInv, WStep
    PROVE  Log!Next \/ UNCHANGED Log!vars
<1> USE RingAssumption DEF PagesInv, IInv, TypeOK, RingTypeOK, WriterInv, RestInv, Writing
<1>1. Answer' = Answer
  BY WriterFrame DEF reader, result, Answer, TagOf, Words
<1>2. CASE WReserve \/ WInvalidate \/ WStoreWord \/ WBeginTransition \/ WResetHead
  <2>1. Committed' = Committed /\ flags' = flags
    <3>1. head \in Int /\ (wpc = "idle" <=> generation # 0 /\ ~Writing)
      OBVIOUS
    <3>2. CASE WReserve
      BY <3>1, <3>2 DEF WReserve, Committed
    <3>3. CASE WInvalidate \/ WStoreWord
      BY <3>3 DEF WInvalidate, WStoreWord, Committed
    <3>4. CASE WBeginTransition
      BY <3>4 DEF WBeginTransition, Committed
    <3>5. CASE WResetHead
      BY <3>5 DEF WResetHead, Committed
    <3> QED
      BY <1>2, <3>2, <3>3, <3>4, <3>5
  <2>2. (IF generation' = 0 THEN wgeneration' ELSE generation')
          = (IF generation = 0 THEN wgeneration ELSE generation)
    BY <1>2 DEF WReserve, WInvalidate, WStoreWord, WBeginTransition, WResetHead
  <2> QED
    BY <1>1, <2>1, <2>2 DEF Log!vars
<1>3. CASE WPublish
  <2>1. generation # 0 /\ generation' = generation /\ flags = 0 /\ flags' = 0
    BY <1>3 DEF WPublish
  <2>2. Committed = head - 1 /\ Committed' = head /\ head \in 1 .. MaxIndex
    BY <1>3, <2>1 DEF WPublish, Committed
  <2>3. Log!Commit
    BY <1>1, <2>1, <2>2 DEF Log!Commit
  <2> QED
    BY <2>3 DEF Log!Next
<1>4. CASE WSuccessor
  <2>1. /\ generation = 0 /\ generation' = wgeneration + 1 /\ wgeneration < MaxGeneration
        /\ wgeneration' = wgeneration /\ flags = 0 /\ flags' = 0
    BY <1>4 DEF WSuccessor
  <2>2. Committed = MaxIndex /\ Committed' = 0
    BY <1>4, <2>1 DEF WSuccessor, Committed
  <2>3. Log!Roll
    BY <1>1, <2>1, <2>2 DEF Log!Roll
  <2> QED
    BY <2>3 DEF Log!Next
<1>5. CASE WExhaust
  <2>1. /\ generation # 0 /\ generation' = generation /\ generation = MaxGeneration
        /\ flags' = 1 /\ Committed = MaxIndex /\ Committed' = Committed
    BY <1>5 DEF WExhaust, writer, Committed
  <2>2. Log!Close
    BY <1>1, <2>1 DEF Log!Close
  <2> QED
    BY <2>2 DEF Log!Next
<1> QED
  BY <1>2, <1>3, <1>4, <1>5 DEF WStep

\* A read takes its answer when it confirms the generation: at that moment the
\* page is a run of committed entries of the segment it reports.
LEMMA ReaderRefines ==
    ASSUME PagesInv, RStart \/ RContinue
    PROVE  Log!Next \/ UNCHANGED Log!vars
<1> DEFINE segment == IF generation = 0 THEN wgeneration ELSE generation
<1>1. UNCHANGED <<generation, wgeneration, flags>> /\ Committed' = Committed
  BY ReaderFrame DEF shared, writer, Committed
<1>2. CASE Answer' = Answer
  BY <1>1, <1>2 DEF Log!vars
<1>3. CASE Answer' = <<>>
  BY <1>1, <1>3 DEF Log!Next, Log!Forget
<1>4. CASE RStart \/ RLoadFlags \/ RNewestToken \/ RReloadHead \/ RPlan \/ REndLoop
           \/ RTokenBefore \/ RDecodeWord \/ RTokenAfter
  <2>1. rpc' \notin {"finalFlags", "idle"}
    BY <1>4 DEF RStart, RLoadFlags, RNewestToken, RReloadHead, RPlan, REndLoop,
                RTokenBefore, RDecodeWord, RTokenAfter
  <2>2. Answer' = <<>>
    BY <2>1 DEF Answer
  <2> QED
    BY <1>3, <2>2
<1>5. CASE RLoadHead
  <2>1. rpc' \notin {"finalFlags", "idle"} \/ entries' = <<>>
    BY <1>5 DEF RLoadHead, RejectWholePage
  <2>2. Answer' = <<>>
    BY <2>1 DEF Answer
  <2> QED
    BY <1>3, <2>2
<1>6. CASE RFinalGeneration
  <2>1. CASE generation # rgeneration
    <3>1. entries' = <<>>
      BY <1>6, <2>1 DEF RFinalGeneration, RejectWholePage
    <3>2. Answer' = <<>>
      BY <3>1 DEF Answer
    <3> QED
      BY <1>3, <3>2
  <2>2. CASE generation = rgeneration
    <3>1. /\ rpc = "generation" /\ rpc' = "finalFlags"
          /\ UNCHANGED <<entries, rgeneration, newest>>
      BY <1>6, <2>2 DEF RFinalGeneration, result
    <3>2. Live /\ segment = rgeneration /\ newest <= Committed
      BY <2>2, <3>1 DEF PagesInv, IInv, ReaderInv, Live
    <3>3. \A k \in 1 .. Len(entries) : TagOf(entries[k]) = <<rgeneration, entries[k].index>>
      BY <3>1, <3>2, TagOfCoherent DEF PagesInv, IInv, PageInv, AllCoherent
    <3>4. Answer' = [k \in 1 .. Len(entries) |-> TagOf(entries[k])]
      BY <3>1 DEF Answer, TagOf, Words
    <3>5. Answer' = [k \in 1 .. Len(entries) |-> <<rgeneration, entries[k].index>>]
      BY <3>3, <3>4
    <3>6. CASE Len(entries) = 0
      BY <1>3, <3>4, <3>6
    <3>7. CASE Len(entries) # 0
      <4>1. Len(entries) \in Nat \ {0} /\ newest \in 0 .. MaxIndex /\ Committed \in 0 .. MaxIndex
        BY <3>7, CommittedType DEF PagesInv, IInv, TypeOK, PageTypeOK, ReaderTypeOK
      <4>2. DOMAIN Answer' = 1 .. Len(entries)
        BY <3>5
      <4>3. Answer = <<>> /\ Answer' # <<>>
        BY <3>1, <4>1, <4>2, AnswerEmpty
      <4>4. ASSUME NEW k \in 1 .. Len(entries)
            PROVE  /\ Answer'[k][1] = segment
                   /\ Answer'[k][2] \in 1 .. Committed
                   /\ k > 1 => Answer'[k][2] = Answer'[k-1][2] + 1
        <5>1. /\ entries[k].index \in 1 .. newest
              /\ k > 1 => entries[k].index = entries[k-1].index + 1
          BY <3>1, <4>1 DEF PagesInv, RunInv
        <5>2. Answer'[k] = <<rgeneration, entries[k].index>>
          BY <3>5
        <5>3. k > 1 => Answer'[k-1] = <<rgeneration, entries[k-1].index>>
          BY <3>5, <4>1
        <5> QED
          BY <3>2, <4>1, <5>1, <5>2, <5>3
      <4>5. Log!Take
        BY <1>1, <4>2, <4>3, <4>4 DEF Log!Take, Log!IsRun
      <4> QED
        BY <4>5 DEF Log!Next
    <3> QED
      BY <3>6, <3>7
  <2> QED
    BY <2>1, <2>2
<1>7. CASE RFinalFlags
  <2>1. CASE flags = 1
    <3>1. entries' = <<>>
      BY <1>7, <2>1 DEF RFinalFlags, RejectWholePage
    <3>2. Answer' = <<>>
      BY <3>1 DEF Answer
    <3> QED
      BY <1>3, <3>2
  <2>2. CASE flags # 1
    <3>1. rpc = "finalFlags" /\ rpc' = "idle" /\ entries' = entries
      BY <1>7, <2>2 DEF RFinalFlags, result
    <3>2. Answer' = Answer
      BY <3>1 DEF Answer, TagOf, Words
    <3> QED
      BY <1>2, <3>2
  <2> QED
    BY <2>1, <2>2
<1> QED
  BY <1>4, <1>5, <1>6, <1>7 DEF RContinue

\* The event ring and its concurrent reader implement an append-only segmented
\* log whose readers obtain, in one step, a run of consecutive committed entries
\* of the segment they report.
THEOREM RingImplementsLog == Spec => ImplementsLog
<1>1. Init => Log!Init
  BY AnswerEmpty DEF Init, Log!Init, Committed
<1>2. PagesInv /\ [Next]_vars => [Log!Next]_Log!vars
  <2> SUFFICES ASSUME PagesInv, [Next]_vars PROVE Log!Next \/ UNCHANGED Log!vars
    OBVIOUS
  <2>1. CASE WStep
    BY <2>1, WriterRefines
  <2>2. CASE RStart \/ RContinue
    BY <2>2, ReaderRefines
  <2>3. CASE UNCHANGED vars
    BY <2>3 DEF vars, shared, writer, reader, result, Log!vars, Answer, TagOf, Words, Committed
  <2> QED
    BY <2>1, <2>2, <2>3 DEF Next
<1> QED
  BY <1>1, <1>2, PagesInvInit, PagesInvStep, PTL DEF Spec, ImplementsLog, Log!Spec

=============================================================================
