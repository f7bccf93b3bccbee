-------------------------- MODULE SpscQueue_proofs --------------------------
(***************************************************************************)
(* Proofs about the single-producer single-consumer ring, for every value  *)
(* set, capacity and width of the positions of which the capacity is a     *)
(* divisor.                                                                *)
(***************************************************************************)
EXTENDS SpscQueue, TLAPS

-----------------------------------------------------------------------------
(* Positions that wrap *)

(* The remainder of a number that is at most one turn away. *)
LEMMA ModNear ==
    ASSUME NEW M \in Nat \ {0}, NEW x \in Int
    PROVE  /\ 0 <= x /\ x < M => x % M = x
           /\ M <= x /\ x < 2 * M => x % M = x - M
           /\ x < 0 /\ 0 <= x + M => x % M = x + M
OBVIOUS

(* Quotient and remainder. *)
LEMMA Division ==
    ASSUME NEW M \in Nat \ {0}, NEW x \in Nat
    PROVE  /\ x = M * (x \div M) + (x % M)
           /\ x \div M \in Nat /\ x % M \in 0 .. M - 1
OBVIOUS

(* What is at least one turn more is at least a turn away. *)
LEMMA TurnsApart ==
    ASSUME NEW M \in Nat \ {0}, NEW a \in Nat, NEW b \in Nat, a < b
    PROVE  M * a + M <= M * b
<1>1. M * (a + 1) <= M * b
  OBVIOUS
<1>2. M * (a + 1) = M * a + M
  OBVIOUS
<1> QED
  BY <1>1, <1>2

(* A number that is so many turns and a rest has that remainder. *)
LEMMA RemainderIs ==
    ASSUME NEW M \in Nat \ {0}, NEW x \in Nat, NEW q \in Nat, NEW r \in 0 .. M - 1, x = M * q + r
    PROVE  x % M = r
<1> DEFINE k == x \div M
           rest == x % M
<1>1. x = M * k + rest /\ k \in Nat /\ rest \in 0 .. M - 1
  BY Division
<1> HIDE DEF k, rest
<1>2. CASE k < q
  BY <1>1, <1>2, TurnsApart
<1>3. CASE q < k
  BY <1>1, <1>3, TurnsApart
<1>4. CASE q = k
  BY <1>1, <1>4 DEF rest
<1> QED
  BY <1>1, <1>2, <1>3, <1>4

(* The number of positions and of slots. *)
LEMMA Sizes ==
    /\ PosMod \in Nat \ {0} /\ Capacity \in Nat \ {0} /\ Capacity < PosMod
    /\ \E m \in Nat : PosMod = m * Capacity
BY PositionAssumption, CapacityAssumption, OvertakeAssumption

(* A turn of the positions does not move the slots. *)
LEMMA SlotTurns ==
    ASSUME NEW x \in Nat
    PROVE  SlotOf(x + PosMod) = SlotOf(x)
<1>1. PICK m \in Nat : PosMod = m * Capacity
  BY Sizes
<1>2. ASSUME NEW C \in Nat \ {0} PROVE (x + m * C) % C = x % C
  <2>1. x = C * (x \div C) + (x % C) /\ x \div C \in Nat /\ x % C \in 0 .. C - 1
    BY <1>2, Division
  <2>2. x + m * C = C * ((x \div C) + m) + (x % C)
    BY <1>2, <2>1
  <2>3. x + m * C \in Nat /\ (x \div C) + m \in Nat
    BY <1>2, <2>1
  <2> QED
    BY <1>2, <2>1, <2>2, <2>3, RemainderIs
<1> QED
  BY <1>1, <1>2, Sizes DEF SlotOf

(* Positions less than Capacity apart have different slots. *)
LEMMA SlotsDiffer ==
    ASSUME NEW C \in Nat \ {0}, NEW x \in Nat, NEW y \in Nat, x < y, y < x + C
    PROVE  x % C # y % C
<1> SUFFICES ASSUME x % C = y % C PROVE FALSE
  OBVIOUS
<1> DEFINE a == x \div C
           b == y \div C
           r == x % C
<1>1. x = C * a + r /\ y = C * b + r /\ a \in Nat /\ b \in Nat /\ r \in Nat
  <2>1. x = C * a + (x % C) /\ a \in Nat /\ x % C \in 0 .. C - 1
    BY Division
  <2>2. y = C * b + (y % C) /\ b \in Nat
    BY Division
  <2> QED
    BY <2>1, <2>2
<1> HIDE DEF a, b, r
<1>2. CASE a < b
  BY <1>1, <1>2, TurnsApart
<1>3. CASE b < a
  BY <1>1, <1>3, TurnsApart
<1>4. CASE a = b
  BY <1>1, <1>4
<1> QED
  BY <1>1, <1>2, <1>3, <1>4

(* The next slot is one the ring has. *)
LEMMA SlotRange == ASSUME NEW x \in Nat PROVE SlotOf(x) \in Slot
BY Sizes DEF SlotOf, Slot

(* wrapping_sub without the remainder: it counts from the earlier position to the later. *)
LEMMA DistanceForm ==
    ASSUME NEW w \in Position, NEW r \in Position
    PROVE  Distance(w, r) = IF r <= w THEN w - r ELSE (w - r) + PosMod
<1>1. /\ PosMod \in Nat \ {0} /\ w - r \in Int
      /\ w - r < PosMod /\ 0 <= (w - r) + PosMod
  BY Sizes DEF Position
<1>2. /\ 0 <= w - r => (w - r) % PosMod = w - r
      /\ w - r < 0 => (w - r) % PosMod = (w - r) + PosMod
  BY <1>1, ModNear
<1> QED
  BY <1>2 DEF Distance, Position

(* wrapping_add without the remainder: the next position is one further on. *)
LEMMA AdvanceForm ==
    ASSUME NEW p \in Position
    PROVE  /\ Advance(p) = IF p + 1 = PosMod THEN 0 ELSE p + 1
           /\ Advance(p) \in Position
<1>1. /\ PosMod \in Nat \ {0} /\ p + 1 \in Int
      /\ 0 <= p + 1 /\ p + 1 <= PosMod /\ p + 1 < 2 * PosMod
  BY Sizes DEF Position
<1>2. /\ p + 1 < PosMod => (p + 1) % PosMod = p + 1
      /\ PosMod <= p + 1 => (p + 1) % PosMod = (p + 1) - PosMod
  BY <1>1, ModNear
<1>3. Advance(p) = IF p + 1 = PosMod THEN 0 ELSE p + 1
  BY <1>1, <1>2 DEF Advance
<1> QED
  BY <1>1, <1>3 DEF Position

(* How far the write position is, and what a push or a pop makes of it. *)
LEMMA DistanceIs ==
    ASSUME NEW w \in Position, NEW r \in Position
    PROVE  /\ Distance(w, r) \in Nat
           /\ r + Distance(w, r) \in {w, w + PosMod}
           /\ Distance(w, r) = 0 <=> w = r
           /\ Distance(w, r) + 1 < PosMod => Distance(Advance(w), r) = Distance(w, r) + 1
           /\ Distance(w, r) > 0 => Distance(w, Advance(r)) = Distance(w, r) - 1
<1>1. PosMod \in Nat \ {0} /\ w \in 0 .. PosMod - 1 /\ r \in 0 .. PosMod - 1
  BY Sizes DEF Position
<1>2. Advance(w) \in Position /\ Advance(r) \in Position
  BY AdvanceForm
<1>3. /\ Distance(w, r) = IF r <= w THEN w - r ELSE (w - r) + PosMod
      /\ Distance(Advance(w), r) = IF r <= Advance(w) THEN Advance(w) - r ELSE (Advance(w) - r) + PosMod
      /\ Distance(w, Advance(r)) = IF Advance(r) <= w THEN w - Advance(r) ELSE (w - Advance(r)) + PosMod
  BY <1>2, DistanceForm
<1>4. /\ Advance(w) = IF w + 1 = PosMod THEN 0 ELSE w + 1
      /\ Advance(r) = IF r + 1 = PosMod THEN 0 ELSE r + 1
  BY AdvanceForm
<1>5. /\ Distance(w, r) \in Nat
      /\ r + Distance(w, r) \in {w, w + PosMod}
      /\ Distance(w, r) = 0 <=> w = r
  BY <1>1, <1>3
<1>6. Distance(w, r) + 1 < PosMod => Distance(Advance(w), r) = Distance(w, r) + 1
  BY <1>1, <1>3, <1>4
<1>7. Distance(w, r) > 0 => Distance(w, Advance(r)) = Distance(w, r) - 1
  BY <1>1, <1>3, <1>4
<1> QED
  BY <1>5, <1>6, <1>7

(* The slot of the write position comes after those of the elements. *)
LEMMA WriteSlot ==
    ASSUME TypeOK, RingHoldsQueue
    PROVE  SlotOf(write_pos) = SlotOf(read_pos + Len(queue))
<1>1. write_pos \in Nat /\ read_pos \in Nat
  BY DEF TypeOK, Position
<1>2. read_pos + Len(queue) \in {write_pos, write_pos + PosMod}
  BY DistanceIs DEF TypeOK, RingHoldsQueue
<1> QED
  BY <1>1, <1>2, SlotTurns

(* The slots after the next read position are those that were one further. *)
LEMMA NextSlots ==
    ASSUME NEW r \in Position, NEW j \in Nat
    PROVE  SlotOf(Advance(r) + j) = SlotOf(r + (j + 1))
<1>1. r \in Nat /\ PosMod \in Nat
  BY Sizes DEF Position
<1>2. CASE r + 1 = PosMod
  <2>1. Advance(r) + j = j /\ r + (j + 1) = j + PosMod
    BY <1>1, <1>2, AdvanceForm
  <2> QED
    BY <2>1, SlotTurns
<1>3. CASE r + 1 # PosMod
  <2>1. Advance(r) + j = r + (j + 1)
    BY <1>1, <1>3, AdvanceForm
  <2> QED
    BY <2>1
<1> QED
  BY <1>2, <1>3

-----------------------------------------------------------------------------
(* Every step keeps the invariant *)

(* The invariant holds of the empty ring. *)
LEMMA InitInv == Init => IndInv
<1> SUFFICES ASSUME Init PROVE IndInv
  OBVIOUS
<1>0. 0 \in Position /\ Distance(0, 0) = 0
  <2>1. 0 \in Position
    BY Sizes DEF Position
  <2> QED
    BY <2>1, DistanceIs
<1>1. TypeOK
  <2>1. overtaken \in 0 .. MaxOvertake /\ queue \in Seq(Value)
    BY OvertakeAssumption DEF Init
  <2>2. data \in [Slot -> Value \union {Nothing}]
    BY DEF Init
  <2> QED
    BY <1>0, <2>1, <2>2 DEF Init, TypeOK
<1>2. RingHoldsQueue
  BY <1>0, CapacityAssumption DEF Init, RingHoldsQueue
<1>3. NeverUnderReports /\ CallsKnow
  BY DEF Init, NeverUnderReports, CallsKnow
<1> QED
  BY <1>1, <1>2, <1>3 DEF IndInv

(* The steps of a call that change neither the ring nor the queue. *)
LEMMA LocalInv ==
    ASSUME IndInv,
           \/ \E v \in Value : PushCall(v)
           \/ PushLoadRead \/ PopCall \/ PopLoadWrite \/ PopLoad \/ LenReturn
    PROVE  IndInv'
<1> USE DEF IndInv
<1>0. UNCHANGED <<write_pos, read_pos, data, queue>>
  BY DEF PushCall, PushLoadRead, PopCall, PopLoadWrite, PopLoad, LenReturn
<1>1. read_pos = write_pos <=> queue = <<>>
  BY DistanceIs DEF RingHoldsQueue, TypeOK
<1>2. queue # <<>> => Len(queue) >= 1 /\ data[SlotOf(read_pos)] = queue[1] /\ queue[1] \in Value
  <2> SUFFICES ASSUME queue # <<>>
               PROVE  Len(queue) >= 1 /\ data[SlotOf(read_pos)] = queue[1] /\ queue[1] \in Value
    OBVIOUS
  <2>1. Len(queue) >= 1 /\ queue[1] \in Value
    BY DEF TypeOK
  <2>2. read_pos + 1 - 1 = read_pos /\ 1 \in 1 .. Len(queue)
    BY <2>1, Sizes DEF TypeOK, Position
  <2> QED
    BY <2>1, <2>2 DEF RingHoldsQueue
<1>3. CASE \E v \in Value : PushCall(v)
  BY <1>3, ValueAssumption DEF PushCall, TypeOK, RingHoldsQueue, NeverUnderReports, CallsKnow, consumer,
         observer, LenSeen, EmptySeen, FullSeen
<1>4. CASE PushLoadRead
  <2>1. ~Full(write_pos, read_pos) => Len(queue) < Capacity
    BY CapacityAssumption DEF Full, RingHoldsQueue, TypeOK
  <2> QED
    BY <1>4, <2>1 DEF PushLoadRead, TypeOK, RingHoldsQueue, NeverUnderReports, CallsKnow, consumer,
           observer, LenSeen, EmptySeen, FullSeen
<1>5. CASE PopCall
  BY <1>5 DEF PopCall, TypeOK, RingHoldsQueue, NeverUnderReports, CallsKnow, producer,
         observer, LenSeen, EmptySeen, FullSeen
<1>6. CASE PopLoadWrite
  BY <1>1, <1>6 DEF PopLoadWrite, TypeOK, RingHoldsQueue, NeverUnderReports, CallsKnow, producer,
         observer, LenSeen, EmptySeen, FullSeen
<1>7. CASE PopLoad
  BY <1>2, <1>7 DEF PopLoad, TypeOK, RingHoldsQueue, NeverUnderReports, CallsKnow, producer,
         observer, LenSeen, EmptySeen, FullSeen
<1>8. CASE LenReturn
  <2>1. 0 \in Position /\ 0 \in 0 .. MaxOvertake
    BY Sizes, OvertakeAssumption DEF Position
  <2> QED
    BY <1>8, <2>1 DEF LenReturn, TypeOK, RingHoldsQueue, NeverUnderReports, CallsKnow, producer, consumer
<1> QED
  BY <1>3, <1>4, <1>5, <1>6, <1>7, <1>8

(* len() starts: what it sees of read_pos is what is there. *)
LEMMA LenCallInv == ASSUME IndInv, LenCall PROVE IndInv'
<1> USE DEF IndInv, LenCall, producer, consumer
<1>1. TypeOK' /\ RingHoldsQueue' /\ CallsKnow'
  BY DEF TypeOK, RingHoldsQueue, CallsKnow
<1>2. NeverUnderReports'
  <2>1. oread' = read_pos /\ write_pos' = write_pos /\ queue' = queue /\ overtaken' = 0
    BY DEF CallsKnow, TypeOK
  <2>2. Distance(write_pos, read_pos) = Len(queue) /\ Len(queue) \in Nat
    BY DEF RingHoldsQueue, TypeOK
  <2>3. read_pos = write_pos => queue = <<>>
    BY <2>2, DistanceIs DEF TypeOK
  <2> QED
    BY <2>1, <2>2, <2>3, CapacityAssumption DEF NeverUnderReports, LenSeen, EmptySeen, FullSeen, Full
<1> QED
  BY <1>1, <1>2

(* push stores its value: in a slot that holds no element, since there is room. *)
LEMMA PushStoreInv == ASSUME IndInv, PushStore PROVE IndInv'
<1> USE DEF IndInv, PushStore, consumer, observer
<1>0. write_pos \in Nat /\ SlotOf(write_pos) \in Slot /\ pval \in Value \union {Nothing}
  BY SlotRange DEF TypeOK, Position
<1>1. TypeOK'
  BY <1>0 DEF TypeOK
<1>2. \A k \in 1 .. Len(queue) : SlotOf(read_pos + k - 1) # SlotOf(write_pos)
  <2> SUFFICES ASSUME NEW k \in 1 .. Len(queue)
               PROVE  SlotOf(read_pos + k - 1) # SlotOf(write_pos)
    OBVIOUS
  <2>1. Len(queue) \in Nat /\ Len(queue) < Capacity /\ read_pos \in Nat
    BY DEF CallsKnow, TypeOK, Position
  <2>2. /\ read_pos + k - 1 \in Nat /\ read_pos + Len(queue) \in Nat
        /\ read_pos + k - 1 < read_pos + Len(queue)
        /\ read_pos + Len(queue) < (read_pos + k - 1) + Capacity
    BY <2>1, CapacityAssumption
  <2>3. (read_pos + k - 1) % Capacity # (read_pos + Len(queue)) % Capacity
    BY <2>2, SlotsDiffer, Sizes
  <2> QED
    BY <2>3, WriteSlot DEF SlotOf
<1>3. RingHoldsQueue'
  <2>1. \A k \in 1 .. Len(queue) : data'[SlotOf(read_pos + k - 1)] = data[SlotOf(read_pos + k - 1)]
    BY <1>2 DEF TypeOK
  <2> QED
    BY <2>1 DEF RingHoldsQueue
<1>4. NeverUnderReports' /\ CallsKnow'
  BY <1>0 DEF NeverUnderReports, CallsKnow, LenSeen, EmptySeen, FullSeen, TypeOK
<1> QED
  BY <1>1, <1>3, <1>4

(* push publishes the write position. *)
LEMMA PushPublishInv == ASSUME IndInv, PushPublish PROVE IndInv'
<1> USE DEF IndInv, PushPublish, consumer, observer
<1>0. /\ pval \in Value /\ queue \in Seq(Value) /\ Len(queue) \in Nat /\ Len(queue) < Capacity
      /\ write_pos \in Position /\ read_pos \in Position /\ read_pos \in Nat
  BY DEF TypeOK, CallsKnow, Position
<1>1. /\ queue' = Append(queue, pval) /\ Len(queue') = Len(queue) + 1 /\ queue' \in Seq(Value)
      /\ \A k \in 1 .. Len(queue) : queue'[k] = queue[k]
      /\ queue'[Len(queue) + 1] = pval
  BY <1>0
<1>2. TypeOK'
  BY <1>0, <1>1, AdvanceForm DEF TypeOK
<1>3. RingHoldsQueue'
  <2>1. Len(queue') = Distance(write_pos', read_pos)
    <3>1. Distance(write_pos, read_pos) = Len(queue) /\ Len(queue) + 1 < PosMod
      <4>1. Distance(write_pos, read_pos) = Len(queue)
        BY DEF RingHoldsQueue
      <4>2. Capacity \in Nat /\ PosMod \in Nat /\ Capacity < PosMod
        BY Sizes
      <4> QED
        BY <1>0, <4>1, <4>2
    <3>2. Distance(Advance(write_pos), read_pos) = Len(queue) + 1
      BY <1>0, <3>1, DistanceIs
    <3> QED
      BY <1>1, <3>2
  <2>2. ASSUME NEW k \in 1 .. Len(queue') PROVE data[SlotOf(read_pos + k - 1)] = queue'[k]
    <3>1. CASE k \in 1 .. Len(queue)
      BY <1>1, <3>1 DEF RingHoldsQueue
    <3>2. CASE k = Len(queue) + 1
      <4>1. read_pos + k - 1 = read_pos + Len(queue)
        BY <1>0, <3>2
      <4> QED
        BY <1>1, <3>2, <4>1, WriteSlot DEF CallsKnow
    <3> QED
      BY <1>0, <1>1, <3>1, <3>2
  <2>3. cpc = "publish" => queue' # <<>> /\ cval = queue'[1]
    BY <1>0, <1>1 DEF RingHoldsQueue
  <2> QED
    BY <1>0, <1>1, <2>1, <2>2, <2>3, CapacityAssumption DEF RingHoldsQueue
<1>4. NeverUnderReports'
  <2> SUFFICES ASSUME opc = "loadWrite" PROVE NeverUnderReports'
    BY DEF NeverUnderReports
  <2>1. /\ oread \in Position /\ overtaken \in Nat /\ overtaken <= MaxOvertake
        /\ Distance(write_pos, oread) = Len(queue) + overtaken
    BY OvertakeAssumption DEF TypeOK, NeverUnderReports, LenSeen
  <2>2. Distance(write_pos, oread) + 1 < PosMod
    BY <1>0, <2>1, OvertakeAssumption, CapacityAssumption, Sizes
  <2>3. Distance(write_pos', oread) = Len(queue') + overtaken
    <3>1. Distance(Advance(write_pos), oread) = (Len(queue) + overtaken) + 1
      <4>1. Distance(Advance(write_pos), oread) = Distance(write_pos, oread) + 1
        BY <1>0, <2>1, <2>2, DistanceIs
      <4> QED
        BY <2>1, <4>1
    <3> QED
      BY <1>0, <1>1, <2>1, <3>1
  <2>4. write_pos' \in Position
    BY <1>2 DEF TypeOK
  <2>5. oread # write_pos'
    <3>1. Distance(write_pos', oread) # 0
      BY <1>0, <1>1, <2>1, <2>3
    <3> QED
      BY <2>1, <2>4, <3>1, DistanceIs
  <2> QED
    BY <1>0, <1>1, <2>1, <2>3, <2>5, CapacityAssumption
       DEF NeverUnderReports, LenSeen, EmptySeen, FullSeen, Full
<1>5. CallsKnow'
  BY <1>0, <1>1 DEF CallsKnow
<1> QED
  BY <1>2, <1>3, <1>4, <1>5

(* pop publishes the read position. *)
LEMMA PopPublishInv == ASSUME IndInv, PopPublish PROVE IndInv'
<1> USE DEF IndInv, PopPublish, producer
<1>0. /\ queue # <<>> /\ queue \in Seq(Value) /\ Len(queue) \in Nat /\ Len(queue) >= 1
      /\ write_pos \in Position /\ read_pos \in Position /\ read_pos \in Nat
  BY DEF TypeOK, CallsKnow, Position
<1>1. /\ queue' = Tail(queue) /\ Len(queue') = Len(queue) - 1 /\ queue' \in Seq(Value)
      /\ \A k \in 1 .. Len(queue') : queue'[k] = queue[k + 1]
  BY <1>0
<1>2. TypeOK'
  <2>1. overtaken' \in 0 .. MaxOvertake
    BY OvertakeAssumption DEF TypeOK
  <2> QED
    BY <1>0, <1>1, <2>1, AdvanceForm DEF TypeOK
<1>3. RingHoldsQueue'
  <2>1. Len(queue') = Distance(write_pos, read_pos')
    BY <1>0, <1>1, DistanceIs DEF RingHoldsQueue
  <2>2. ASSUME NEW k \in 1 .. Len(queue') PROVE data[SlotOf(read_pos' + k - 1)] = queue'[k]
    <3>1. k - 1 \in Nat /\ k + 1 \in 1 .. Len(queue) /\ read_pos' \in Nat
      BY <1>0, <1>1, <1>2 DEF TypeOK, Position
    <3>2. SlotOf(read_pos' + (k - 1)) = SlotOf(read_pos + ((k - 1) + 1))
      BY <1>0, <3>1, NextSlots
    <3>3. read_pos' + k - 1 = read_pos' + (k - 1) /\ read_pos + ((k - 1) + 1) = read_pos + (k + 1) - 1
      BY <1>0, <3>1
    <3>4. data[SlotOf(read_pos + (k + 1) - 1)] = queue[k + 1]
      BY <3>1 DEF RingHoldsQueue
    <3> QED
      BY <1>1, <3>2, <3>3, <3>4
  <2> QED
    BY <1>0, <1>1, <2>1, <2>2, CapacityAssumption DEF RingHoldsQueue
<1>4. NeverUnderReports'
  <2> SUFFICES ASSUME opc = "loadWrite" PROVE NeverUnderReports'
    BY DEF NeverUnderReports
  <2>1. /\ overtaken \in Nat /\ overtaken' = overtaken + 1
        /\ Distance(write_pos, oread) = Len(queue) + overtaken /\ oread \in Position
    BY OvertakeAssumption DEF TypeOK, NeverUnderReports, LenSeen
  <2>2. Distance(write_pos, oread) = Len(queue') + overtaken'
    BY <1>0, <1>1, <2>1
  <2>3. oread # write_pos
    BY <1>0, <2>1, DistanceIs
  <2> QED
    <3>1. Len(queue') # Capacity
      BY <1>0, <1>1, CapacityAssumption DEF RingHoldsQueue
    <3> QED
      BY <2>2, <2>3, <3>1 DEF NeverUnderReports, LenSeen, EmptySeen
<1>5. CallsKnow'
  <2>1. ppc \in {"store", "publish"} => Len(queue') < Capacity
    BY <1>0, <1>1, CapacityAssumption DEF CallsKnow
  <2> QED
    BY <2>1 DEF CallsKnow, TypeOK
<1> QED
  BY <1>2, <1>3, <1>4, <1>5

(* The inductive invariant of the ring. *)
THEOREM RingInvariant == Spec => []IndInv
<1>1. IndInv /\ [Next]_vars => IndInv'
  <2> SUFFICES ASSUME IndInv, [Next]_vars PROVE IndInv'
    OBVIOUS
  <2>1. CASE UNCHANGED vars
    BY <2>1 DEF vars, producer, consumer, observer, IndInv, TypeOK, RingHoldsQueue, NeverUnderReports,
                CallsKnow, LenSeen, EmptySeen, FullSeen
  <2>2. CASE Next
    BY <2>2, LocalInv, LenCallInv, PushStoreInv, PushPublishInv, PopPublishInv DEF Next, Produce, Consume
  <2> QED
    BY <2>1, <2>2
<1> QED
  BY <1>1, InitInv, PTL DEF Spec

(* The slots between the two positions hold what was pushed and not popped, in order, across
   every wrap-around of the positions: no element is overwritten before it is popped. *)
THEOREM RingAlwaysHoldsQueue == Spec => []RingHoldsQueue
BY RingInvariant, PTL DEF IndInv

(* len, is_empty and is_full never report fewer elements than there are. *)
THEOREM LenNeverUnderReports == Spec => []NeverUnderReports
BY RingInvariant, PTL DEF IndInv

-----------------------------------------------------------------------------
(* push and pop are linearizable: the ring implements a bounded FIFO queue. *)
THEOREM RingImplementsFifo == Spec => ImplementsFifo
<1>1. Init => Fifo!Init
  BY DEF Init, Fifo!Init
<1>2. IndInv /\ [Next]_vars => [Fifo!Next]_(Fifo!fifoVars)
  <2> SUFFICES ASSUME IndInv, [Next]_vars
               PROVE  Fifo!Next \/ UNCHANGED <<queue, pval, pushed, (cpc # "idle"), popped>>
    BY DEF Fifo!fifoVars
  <2> USE DEF IndInv
  <2>1. CASE UNCHANGED vars
    BY <2>1 DEF vars, producer, consumer
  <2>2. ASSUME NEW v \in Value, PushCall(v) PROVE Fifo!InvokePush(v)
    BY <2>2 DEF PushCall, CallsKnow, Fifo!InvokePush, consumer
  <2>3. CASE PushLoadRead
    <3>1. CASE Full(write_pos, read_pos)
      <4>1. Len(queue) = Capacity
        BY <3>1, CapacityAssumption DEF Full, RingHoldsQueue, TypeOK
      <4>2. Fifo!Refuse
        BY <2>3, <3>1, <4>1 DEF PushLoadRead, CallsKnow, Fifo!Refuse, consumer
      <4> QED
        BY <4>2 DEF Fifo!Next
    <3>2. CASE ~Full(write_pos, read_pos)
      BY <2>3, <3>2 DEF PushLoadRead, consumer
    <3> QED
      BY <3>1, <3>2
  <2>4. CASE PushPublish
    <3>1. Fifo!Enqueue
      BY <2>4 DEF PushPublish, CallsKnow, Fifo!Enqueue, consumer
    <3> QED
      BY <3>1 DEF Fifo!Next
  <2>5. CASE PopCall
    <3>1. Fifo!InvokePop
      BY <2>5 DEF PopCall, Fifo!InvokePop, producer
    <3> QED
      BY <3>1 DEF Fifo!Next
  <2>6. CASE PopLoadWrite
    <3>1. CASE read_pos = write_pos
      <4>1. queue = <<>>
        BY <3>1, DistanceIs DEF RingHoldsQueue, TypeOK
      <4>2. Fifo!FindEmpty
        BY <2>6, <3>1, <4>1 DEF PopLoadWrite, Fifo!FindEmpty, producer
      <4> QED
        BY <4>2 DEF Fifo!Next
    <3>2. CASE read_pos # write_pos
      BY <2>6, <3>2 DEF PopLoadWrite, producer
    <3> QED
      BY <3>1, <3>2
  <2>7. CASE PopPublish
    <3>1. queue # <<>> /\ cval = Head(queue)
      BY <2>7 DEF PopPublish, RingHoldsQueue, TypeOK
    <3>2. Fifo!Dequeue
      BY <2>7, <3>1 DEF PopPublish, Fifo!Dequeue, producer
    <3> QED
      BY <3>2 DEF Fifo!Next
  <2>8. CASE PushStore \/ PopLoad \/ LenCall \/ LenReturn
    BY <2>8 DEF PushStore, PopLoad, LenCall, LenReturn, producer, consumer
  <2> QED
    BY <2>1, <2>2, <2>3, <2>4, <2>5, <2>6, <2>7, <2>8 DEF Next, Produce, Consume, Fifo!Next
<1> QED
  BY <1>1, <1>2, RingInvariant, PTL DEF Spec, ImplementsFifo, Fifo!Spec
=============================================================================
