--------------------------- MODULE PubSub_proofs ---------------------------
(***************************************************************************)
(* Proofs about publish-subscribe with one subscriber, for any number of   *)
(* publishers, chunks and loans: every chunk is in exactly one place, the  *)
(* loans are accounted for, no queue is ever full, and a Sample shows      *)
(* memory nobody writes.                                                   *)
(***************************************************************************)
EXTENDS PubSub, FiniteSetTheorems, TLAPS

-----------------------------------------------------------------------------
(* Queues without duplicates *)

(* Pushing what is not in a queue keeps it free of duplicates. *)
LEMMA PushOnce ==
    ASSUME NEW S, NEW q \in Seq(S), NEW c \in S
    PROVE  /\ Append(q, c) \in Seq(S)
           /\ Range(Append(q, c)) = Range(q) \union {c}
           /\ IsInjective(q) /\ c \notin Range(q) => IsInjective(Append(q, c))
<1>1. /\ Append(q, c) \in Seq(S) /\ Len(q) \in Nat
      /\ DOMAIN Append(q, c) = 1 .. Len(q) + 1 /\ DOMAIN q = 1 .. Len(q)
      /\ \A i \in 1 .. Len(q) : Append(q, c)[i] = q[i]
      /\ Append(q, c)[Len(q) + 1] = c
  OBVIOUS
<1>2. \A x : x \in Range(Append(q, c)) <=> x \in Range(q) \union {c}
  BY <1>1 DEF Range
<1>3. IsInjective(q) /\ c \notin Range(q) => IsInjective(Append(q, c))
  BY <1>1 DEF Range, IsInjective
<1> QED
  BY <1>1, <1>2, <1>3

(* Popping takes the head out of a queue without duplicates, and only it. *)
LEMMA PopOnce ==
    ASSUME NEW S, NEW q \in Seq(S), q # <<>>, IsInjective(q)
    PROVE  /\ Head(q) \in S /\ Head(q) \in Range(q)
           /\ Tail(q) \in Seq(S) /\ IsInjective(Tail(q))
           /\ Range(Tail(q)) = Range(q) \ {Head(q)}
<1>1. /\ Tail(q) \in Seq(S) /\ Len(q) \in Nat \ {0}
      /\ DOMAIN Tail(q) = 1 .. Len(q) - 1 /\ DOMAIN q = 1 .. Len(q)
      /\ \A i \in 1 .. Len(q) - 1 : Tail(q)[i] = q[i + 1]
      /\ Head(q) = q[1] /\ q[1] \in S
  OBVIOUS
<1>2. Head(q) \in Range(q)
  BY <1>1 DEF Range
<1>3. IsInjective(Tail(q))
  BY <1>1 DEF IsInjective
<1>4. ASSUME NEW x \in Range(Tail(q)) PROVE x \in Range(q) \ {Head(q)}
  BY <1>1 DEF IsInjective, Range
<1>5. ASSUME NEW x \in Range(q) \ {Head(q)} PROVE x \in Range(Tail(q))
  <2>1. PICK i \in 1 .. Len(q) : q[i] = x
    BY <1>1 DEF Range
  <2>2. i - 1 \in 1 .. Len(q) - 1 /\ Tail(q)[i - 1] = x
    BY <1>1, <1>5, <2>1
  <2> QED
    BY <1>1, <2>2 DEF Range
<1> QED
  BY <1>1, <1>2, <1>3, <1>4, <1>5

(* A queue without duplicates is no longer than the set its items are from. *)
LEMMA OnceIsShort ==
    ASSUME NEW S, IsFiniteSet(S), NEW q \in Seq(S), IsInjective(q)
    PROVE  Len(q) <= Cardinality(S)
<1>1. Len(q) \in Nat /\ q \in [1 .. Len(q) -> S]
  OBVIOUS
<1>2. \A i, j \in 1 .. Len(q) : q[i] = q[j] => i = j
  BY <1>1 DEF IsInjective
<1>3. IsFiniteSet(1 .. Len(q)) /\ Cardinality(1 .. Len(q)) = Len(q)
  BY <1>1, FS_Interval
<1>4. ~ Cardinality(S) < Cardinality(1 .. Len(q))
  BY <1>1, <1>2, <1>3, FS_PigeonHole
<1> QED
  BY <1>1, <1>3, <1>4, FS_CardinalityType

-----------------------------------------------------------------------------
(* Chunks that are out of the pool *)

LEMMA ChunkFinite == IsFiniteSet(Chunk) /\ Cardinality(Chunk) = BufferSize
BY FS_Interval, BufferAssumption DEF Chunk

(* What one allocation and one release do to the number of chunks out of the pool. *)
LEMMA InUse ==
    ASSUME NEW F \in SUBSET Chunk, NEW c \in Chunk
    PROVE  /\ Cardinality(Chunk \ F) \in Nat
           /\ c \in F => Cardinality(Chunk \ (F \ {c})) = Cardinality(Chunk \ F) + 1
           /\ c \notin F => /\ Cardinality(Chunk \ F) > 0
                            /\ Cardinality(Chunk \ (F \union {c})) = Cardinality(Chunk \ F) - 1
<1>1. IsFiniteSet(Chunk \ F)
  BY ChunkFinite, FS_Difference
<1>2. Cardinality(Chunk \ F) \in Nat
  BY <1>1, FS_CardinalityType
<1>3. CASE c \in F
  <2>1. Chunk \ (F \ {c}) = (Chunk \ F) \union {c}
    OBVIOUS
  <2> QED
    BY <1>1, <1>2, <1>3, <2>1, FS_AddElement
<1>4. CASE c \notin F
  <2>1. Chunk \ (F \union {c}) = (Chunk \ F) \ {c}
    OBVIOUS
  <2>2. Cardinality(Chunk \ F) # 0
    BY <1>1, <1>4, FS_EmptySet
  <2>3. Cardinality((Chunk \ F) \ {c}) = Cardinality(Chunk \ F) - 1
    BY <1>1, <1>4, FS_RemoveElement
  <2> QED
    BY <1>2, <1>4, <2>1, <2>2, <2>3
<1> QED
  BY <1>2, <1>3, <1>4

(* A step of one publisher leaves the accounts of the others as they are. *)
LEMMA OthersAccounted ==
    ASSUME LoansAccount, NEW p \in Pub, Accounted(p)',
           \A q \in Pub \ {p} : /\ loans'[q] = loans[q] /\ loan'[q] = loan[q] /\ free'[q] = free[q]
                                 /\ uncounted'[q] = uncounted[q] /\ mutex'[q] = mutex[q]
    PROVE  LoansAccount'
<1> SUFFICES ASSUME NEW q \in Pub, q # p PROVE Accounted(q)'
  BY DEF LoansAccount
<1>1. Accounted(q)
  BY DEF LoansAccount
<1> QED
  BY <1>1 DEF Accounted

-----------------------------------------------------------------------------
(* Moving a chunk *)

\* The step takes chunk c of p to a place of kind b, and moves no other.
MovesTo(s, p, c, b) ==
    \A q \in Pub, d \in Chunk, k \in Kind :
        At(s, q, d, k)' <=> IF q = p /\ d = c THEN k = b ELSE At(s, q, d, k)

(* A chunk that leaves one place for another, all others staying, keeps every chunk in a
   place of one kind. *)
LEMMA Moved ==
    ASSUME NEW s, Sub = {s}, OneKind, NEW p \in Pub, NEW c \in Chunk, NEW b \in Kind,
           MovesTo(s, p, c, b)
    PROVE  OneKind'
<1> SUFFICES ASSUME NEW q \in Pub, NEW d \in Chunk
             PROVE  \E k \in Kind : \A j \in Kind : At(s, q, d, j)' <=> j = k
  BY DEF OneKind
<1>1. CASE q = p /\ d = c
  BY <1>1 DEF MovesTo
<1>2. CASE ~(q = p /\ d = c)
  <2>1. PICK k \in Kind : \A j \in Kind : At(s, q, d, j) <=> j = k
    BY DEF OneKind
  <2> QED
    BY <1>2, <2>1 DEF MovesTo
<1> QED
  BY <1>1, <1>2

(* A step that leaves all of them where they are does too. *)
LEMMA Unmoved ==
    ASSUME NEW s, Sub = {s}, OneKind, OneOfKind, UNCHANGED <<free, loaned, out, sendq, held, retq, lost>>,
           \A p \in Pub : InHand(p)' = InHand(p)
    PROVE  OneKind' /\ OneOfKind'
<1>1. \A p \in Pub, c \in Chunk, k \in Kind : At(s, p, c, k)' <=> At(s, p, c, k)
  BY DEF At
<1> QED
  BY <1>1 DEF OneKind, OneOfKind

(* What a chunk's one place excludes. *)
LEMMA OnlyThere ==
    ASSUME NEW s, Sub = {s}, OneKind, NEW p \in Pub, NEW c \in Chunk, NEW k \in Kind, At(s, p, c, k)
    PROVE  \A j \in Kind : At(s, p, c, j) <=> j = k
BY DEF OneKind

-----------------------------------------------------------------------------
(* The steps *)

LEMMA InitInv == ASSUME NEW s, Sub = {s} PROVE Init => IndInv
<1> SUFFICES ASSUME Init PROVE IndInv
  OBVIOUS
<1> USE PortsAssumption, BufferAssumption DEF Init
<1>1. TypeOK
  BY DEF TypeOK, PortsTypeOK, LoansTypeOK, LocksTypeOK, QueuesTypeOK, Chunk, NoChunk
<1>2. ChunksInUse /\ ConnectedOnce /\ OneOfKind
  BY DEF ChunksInUse, ConnectedOnce, OneOfKind, IsInjective, Range, WiringFree
<1>3. OneKind
  <2>1. \A p \in Pub, c \in Chunk, k \in Kind : At(s, p, c, k) <=> k = "free"
    BY DEF At, Kind, InHand, Range, Chunk, NoChunk
  <2> QED
    BY <2>1 DEF OneKind, Kind
<1>4. LoansAccount
  <2>1. Chunk \ Chunk = {}
    OBVIOUS
  <2>2. Cardinality(Chunk \ Chunk) = 0
    BY <2>1, FS_EmptySet
  <2>3. \A p \in Pub : free[p] = Chunk /\ loans[p] = 0 /\ uncounted[p] = 0
    OBVIOUS
  <2> QED
    BY <2>2, <2>3 DEF LoansAccount, Accounted
<1> QED
  BY <1>1, <1>2, <1>3, <1>4 DEF IndInv

(* Creating and dropping ports moves no chunk. *)
LEMMA PortsInv ==
    ASSUME NEW s, Sub = {s}, IndInv,
           \/ \E p \in Pub : PublisherCreate(p) \/ PublisherDrop(p)
           \/ SubscriberCreate(s) \/ JoinStep(s) \/ SubscriberDrop(s)
    PROVE  IndInv'
<1> USE PortsAssumption DEF IndInv
<1>1. UNCHANGED <<sendq, retq, pool, samples, locks, polling, held, lost>>
  BY DEF PublisherCreate, PublisherDrop, SubscriberCreate, JoinStep, SubscriberConnect,
         SubscriberReady, SubscriberDrop
<1>2. /\ LoansTypeOK' /\ LocksTypeOK' /\ QueuesTypeOK'
      /\ ChunksInUse' /\ LoansAccount'
  BY <1>1 DEF TypeOK, LoansTypeOK, LocksTypeOK, QueuesTypeOK, ChunksInUse, LoansAccount,
              Accounted, pool, samples, locks
<1>3. OneKind' /\ OneOfKind'
  BY <1>1, Unmoved DEF InHand, pool, samples, locks
<1>4. PortsTypeOK' /\ ConnectedOnce'
  <2>1. ASSUME NEW p \in Pub, PublisherCreate(p) PROVE PortsTypeOK' /\ ConnectedOnce'
    <3>1. PortsTypeOK'
      BY <2>1 DEF TypeOK, PortsTypeOK, PublisherCreate
    <3>2. IsInjective(wiring')
      BY <2>1, PushOnce DEF TypeOK, PortsTypeOK, PublisherCreate, ConnectedOnce
    <3> QED
      BY <2>1, <3>1, <3>2 DEF PublisherCreate, ConnectedOnce, WiringFree
  <2>2. ASSUME NEW p \in Pub, PublisherDrop(p) PROVE PortsTypeOK' /\ ConnectedOnce'
    BY <2>2 DEF TypeOK, PortsTypeOK, PublisherDrop, ConnectedOnce, WiringFree
  <2>3. CASE SubscriberCreate(s)
    <3>1. PortsTypeOK'
      BY <2>3 DEF TypeOK, PortsTypeOK, SubscriberCreate
    <3>2. \A i \in 1 .. Len(wiring) : s \notin Range(channels[wiring[i]])
      BY <2>3 DEF TypeOK, PortsTypeOK, SubscriberCreate, ConnectedOnce
    <3> QED
      BY <2>3, <3>1, <3>2 DEF SubscriberCreate, ConnectedOnce, WiringFree
  <2>4. CASE SubscriberConnect(s)
    <3> DEFINE p == wiring[joining.at]
    <3>1. /\ wiring \in Seq(Pub) /\ channels \in [Pub -> Seq(Sub)] /\ conns \in [Sub -> Seq(Pub)]
          /\ joining \in [sub : Sub \union {NoSub}, at : Nat \ {0}]
      BY DEF TypeOK, PortsTypeOK
    <3>2. /\ joining.sub = s /\ joining.at \in 1 .. Len(wiring) /\ ~WiringFree
          /\ channels' = [channels EXCEPT ![p] = Append(channels[p], s)]
          /\ conns' = [conns EXCEPT ![s] = Append(conns[s], p)]
          /\ joining' = [joining EXCEPT !.at = joining.at + 1]
          /\ UNCHANGED <<wiring, pubLive, subLive, subMade>>
      BY <2>4, <3>1 DEF SubscriberConnect, WiringFree
    <3>3. p \in Pub /\ s \in Sub /\ \A i \in 1 .. Len(wiring) : wiring[i] \in Pub
      BY <3>1, <3>2
    <3>4. PortsTypeOK'
      <4>1. channels' \in [Pub -> Seq(Sub)] /\ conns' \in [Sub -> Seq(Pub)]
        BY <3>1, <3>2, <3>3
      <4>2. joining.at + 1 \in Nat \ {0}
        BY <3>1, <3>2
      <4>3. joining' \in [sub : Sub \union {NoSub}, at : Nat \ {0}]
        BY <3>1, <3>2, <4>2
      <4> QED
        BY <3>2, <4>1, <4>3 DEF TypeOK, PortsTypeOK
    <3>5. s \in subMade /\ \A i \in joining.at .. Len(wiring) : s \notin Range(channels[wiring[i]])
      BY <3>2 DEF ConnectedOnce
    <3>6. /\ IsInjective(Append(channels[p], s))
          /\ Range(Append(channels[p], s)) = Range(channels[p]) \union {s}
      <4>1. channels[p] \in Seq(Sub) /\ IsInjective(channels[p])
        BY <3>1, <3>3 DEF ConnectedOnce
      <4>2. joining.at \in joining.at .. Len(wiring)
        BY <3>1, <3>2
      <4>3. s \notin Range(channels[p])
        BY <3>5, <4>2
      <4> QED
        BY <3>3, <4>1, <4>3, PushOnce
    <3>7. \A q \in Pub : IsInjective(channels'[q]) /\ Range(channels'[q]) \subseteq subMade
      BY <3>1, <3>2, <3>3, <3>5, <3>6 DEF ConnectedOnce
    <3>8. \A i \in joining.at + 1 .. Len(wiring) : wiring[i] # p
      BY <3>1, <3>2 DEF ConnectedOnce, IsInjective
    <3>9. \A i \in joining.at + 1 .. Len(wiring) : s \notin Range(channels'[wiring[i]])
      <4>1. \A i \in joining.at + 1 .. Len(wiring) :
               i \in joining.at .. Len(wiring) /\ i \in 1 .. Len(wiring)
        BY <3>1, <3>2
      <4>2. \A i \in joining.at + 1 .. Len(wiring) : channels'[wiring[i]] = channels[wiring[i]]
        BY <3>1, <3>2, <3>3, <3>8, <4>1
      <4> QED
        BY <3>5, <4>1, <4>2
    <3>10. joining'.sub = s /\ joining'.at = joining.at + 1
      BY <3>1, <3>2
    <3> QED
      BY <3>2, <3>4, <3>5, <3>7, <3>9, <3>10 DEF ConnectedOnce
  <2>5. CASE SubscriberReady(s)
    BY <2>5 DEF TypeOK, PortsTypeOK, SubscriberReady, ConnectedOnce, WiringFree
  <2>6. CASE SubscriberDrop(s)
    BY <2>6 DEF TypeOK, PortsTypeOK, SubscriberDrop, ConnectedOnce, WiringFree
  <2> QED
    BY <2>1, <2>2, <2>3, <2>4, <2>5, <2>6 DEF JoinStep
<1> QED
  BY <1>2, <1>3, <1>4 DEF TypeOK

(* Steps of the ports that are running leave the wiring alone. *)
LEMMA WiringKept ==
    ASSUME IndInv, UNCHANGED shared
    PROVE  PortsTypeOK' /\ ConnectedOnce'
BY DEF IndInv, TypeOK, PortsTypeOK, ConnectedOnce, WiringFree, shared

(* loan() moves a chunk from the pool to the caller. *)
LEMMA LoanInv ==
    ASSUME NEW s, Sub = {s}, IndInv, NEW p \in Pub, LoanCheck(p) \/ LoanStep(p)
    PROVE  IndInv'
<1> USE PortsAssumption, BufferAssumption, LoanModAssumption
<1>1. UNCHANGED <<shared, sendq, retq, uncounted, locks, polling, held, lost>>
  BY DEF LoanCheck, LoanStep, LoanAllocate, LoanOutOfMemory, LoanReturn, pool, samples
<1>2. PortsTypeOK' /\ ConnectedOnce' /\ LocksTypeOK' /\ QueuesTypeOK'
  BY <1>1, WiringKept DEF IndInv, TypeOK, LocksTypeOK, QueuesTypeOK, locks
<1>3. TypeOK /\ ChunksInUse /\ OneKind /\ OneOfKind /\ LoansAccount
  BY DEF IndInv
<1>4. \A q \in Pub : InHand(q)' = InHand(q)
  BY <1>1 DEF InHand, locks
<1>5. CASE LoanCheck(p) \/ LoanOutOfMemory(p)
  <2>1. LoansTypeOK' /\ ChunksInUse' /\ LoansAccount'
    BY <1>1, <1>3, <1>5
    DEF LoanCheck, LoanOutOfMemory, TypeOK, LoansTypeOK, ChunksInUse, LoansAccount,
        Accounted, locks, pool
  <2>2. OneKind' /\ OneOfKind'
    BY <1>1, <1>3, <1>4, <1>5, Unmoved DEF LoanCheck, LoanOutOfMemory, pool
  <2> QED
    BY <1>2, <2>1, <2>2 DEF IndInv, TypeOK
<1>6. ASSUME NEW c \in Chunk, LoanAllocate(p, c) PROVE IndInv'
  <2>1. LoansTypeOK' /\ ChunksInUse'
    BY <1>1, <1>3, <1>6 DEF LoanAllocate, TypeOK, LoansTypeOK, ChunksInUse, locks, Chunk, NoChunk
  <2>2. c \in free[p] /\ loaned[p] = NoChunk /\ c # NoChunk
    BY <1>3, <1>6 DEF LoanAllocate, ChunksInUse, Chunk, NoChunk
  <2>3. \A k \in Kind : At(s, p, c, k) <=> k = "free"
    BY <1>3, <2>2, OnlyThere DEF At, Kind
  <2>4. MovesTo(s, p, c, "loaned")
    BY <1>1, <1>3, <1>4, <1>6, <2>2, <2>3
    DEF LoanAllocate, MovesTo, At, Kind, TypeOK, LoansTypeOK, Chunk, NoChunk
  <2>5. OneKind'
    <3>1. "loaned" \in Kind
      BY DEF Kind
    <3> QED
      BY <1>3, <2>4, <3>1, Moved
  <2>6. OneOfKind'
    BY <1>1, <1>3, <1>6 DEF OneOfKind, LoanAllocate
  <2>7. LoansAccount'
    <3>1. free[p] \in SUBSET Chunk
      BY <1>3 DEF TypeOK, LoansTypeOK
    <3>2. /\ Cardinality(Chunk \ (free[p] \ {c})) = Cardinality(Chunk \ free[p]) + 1
          /\ Cardinality(Chunk \ free[p]) \in Nat
      BY <2>2, <3>1, InUse
    <3> QED
      <4>1. /\ free' = [free EXCEPT ![p] = free[p] \ {c}] /\ free \in [Pub -> SUBSET Chunk]
            /\ loan' = [loan EXCEPT ![p] = "allocated"] /\ DOMAIN loan = Pub /\ loan[p] = "checked"
            /\ loans[p] \in Nat /\ uncounted[p] \in Nat
            /\ UNCHANGED <<loans, uncounted, mutex>>
        BY <1>1, <1>3, <1>6 DEF LoanAllocate, TypeOK, LoansTypeOK, locks
      <4>2. free'[p] = free[p] \ {c} /\ loan'[p] = "allocated"
        BY <4>1
      <4>3. Cardinality(Chunk \ free'[p]) = Cardinality(Chunk \ free[p]) + 1
        BY <3>2, <4>2
      <4>4. Accounted(p)
        BY <1>3 DEF LoansAccount
      <4>5. Accounted(p)'
        BY <3>2, <4>1, <4>2, <4>3, <4>4 DEF Accounted
      <4> QED
        BY <1>3, <4>1, <4>5, OthersAccounted
  <2> QED
    BY <1>2, <2>1, <2>5, <2>6, <2>7 DEF IndInv, TypeOK
<1>7. CASE LoanReturn(p)
  <2>a. loaned[p] \in Chunk
    BY <1>3, <1>7 DEF LoanReturn, ChunksInUse, TypeOK, LoansTypeOK
  <2>c. PICK c \in Chunk : c = loaned[p]
    BY <2>a
  <2>1. loaned[p] = c /\ loans[p] < MaxLoaned /\ loans[p] \in Nat
    BY <1>3, <1>7, <2>c DEF LoanReturn, ChunksInUse, TypeOK, LoansTypeOK
  <2>2. (loans[p] + 1) % LoanMod = loans[p] + 1
    BY <2>1
  <2>3. \A k \in Kind : At(s, p, c, k) <=> k = "loaned"
    BY <1>3, <2>1, OnlyThere DEF At, Kind
  <2>4. /\ out[p][c] = 0
        /\ out' = [out EXCEPT ![p] = [out[p] EXCEPT ![c] = 1]]
    <3>1. out \in [Pub -> [Chunk -> Nat]] /\ out' = [out EXCEPT ![p][c] = @ + 1]
      BY <1>3, <1>7, <2>c DEF LoanReturn, TypeOK, LoansTypeOK
    <3>2. ~(out[p][c] > 0)
      BY <2>3 DEF At, Kind
    <3>3. out[p][c] = 0
      BY <3>1, <3>2
    <3>4. out[p][c] + 1 = 1
      BY <3>3
    <3>5. out' = [out EXCEPT ![p] = [out[p] EXCEPT ![c] = out[p][c] + 1]]
      BY <3>1
    <3> QED
      BY <3>3, <3>4, <3>5
  <2>5. LoansTypeOK' /\ ChunksInUse'
    BY <1>1, <1>3, <1>7, <2>1, <2>2, <2>4
    DEF LoanReturn, TypeOK, LoansTypeOK, ChunksInUse, locks, NoChunk
  <2>6. MovesTo(s, p, c, "out")
    <3>1. /\ loaned' = [loaned EXCEPT ![p] = NoChunk] /\ loaned \in [Pub -> Chunk \union {NoChunk}]
          /\ out \in [Pub -> [Chunk -> Nat]] /\ NoChunk \notin Chunk /\ UNCHANGED free
      BY <1>3, <1>7 DEF LoanReturn, TypeOK, LoansTypeOK, Chunk, NoChunk
    <3>2. \A q \in Pub, d \in Chunk :
             /\ loaned'[q] = d <=> loaned[q] = d /\ ~(q = p /\ d = c)
             /\ out'[q][d] > 0 <=> out[q][d] > 0 \/ (q = p /\ d = c)
      BY <2>1, <2>4, <3>1
    <3> QED
      BY <1>1, <1>4, <2>1, <2>3, <3>1, <3>2 DEF MovesTo, At, Kind
  <2>7. OneKind'
    <3>1. "out" \in Kind
      BY DEF Kind
    <3> QED
      BY <1>3, <2>6, <3>1, Moved
  <2>8. OneOfKind'
    BY <1>1, <1>3, <2>1, <2>4 DEF OneOfKind, TypeOK, LoansTypeOK
  <2>9. LoansAccount'
    BY <1>1, <1>3, <1>7, <2>1, <2>2
    DEF LoansAccount, Accounted, LoanReturn, TypeOK, LoansTypeOK, locks
  <2> QED
    BY <1>2, <2>5, <2>7, <2>8, <2>9 DEF IndInv, TypeOK
<1> QED
  BY <1>5, <1>6, <1>7 DEF LoanStep

(* A release that is still to be counted is in the count: the counter does not wrap. *)
LEMMA Counted ==
    ASSUME NEW s, Sub = {s}, IndInv, NEW p \in Pub, uncounted[p] > 0 \/ mutex[p] = "count"
    PROVE  loans[p] > 0 /\ Decrement(loans[p]) = loans[p] - 1
<1>1. /\ Accounted(p) /\ free[p] \in SUBSET Chunk /\ loans[p] \in 0 .. MaxLoaned
      /\ uncounted[p] \in Nat /\ OneKind
  BY DEF IndInv, LoansAccount, TypeOK, LoansTypeOK
<1>2. Cardinality(Chunk \ free[p]) \in Nat
  BY <1>1, ChunkFinite, FS_Difference, FS_CardinalityType
<1>3. loan[p] = "allocated" => Cardinality(Chunk \ free[p]) > 0
  <2> SUFFICES ASSUME loan[p] = "allocated" PROVE Cardinality(Chunk \ free[p]) > 0
    OBVIOUS
  <2>1. loaned[p] \in Chunk
    BY DEF IndInv, ChunksInUse, TypeOK, LoansTypeOK
  <2>2. PICK c \in Chunk : c = loaned[p]
    BY <2>1
  <2>3. \A k \in Kind : At(s, p, c, k) <=> k = "loaned"
    BY <1>1, <2>2, OnlyThere DEF At, Kind
  <2>4. c \notin free[p]
    BY <2>3 DEF At, Kind
  <2> QED
    BY <1>1, <2>4, InUse
<1>4. loans[p] > 0
  BY <1>1, <1>2, <1>3 DEF Accounted
<1> QED
  BY <1>1, <1>4, BufferAssumption, LoanModAssumption DEF Decrement

(* Dropping a SampleMut unsent gives its chunk back to the pool, and then counts it. *)
LEMMA SampleMutInv ==
    ASSUME NEW s, Sub = {s}, IndInv, NEW p \in Pub,
           SampleMutDropCount(p) \/ \E c \in Chunk : SampleMutDrop(p, c)
    PROVE  IndInv'
<1> USE PortsAssumption, BufferAssumption, LoanModAssumption
<1>1. UNCHANGED <<shared, sendq, retq, loan, loaned, locks, polling, held, lost>>
  BY DEF SampleMutDropCount, SampleMutDrop
<1>2. PortsTypeOK' /\ ConnectedOnce' /\ LocksTypeOK' /\ QueuesTypeOK'
  BY <1>1, WiringKept DEF IndInv, TypeOK, LocksTypeOK, QueuesTypeOK, locks
<1>3. TypeOK /\ ChunksInUse /\ OneKind /\ OneOfKind /\ LoansAccount
  BY DEF IndInv
<1>4. \A q \in Pub : InHand(q)' = InHand(q)
  BY <1>1 DEF InHand, locks
<1>5. Accounted(p) /\ free[p] \in SUBSET Chunk /\ loans[p] \in 0 .. MaxLoaned /\ uncounted[p] \in Nat
  BY <1>3 DEF LoansAccount, TypeOK, LoansTypeOK
<1>6. CASE SampleMutDropCount(p)
  <2>2. loans[p] > 0 /\ Decrement(loans[p]) = loans[p] - 1
    BY <1>6, Counted DEF SampleMutDropCount
  <2>3. LoansTypeOK' /\ ChunksInUse'
    BY <1>1, <1>3, <1>5, <1>6, <2>2
    DEF SampleMutDropCount, TypeOK, LoansTypeOK, ChunksInUse, locks
  <2>4. OneKind' /\ OneOfKind'
    BY <1>1, <1>3, <1>4, <1>6, Unmoved DEF SampleMutDropCount
  <2>5. LoansAccount'
    <3>1. /\ loans' = [loans EXCEPT ![p] = loans[p] - 1] /\ loans \in [Pub -> 0 .. MaxLoaned]
          /\ uncounted' = [uncounted EXCEPT ![p] = uncounted[p] - 1] /\ uncounted \in [Pub -> Nat]
          /\ UNCHANGED <<free, loan, mutex>>
      BY <1>1, <1>3, <1>6, <2>2 DEF SampleMutDropCount, TypeOK, LoansTypeOK, locks
    <3>2. Cardinality(Chunk \ free[p]) \in Nat
      BY <1>5, ChunkFinite, FS_Difference, FS_CardinalityType
    <3>3. Accounted(p)'
      BY <1>5, <3>1, <3>2 DEF Accounted
    <3> QED
      BY <1>3, <3>1, <3>3, OthersAccounted
  <2> QED
    BY <1>2, <2>3, <2>4, <2>5 DEF IndInv, TypeOK
<1>7. ASSUME NEW c \in Chunk, SampleMutDrop(p, c) PROVE IndInv'
  <2>1. /\ out[p][c] = 1 /\ out \in [Pub -> [Chunk -> Nat]] /\ free \in [Pub -> SUBSET Chunk]
        /\ out' = [out EXCEPT ![p] = [out[p] EXCEPT ![c] = 0]]
        /\ free' = [free EXCEPT ![p] = free[p] \union {c}]
        /\ uncounted' = [uncounted EXCEPT ![p] = uncounted[p] + 1] /\ uncounted \in [Pub -> Nat]
        /\ UNCHANGED loans
    <3>1. /\ out \in [Pub -> [Chunk -> Nat]] /\ out[p][c] \in Nat /\ out[p][c] > 0 /\ out[p][c] <= 1
          /\ out' = [out EXCEPT ![p] = [out[p] EXCEPT ![c] = out[p][c] - 1]]
      BY <1>3, <1>7 DEF SampleMutDrop, OneOfKind, TypeOK, LoansTypeOK
    <3>2. out[p][c] = 1 /\ out[p][c] - 1 = 0
      BY <3>1
    <3> QED
      BY <1>3, <1>7, <3>1, <3>2 DEF SampleMutDrop, TypeOK, LoansTypeOK
  <2>2. \A k \in Kind : At(s, p, c, k) <=> k = "out"
    <3>1. "out" \in Kind /\ At(s, p, c, "out")
      BY <2>1 DEF At, Kind
    <3> QED
      BY <1>3, <3>1, OnlyThere
  <2>3. LoansTypeOK' /\ ChunksInUse'
    BY <1>1, <1>3, <2>1 DEF TypeOK, LoansTypeOK, ChunksInUse, locks
  <2>4. MovesTo(s, p, c, "free")
    <3>1. \A q \in Pub, d \in Chunk :
             /\ d \in free'[q] <=> d \in free[q] \/ (q = p /\ d = c)
             /\ out'[q][d] > 0 <=> out[q][d] > 0 /\ ~(q = p /\ d = c)
      BY <2>1
    <3> QED
      BY <1>1, <1>4, <2>2, <3>1 DEF MovesTo, At, Kind
  <2>5. OneKind'
    <3>1. "free" \in Kind
      BY DEF Kind
    <3> QED
      BY <1>3, <2>4, <3>1, Moved
  <2>6. OneOfKind'
    BY <1>1, <1>3, <2>1 DEF OneOfKind
  <2>7. Accounted(p)'
    <3>1. c \notin free[p]
      BY <2>2 DEF At, Kind
    <3>2. free'[p] = free[p] \union {c} /\ uncounted'[p] = uncounted[p] + 1
      BY <2>1
    <3>3. /\ Cardinality(Chunk \ free[p]) \in Nat
          /\ Cardinality(Chunk \ free'[p]) = Cardinality(Chunk \ free[p]) - 1
      BY <1>5, <3>1, <3>2, InUse
    <3> QED
      BY <1>1, <1>5, <2>1, <3>2, <3>3 DEF Accounted, locks
  <2>8. LoansAccount'
    BY <1>1, <1>3, <2>1, <2>7, OthersAccounted DEF locks
  <2> QED
    BY <1>2, <2>3, <2>5, <2>6, <2>8 DEF IndInv, TypeOK
<1> QED
  BY <1>6, <1>7

(* With one subscriber a publisher has at most one channel, and it leads to it. *)
LEMMA OneChannel ==
    ASSUME NEW s, Sub = {s}, IndInv, NEW p \in Pub
    PROVE  /\ Len(channels[p]) <= 1
           /\ \A i \in 1 .. Len(channels[p]) : i = 1 /\ channels[p][i] = s
<1>1. channels[p] \in Seq(Sub) /\ IsInjective(channels[p])
  BY DEF IndInv, TypeOK, PortsTypeOK, ConnectedOnce
<1>2. Len(channels[p]) <= Cardinality(Sub)
  BY <1>1, FS_Singleton, OnceIsShort
<1>3. Cardinality(Sub) = 1
  BY FS_Singleton
<1>4. Len(channels[p]) \in Nat /\ \A i \in 1 .. Len(channels[p]) : channels[p][i] = s
  BY <1>1
<1> QED
  BY <1>2, <1>3, <1>4

(* SampleMut::send takes the chunk in hand ... *)
LEMMA SendBeginInv ==
    ASSUME NEW s, Sub = {s}, IndInv, NEW p \in Pub, NEW c \in Chunk, SendBegin(p, c)
    PROVE  IndInv'
<1>1. /\ UNCHANGED <<shared, sendq, retq, pool, loan, loaned, uncounted, polling, held, lost>>
      /\ mutex[p] = "free" /\ mutex' = [mutex EXCEPT ![p] = "send"]
      /\ cursor' = [cursor EXCEPT ![p] = 1] /\ hand' = [hand EXCEPT ![p] = c]
  BY DEF SendBegin, Lock
<1>2. TypeOK /\ ChunksInUse /\ OneKind /\ OneOfKind /\ LoansAccount
  BY DEF IndInv
<1>3. /\ out[p][c] = 1 /\ out \in [Pub -> [Chunk -> Nat]]
      /\ out' = [out EXCEPT ![p] = [out[p] EXCEPT ![c] = 0]]
  <2>1. /\ out \in [Pub -> [Chunk -> Nat]] /\ out[p][c] \in Nat /\ out[p][c] > 0 /\ out[p][c] <= 1
        /\ out' = [out EXCEPT ![p] = [out[p] EXCEPT ![c] = out[p][c] - 1]]
    BY <1>2 DEF SendBegin, OneOfKind, TypeOK, LoansTypeOK
  <2>2. out[p][c] = 1 /\ out[p][c] - 1 = 0
    BY <2>1
  <2> QED
    BY <2>1, <2>2
<1>4. PortsTypeOK' /\ ConnectedOnce' /\ QueuesTypeOK' /\ LoansTypeOK'
  BY <1>1, <1>2, <1>3, WiringKept DEF TypeOK, LoansTypeOK, QueuesTypeOK, pool
<1>5. LocksTypeOK' /\ ChunksInUse'
  BY <1>1, <1>2, BufferAssumption DEF TypeOK, LocksTypeOK, ChunksInUse, Chunk, NoChunk, pool
<1>6. \A k \in Kind : At(s, p, c, k) <=> k = "out"
  <2>1. "out" \in Kind /\ At(s, p, c, "out")
    BY <1>3 DEF At, Kind
  <2> QED
    BY <1>2, <2>1, OnlyThere
<1>7. \A q \in Pub, d \in Chunk :
         /\ InHand(q)' = d <=> InHand(q) = d \/ (q = p /\ d = c)
         /\ out'[q][d] > 0 <=> out[q][d] > 0 /\ ~(q = p /\ d = c)
  <2>1. InHand(p) = NoChunk /\ InHand(p)' = c /\ NoChunk \notin Chunk
    BY <1>1, <1>2 DEF InHand, ChunksInUse, TypeOK, LocksTypeOK, Chunk, NoChunk
  <2>2. \A q \in Pub \ {p} : InHand(q)' = InHand(q)
    BY <1>1, <1>2 DEF InHand, TypeOK, LocksTypeOK
  <2> QED
    BY <1>3, <2>1, <2>2
<1>8. MovesTo(s, p, c, "hand")
  BY <1>1, <1>6, <1>7 DEF MovesTo, At, Kind, pool
<1>9. OneKind'
  <2>1. "hand" \in Kind
    BY DEF Kind
  <2> QED
    BY <1>2, <1>8, <2>1, Moved
<1>10. OneOfKind'
  BY <1>1, <1>2, <1>3 DEF OneOfKind
<1>11. LoansAccount'
  BY <1>1, <1>2 DEF LoansAccount, Accounted, TypeOK, LocksTypeOK, pool
<1> QED
  BY <1>4, <1>5, <1>9, <1>10, <1>11 DEF IndInv, TypeOK

(* ... and ends with it in the channel, or lost when there is none or it is full. *)
LEMMA SendInv ==
    ASSUME NEW s, Sub = {s}, IndInv, NEW p \in Pub, SendStep(p)
    PROVE  IndInv'
<1>1. UNCHANGED <<shared, retq, pool, samples, polling, held>> /\ mutex[p] = "send"
  BY DEF SendStep, SendPush, SendReturn
<1>2. TypeOK /\ ChunksInUse /\ OneKind /\ OneOfKind /\ LoansAccount
  BY DEF IndInv
<1>3. PortsTypeOK' /\ ConnectedOnce' /\ LoansTypeOK'
  BY <1>1, <1>2, WiringKept DEF TypeOK, LoansTypeOK, pool, samples
<1>4. hand[p] \in Chunk
  BY <1>1, <1>2 DEF ChunksInUse, TypeOK, LocksTypeOK
<1>c. PICK c \in Chunk : c = hand[p]
  BY <1>4
<1>5. NoChunk \notin Chunk
  BY DEF Chunk, NoChunk
<1>6. cursor[p] = 1 => \A k \in Kind : At(s, p, c, k) <=> k = "hand"
  <2> SUFFICES ASSUME cursor[p] = 1 PROVE \A k \in Kind : At(s, p, c, k) <=> k = "hand"
    OBVIOUS
  <2>1. "hand" \in Kind /\ At(s, p, c, "hand")
    BY <1>c DEF At, Kind, InHand
  <2> QED
    BY <1>2, <2>1, OnlyThere
<1>7. /\ sendq \in [Pub -> [Sub -> Seq(Chunk)]] /\ cursor \in [Pub -> Nat \ {0}]
      /\ mutex \in [Pub -> {"free", "send", "reclaim", "deallocate", "count"}]
      /\ hand \in [Pub -> Chunk \union {NoChunk}] /\ lost \in [Pub -> SUBSET Chunk]
  BY <1>2 DEF TypeOK, LocksTypeOK, QueuesTypeOK
<1>8. ASSUME sendq' = [sendq EXCEPT ![p][s] = Append(@, hand[p])], cursor[p] = 1,
             cursor' = [cursor EXCEPT ![p] = @ + 1], UNCHANGED <<mutex, hand, lost>>
      PROVE  IndInv'
  <2>1. LocksTypeOK' /\ ChunksInUse' /\ LoansAccount'
    BY <1>1, <1>2, <1>8 DEF TypeOK, LocksTypeOK, ChunksInUse, LoansAccount, Accounted, pool, samples
  <2>2. sendq' = [sendq EXCEPT ![p] = [sendq[p] EXCEPT ![s] = Append(sendq[p][s], c)]]
    BY <1>8, <1>c
  <2>3. c \notin Range(sendq[p][s]) /\ sendq[p][s] \in Seq(Chunk) /\ IsInjective(sendq[p][s])
    BY <1>2, <1>6, <1>7, <1>8 DEF At, Kind, OneOfKind
  <2>4. /\ Append(sendq[p][s], c) \in Seq(Chunk) /\ IsInjective(Append(sendq[p][s], c))
        /\ Range(Append(sendq[p][s], c)) = Range(sendq[p][s]) \union {c}
    BY <2>3, PushOnce
  <2>5. QueuesTypeOK' /\ OneOfKind'
    BY <1>1, <1>2, <1>7, <2>2, <2>4 DEF TypeOK, QueuesTypeOK, OneOfKind, samples
  <2>6. \A q \in Pub, d \in Chunk :
           /\ d \in Range(sendq'[q][s]) <=> d \in Range(sendq[q][s]) \/ (q = p /\ d = c)
           /\ InHand(q)' = d <=> InHand(q) = d /\ ~(q = p /\ d = c)
    <3>1. InHand(p) = c /\ InHand(p)' = NoChunk
      BY <1>1, <1>7, <1>8, <1>c DEF InHand
    <3>2. \A q \in Pub \ {p} : InHand(q)' = InHand(q) /\ sendq'[q][s] = sendq[q][s]
      BY <1>7, <1>8, <2>2 DEF InHand
    <3>3. sendq'[p][s] = Append(sendq[p][s], c)
      BY <1>7, <2>2
    <3> QED
      BY <1>5, <2>4, <3>1, <3>2, <3>3
  <2>7. MovesTo(s, p, c, "sent")
    BY <1>1, <1>6, <1>8, <2>6 DEF MovesTo, At, Kind, pool, samples
  <2>8. "sent" \in Kind
    BY DEF Kind
  <2>9. OneKind'
    BY <1>2, <2>7, <2>8, Moved
  <2> QED
    BY <1>3, <2>1, <2>5, <2>9 DEF IndInv, TypeOK
<1>9. ASSUME EndSend(p), UNCHANGED sendq PROVE IndInv'
  <2>1. /\ mutex' = [mutex EXCEPT ![p] = "free"] /\ cursor' = [cursor EXCEPT ![p] = 1]
        /\ hand' = [hand EXCEPT ![p] = NoChunk]
        /\ lost' = [lost EXCEPT ![p] = IF cursor[p] = 1 THEN lost[p] \union {c} ELSE lost[p]]
    BY <1>9, <1>c DEF EndSend, Lock
  <2>2. LocksTypeOK' /\ QueuesTypeOK' /\ ChunksInUse' /\ LoansAccount' /\ OneOfKind'
    <3>1. LocksTypeOK'
      BY <1>7, <1>c, <2>1 DEF LocksTypeOK
    <3>2. QueuesTypeOK' /\ OneOfKind'
      BY <1>1, <1>2, <1>9 DEF TypeOK, QueuesTypeOK, OneOfKind, samples
    <3>3. ChunksInUse'
      BY <1>1, <1>2, <1>7, <2>1 DEF ChunksInUse, pool, samples
    <3>4. LoansAccount'
      BY <1>1, <1>2, <1>7, <2>1 DEF LoansAccount, Accounted, pool, samples
    <3> QED
      BY <3>1, <3>2, <3>3, <3>4
  <2>3. \A q \in Pub \ {p} : InHand(q)' = InHand(q) /\ lost'[q] = lost[q]
    BY <1>7, <2>1 DEF InHand
  <2>4. InHand(p)' = NoChunk
    BY <1>7, <2>1 DEF InHand
  <2>5. OneKind'
    <3>1. CASE cursor[p] = 1
      <4>1. InHand(p) = c /\ lost'[p] = lost[p] \union {c}
        BY <1>7, <1>c, <2>1, <3>1 DEF InHand
      <4>2. MovesTo(s, p, c, "lost")
        BY <1>1, <1>5, <1>6, <1>9, <2>3, <2>4, <3>1, <4>1 DEF MovesTo, At, Kind, pool, samples
      <4>3. "lost" \in Kind
        BY DEF Kind
      <4> QED
        BY <1>2, <4>2, <4>3, Moved
    <3>2. CASE cursor[p] # 1
      <4>1. UNCHANGED lost /\ InHand(p) = NoChunk
        BY <1>1, <1>7, <2>1, <3>2 DEF InHand
      <4> QED
        BY <1>1, <1>2, <1>9, <2>3, <2>4, <4>1, Unmoved DEF pool, samples
    <3> QED
      BY <3>1, <3>2
  <2> QED
    BY <1>3, <2>2, <2>5 DEF IndInv, TypeOK
<1>10. CASE SendPush(p)
  <2>1. cursor[p] = 1 /\ channels[p][cursor[p]] = s
    <3>1. channels[p] \in Seq(Sub) /\ cursor[p] \in Nat \ {0} /\ cursor[p] <= Len(channels[p])
      BY <1>2, <1>7, <1>10 DEF SendPush, TypeOK, PortsTypeOK
    <3>2. cursor[p] \in 1 .. Len(channels[p])
      BY <3>1
    <3> QED
      BY <3>2, OneChannel
  <2> QED
    BY <1>8, <1>9, <1>10, <2>1 DEF SendPush
<1>11. CASE SendReturn(p)
  BY <1>9, <1>11 DEF SendReturn
<1> QED
  BY <1>10, <1>11 DEF SendStep

(* receive() moves a chunk from the send queue into a Sample. *)
LEMMA ReceiveInv ==
    ASSUME NEW s, Sub = {s}, IndInv, ReceiveCall(s) \/ ReceiveStep(s)
    PROVE  IndInv'
<1>1. UNCHANGED <<shared, retq, pool, samples, locks, lost>>
  BY DEF ReceiveCall, ReceiveStep, ReceivePoll, ReceiveNone
<1>2. TypeOK /\ ChunksInUse /\ OneKind /\ OneOfKind /\ LoansAccount
  BY DEF IndInv
<1>3. /\ PortsTypeOK' /\ ConnectedOnce' /\ LoansTypeOK' /\ LocksTypeOK' /\ ChunksInUse'
      /\ LoansAccount'
  BY <1>1, <1>2, WiringKept
  DEF TypeOK, LoansTypeOK, LocksTypeOK, ChunksInUse, LoansAccount, Accounted, pool, samples, locks
<1>4. \A q \in Pub : InHand(q)' = InHand(q)
  BY <1>1 DEF InHand, locks
<1>5. /\ polling \in [Sub -> Nat] /\ sendq \in [Pub -> [Sub -> Seq(Chunk)]]
      /\ retq \in [Pub -> [Sub -> Seq(Chunk)]] /\ held \in [Sub -> [Pub -> [Chunk -> Nat]]]
  BY <1>2 DEF TypeOK, QueuesTypeOK
<1>6. ASSUME UNCHANGED <<sendq, held>>, polling' \in [Sub -> Nat] PROVE IndInv'
  <2>1. QueuesTypeOK'
    BY <1>1, <1>5, <1>6 DEF QueuesTypeOK
  <2>2. OneKind' /\ OneOfKind'
    BY <1>1, <1>2, <1>4, <1>6, Unmoved DEF pool, samples
  <2> QED
    BY <1>3, <2>1, <2>2 DEF IndInv, TypeOK
<1>7. ASSUME NEW p \in Pub, sendq[p][s] # <<>>,
             sendq' = [sendq EXCEPT ![p][s] = Tail(@)],
             held' = [held EXCEPT ![s][p][Head(sendq[p][s])] = @ + 1],
             polling' = [polling EXCEPT ![s] = 0]
      PROVE  IndInv'
  <2>1. sendq[p][s] \in Seq(Chunk) /\ IsInjective(sendq[p][s]) /\ s \in Sub
    BY <1>2, <1>5 DEF OneOfKind
  <2>2. /\ Head(sendq[p][s]) \in Chunk /\ Head(sendq[p][s]) \in Range(sendq[p][s])
        /\ Tail(sendq[p][s]) \in Seq(Chunk) /\ IsInjective(Tail(sendq[p][s]))
        /\ Range(Tail(sendq[p][s])) = Range(sendq[p][s]) \ {Head(sendq[p][s])}
    BY <1>7, <2>1, PopOnce
  <2>c. PICK c \in Chunk : c = Head(sendq[p][s])
    BY <2>2
  <2>3. \A k \in Kind : At(s, p, c, k) <=> k = "sent"
    <3>1. "sent" \in Kind /\ At(s, p, c, "sent")
      BY <2>2, <2>c DEF At, Kind
    <3> QED
      BY <1>2, <3>1, OnlyThere
  <2>4. held' = [held EXCEPT ![s] = [held[s] EXCEPT ![p] = [held[s][p] EXCEPT ![c] = 1]]]
    <3>1. ~(held[s][p][c] > 0)
      BY <2>3 DEF At, Kind
    <3>2. held[s][p][c] + 1 = 1
      BY <1>5, <2>1, <3>1
    <3>3. held' = [held EXCEPT ![s] = [held[s] EXCEPT ![p] =
                     [held[s][p] EXCEPT ![c] = held[s][p][c] + 1]]]
      BY <1>7, <2>c
    <3> QED
      BY <3>2, <3>3
  <2>5. sendq' = [sendq EXCEPT ![p] = [sendq[p] EXCEPT ![s] = Tail(sendq[p][s])]]
    BY <1>7
  <2>6. QueuesTypeOK' /\ OneOfKind'
    <3>1. QueuesTypeOK'
      <4>1. sendq' \in [Pub -> [Sub -> Seq(Chunk)]]
        BY <1>5, <2>1, <2>2, <2>5
      <4>2. held' \in [Sub -> [Pub -> [Chunk -> Nat]]]
        BY <1>5, <2>1, <2>4
      <4> QED
        BY <1>1, <1>5, <1>7, <2>1, <4>1, <4>2 DEF QueuesTypeOK
    <3>2. \A q \in Pub : IsInjective(sendq'[q][s])
      BY <1>2, <1>5, <2>1, <2>2, <2>5 DEF OneOfKind
    <3>3. \A q \in Pub, d \in Chunk : held'[s][q][d] = IF q = p /\ d = c THEN 1 ELSE held[s][q][d]
      BY <1>5, <2>1, <2>4
    <3> QED
      BY <1>1, <1>2, <3>1, <3>2, <3>3 DEF OneOfKind, samples
  <2>7. \A q \in Pub, d \in Chunk :
           /\ d \in Range(sendq'[q][s]) <=> d \in Range(sendq[q][s]) /\ ~(q = p /\ d = c)
           /\ held'[s][q][d] > 0 <=> held[s][q][d] > 0 \/ (q = p /\ d = c)
    <3>1. sendq'[p][s] = Tail(sendq[p][s]) /\ \A q \in Pub \ {p} : sendq'[q][s] = sendq[q][s]
      BY <1>5, <2>1, <2>5
    <3>2. \A q \in Pub, d \in Chunk : held'[s][q][d] = IF q = p /\ d = c THEN 1 ELSE held[s][q][d]
      BY <1>5, <2>1, <2>4
    <3>3. ASSUME NEW q \in Pub, NEW d \in Chunk
          PROVE  d \in Range(sendq'[q][s]) <=> d \in Range(sendq[q][s]) /\ ~(q = p /\ d = c)
      BY <2>2, <2>c, <3>1
    <3>4. 1 > 0
      OBVIOUS
    <3> QED
      BY <3>2, <3>3, <3>4
  <2>8. MovesTo(s, p, c, "held")
    BY <1>1, <1>4, <2>3, <2>7 DEF MovesTo, At, Kind, pool, samples
  <2>9. "held" \in Kind
    BY DEF Kind
  <2>10. OneKind'
    BY <1>2, <2>8, <2>9, Moved
  <2> QED
    BY <1>3, <2>6, <2>10 DEF IndInv, TypeOK
<1>8. CASE ReceiveCall(s)
  BY <1>5, <1>6, <1>8 DEF ReceiveCall
<1>9. CASE ReceiveNone(s)
  BY <1>5, <1>6, <1>9 DEF ReceiveNone
<1>10. CASE ReceivePoll(s)
  <2>1. conns[s] \in Seq(Pub) /\ polling[s] \in 1 .. Len(conns[s])
    BY <1>2, <1>5, <1>10 DEF ReceivePoll, TypeOK, PortsTypeOK
  <2>2. conns[s][polling[s]] \in Pub
    BY <2>1
  <2>p. PICK p \in Pub : p = conns[s][polling[s]]
    BY <2>2
  <2>3. CASE sendq[p][s] # <<>>
    BY <1>7, <1>10, <2>p, <2>3 DEF ReceivePoll
  <2>4. CASE sendq[p][s] = <<>>
    BY <1>5, <1>6, <1>10, <2>p, <2>4 DEF ReceivePoll
  <2> QED
    BY <2>3, <2>4
<1> QED
  BY <1>8, <1>9, <1>10 DEF ReceiveStep

(* Dropping a Sample moves its chunk to the return queue. *)
LEMMA SampleDropInv ==
    ASSUME NEW s, Sub = {s}, IndInv, NEW p \in Pub, NEW c \in Chunk, SampleDrop(s, p, c)
    PROVE  IndInv'
<1>1. UNCHANGED <<shared, sendq, pool, samples, locks, polling, lost>>
  BY DEF SampleDrop
<1>2. TypeOK /\ ChunksInUse /\ OneKind /\ OneOfKind /\ LoansAccount
  BY DEF IndInv
<1>3. /\ PortsTypeOK' /\ ConnectedOnce' /\ LoansTypeOK' /\ LocksTypeOK' /\ ChunksInUse'
      /\ LoansAccount'
  BY <1>1, <1>2, WiringKept
  DEF TypeOK, LoansTypeOK, LocksTypeOK, ChunksInUse, LoansAccount, Accounted, pool, samples, locks
<1>4. \A q \in Pub : InHand(q)' = InHand(q)
  BY <1>1 DEF InHand, locks
<1>5. /\ sendq \in [Pub -> [Sub -> Seq(Chunk)]] /\ polling \in [Sub -> Nat] /\ s \in Sub
      /\ retq \in [Pub -> [Sub -> Seq(Chunk)]] /\ held \in [Sub -> [Pub -> [Chunk -> Nat]]]
  BY <1>2 DEF TypeOK, QueuesTypeOK
<1>6. /\ held[s][p][c] = 1
      /\ held' = [held EXCEPT ![s] = [held[s] EXCEPT ![p] = [held[s][p] EXCEPT ![c] = 0]]]
  <2>1. held[s][p][c] \in Nat /\ held[s][p][c] > 0 /\ held[s][p][c] <= 1
    BY <1>2, <1>5 DEF SampleDrop, OneOfKind
  <2>2. held[s][p][c] = 1 /\ held[s][p][c] - 1 = 0
    BY <2>1
  <2>3. held' = [held EXCEPT ![s] = [held[s] EXCEPT ![p] =
                   [held[s][p] EXCEPT ![c] = held[s][p][c] - 1]]]
    BY DEF SampleDrop
  <2> QED
    BY <2>2, <2>3
<1>7. \A k \in Kind : At(s, p, c, k) <=> k = "held"
  <2>1. "held" \in Kind /\ At(s, p, c, "held")
    BY <1>6 DEF At, Kind
  <2> QED
    BY <1>2, <2>1, OnlyThere
<1>8. /\ retq' = [retq EXCEPT ![p] = [retq[p] EXCEPT ![s] = Append(retq[p][s], c)]]
      /\ c \notin Range(retq[p][s]) /\ retq[p][s] \in Seq(Chunk) /\ IsInjective(retq[p][s])
  BY <1>2, <1>5, <1>7 DEF SampleDrop, At, Kind, OneOfKind
<1>9. /\ Append(retq[p][s], c) \in Seq(Chunk) /\ IsInjective(Append(retq[p][s], c))
      /\ Range(Append(retq[p][s], c)) = Range(retq[p][s]) \union {c}
  BY <1>8, PushOnce
<1>10. QueuesTypeOK' /\ OneOfKind'
  <2>1. QueuesTypeOK'
    BY <1>1, <1>5, <1>6, <1>8, <1>9 DEF QueuesTypeOK
  <2>2. \A q \in Pub : IsInjective(retq'[q][s])
    BY <1>2, <1>5, <1>8, <1>9 DEF OneOfKind
  <2>3. \A q \in Pub, d \in Chunk : held'[s][q][d] = IF q = p /\ d = c THEN 0 ELSE held[s][q][d]
    BY <1>5, <1>6
  <2> QED
    BY <1>1, <1>2, <2>1, <2>2, <2>3 DEF OneOfKind, samples
<1>11. \A q \in Pub, d \in Chunk :
          /\ d \in Range(retq'[q][s]) <=> d \in Range(retq[q][s]) \/ (q = p /\ d = c)
          /\ held'[s][q][d] > 0 <=> held[s][q][d] > 0 /\ ~(q = p /\ d = c)
  <2>1. retq'[p][s] = Append(retq[p][s], c) /\ \A q \in Pub \ {p} : retq'[q][s] = retq[q][s]
    BY <1>5, <1>8
  <2>2. \A q \in Pub, d \in Chunk : held'[s][q][d] = IF q = p /\ d = c THEN 0 ELSE held[s][q][d]
    BY <1>5, <1>6
  <2>3. ASSUME NEW q \in Pub, NEW d \in Chunk
        PROVE  d \in Range(retq'[q][s]) <=> d \in Range(retq[q][s]) \/ (q = p /\ d = c)
    BY <1>9, <2>1
  <2>4. ~(0 > 0)
    OBVIOUS
  <2> QED
    BY <2>2, <2>3, <2>4
<1>12. MovesTo(s, p, c, "returned")
  BY <1>1, <1>4, <1>7, <1>11 DEF MovesTo, At, Kind, pool, samples
<1>13. "returned" \in Kind
  BY DEF Kind
<1>14. OneKind'
  BY <1>2, <1>12, <1>13, Moved
<1> QED
  BY <1>3, <1>10, <1>14 DEF IndInv, TypeOK

(* reclaim() takes the mutex and gives it back with empty hands ... *)
LEMMA ReclaimLockInv ==
    ASSUME NEW s, Sub = {s}, IndInv, NEW p \in Pub, ReclaimBegin(p) \/ ReclaimReturn(p)
    PROVE  IndInv'
<1>1. /\ UNCHANGED <<shared, sendq, retq, pool, samples, polling, held, lost>>
      /\ mutex[p] \in {"free", "reclaim"} /\ \E w \in {"free", "reclaim"} : Lock(p, w, NoChunk)
  BY DEF ReclaimBegin, ReclaimReturn
<1>2. TypeOK /\ ChunksInUse /\ OneKind /\ OneOfKind /\ LoansAccount
  BY DEF IndInv
<1>3. PICK w \in {"free", "reclaim"} : Lock(p, w, NoChunk)
  BY <1>1
<1>4. /\ mutex' = [mutex EXCEPT ![p] = w] /\ cursor' = [cursor EXCEPT ![p] = 1]
      /\ hand' = [hand EXCEPT ![p] = NoChunk] /\ hand[p] = NoChunk
      /\ mutex \in [Pub -> {"free", "send", "reclaim", "deallocate", "count"}]
      /\ cursor \in [Pub -> Nat \ {0}] /\ hand \in [Pub -> Chunk \union {NoChunk}]
  BY <1>1, <1>2, <1>3 DEF Lock, ChunksInUse, TypeOK, LocksTypeOK
<1>5. PortsTypeOK' /\ ConnectedOnce' /\ QueuesTypeOK' /\ LoansTypeOK'
  BY <1>1, <1>2, WiringKept DEF TypeOK, LoansTypeOK, QueuesTypeOK, pool, samples
<1>6. LocksTypeOK' /\ ChunksInUse'
  BY <1>1, <1>2, <1>4 DEF TypeOK, LocksTypeOK, ChunksInUse, pool, samples
<1>7. LoansAccount'
  BY <1>1, <1>2, <1>4 DEF LoansAccount, Accounted, pool, samples
<1>8. \A q \in Pub : InHand(q)' = InHand(q)
  BY <1>1, <1>4 DEF InHand
<1>9. OneKind' /\ OneOfKind'
  BY <1>1, <1>2, <1>8, Unmoved DEF pool, samples
<1> QED
  BY <1>5, <1>6, <1>7, <1>9 DEF IndInv, TypeOK

(* ... and between the two moves chunks from the return queue to the pool. *)
LEMMA ReclaimInv ==
    ASSUME NEW s, Sub = {s}, IndInv, NEW p \in Pub,
           ReclaimPop(p) \/ ReclaimDeallocate(p) \/ ReclaimCount(p)
    PROVE  IndInv'
<1>1. UNCHANGED <<shared, sendq, samples, polling, held, lost>>
  BY DEF ReclaimPop, ReclaimDeallocate, ReclaimCount
<1>2. TypeOK /\ ChunksInUse /\ OneKind /\ OneOfKind /\ LoansAccount
  BY DEF IndInv
<1>3. PortsTypeOK' /\ ConnectedOnce'
  BY <1>1, WiringKept
<1>4. /\ mutex \in [Pub -> {"free", "send", "reclaim", "deallocate", "count"}]
      /\ cursor \in [Pub -> Nat \ {0}] /\ hand \in [Pub -> Chunk \union {NoChunk}]
      /\ retq \in [Pub -> [Sub -> Seq(Chunk)]] /\ free \in [Pub -> SUBSET Chunk]
      /\ loans \in [Pub -> 0 .. MaxLoaned] /\ uncounted \in [Pub -> Nat] /\ s \in Sub
      /\ NoChunk \notin Chunk
  <2>1. NoChunk \notin Chunk
    BY DEF Chunk, NoChunk
  <2> QED
    BY <1>2, <2>1 DEF TypeOK, LocksTypeOK, QueuesTypeOK, LoansTypeOK
<1>5. CASE ReclaimPop(p)
  <2>1. mutex[p] = "reclaim" /\ hand[p] = NoChunk /\ UNCHANGED pool
    BY <1>2, <1>5 DEF ReclaimPop, ChunksInUse
  <2>2. channels[p][cursor[p]] = s
    <3>1. channels[p] \in Seq(Sub) /\ cursor[p] \in Nat \ {0} /\ cursor[p] <= Len(channels[p])
      BY <1>2, <1>4, <1>5 DEF ReclaimPop, TypeOK, PortsTypeOK
    <3>2. cursor[p] \in 1 .. Len(channels[p])
      BY <3>1
    <3> QED
      BY <3>2, OneChannel
  <2>3. LoansTypeOK'
    BY <1>1, <1>2, <2>1 DEF TypeOK, LoansTypeOK, pool, samples
  <2>4. CASE retq[p][s] = <<>>
    <3>1. cursor' = [cursor EXCEPT ![p] = cursor[p] + 1] /\ UNCHANGED <<retq, hand, mutex>>
      BY <1>5, <2>2, <2>4 DEF ReclaimPop
    <3>2. QueuesTypeOK' /\ LocksTypeOK'
      <4>1. cursor' \in [Pub -> Nat \ {0}]
        BY <1>4, <3>1
      <4> QED
        BY <1>1, <1>2, <3>1, <4>1 DEF TypeOK, QueuesTypeOK, LocksTypeOK
    <3>3. ChunksInUse' /\ LoansAccount'
      BY <1>1, <1>2, <2>1, <3>1 DEF ChunksInUse, LoansAccount, Accounted, pool, samples
    <3>4. \A q \in Pub : InHand(q)' = InHand(q)
      BY <1>4, <2>1, <3>1 DEF InHand
    <3>5. OneKind' /\ OneOfKind'
      BY <1>1, <1>2, <2>1, <3>1, <3>4, Unmoved DEF pool, samples
    <3> QED
      BY <1>3, <2>3, <3>2, <3>3, <3>5 DEF IndInv, TypeOK
  <2>5. CASE retq[p][s] # <<>>
    <3>1. retq[p][s] \in Seq(Chunk) /\ IsInjective(retq[p][s])
      BY <1>2, <1>4 DEF OneOfKind
    <3>2. /\ Head(retq[p][s]) \in Chunk /\ Head(retq[p][s]) \in Range(retq[p][s])
          /\ Tail(retq[p][s]) \in Seq(Chunk) /\ IsInjective(Tail(retq[p][s]))
          /\ Range(Tail(retq[p][s])) = Range(retq[p][s]) \ {Head(retq[p][s])}
      BY <2>5, <3>1, PopOnce
    <3>c. PICK c \in Chunk : c = Head(retq[p][s])
      BY <3>2
    <3>3. /\ hand' = [hand EXCEPT ![p] = c]
          /\ retq' = [retq EXCEPT ![p] = [retq[p] EXCEPT ![s] = Tail(retq[p][s])]]
          /\ mutex' = [mutex EXCEPT ![p] = "deallocate"]
          /\ UNCHANGED cursor
      BY <1>5, <2>2, <2>5, <3>c DEF ReclaimPop
    <3>4. \A k \in Kind : At(s, p, c, k) <=> k = "returned"
      <4>1. "returned" \in Kind /\ At(s, p, c, "returned")
        BY <3>2, <3>c DEF At, Kind
      <4> QED
        BY <1>2, <4>1, OnlyThere
    <3>5. LocksTypeOK' /\ ChunksInUse'
      BY <1>1, <1>2, <1>4, <2>1, <3>3 DEF TypeOK, LocksTypeOK, ChunksInUse, pool, samples
    <3>6. QueuesTypeOK'
      BY <1>1, <1>2, <1>4, <3>2, <3>3 DEF TypeOK, QueuesTypeOK
    <3>7. OneOfKind'
      <4>1. \A q \in Pub : IsInjective(retq'[q][s])
        BY <1>2, <1>4, <3>2, <3>3 DEF OneOfKind
      <4> QED
        BY <1>1, <1>2, <4>1 DEF OneOfKind, samples
    <3>8. LoansAccount'
      BY <1>1, <1>2, <1>4, <2>1, <3>3 DEF LoansAccount, Accounted, pool, samples
    <3>9. \A q \in Pub, d \in Chunk :
             /\ d \in Range(retq'[q][s]) <=> d \in Range(retq[q][s]) /\ ~(q = p /\ d = c)
             /\ InHand(q)' = d <=> InHand(q) = d \/ (q = p /\ d = c)
      <4>1. InHand(p) = NoChunk /\ InHand(p)' = c
        BY <1>4, <2>1, <3>3 DEF InHand
      <4>2. \A q \in Pub \ {p} : InHand(q)' = InHand(q) /\ retq'[q][s] = retq[q][s]
        BY <1>4, <3>3 DEF InHand
      <4>3. retq'[p][s] = Tail(retq[p][s])
        BY <1>4, <3>3
      <4> QED
        BY <1>4, <3>2, <3>c, <4>1, <4>2, <4>3
    <3>10. MovesTo(s, p, c, "hand")
      BY <1>1, <2>1, <3>4, <3>9 DEF MovesTo, At, Kind, pool, samples
    <3>11. "hand" \in Kind
      BY DEF Kind
    <3>12. OneKind'
      BY <1>2, <3>10, <3>11, Moved
    <3> QED
      BY <1>3, <2>3, <3>5, <3>6, <3>7, <3>8, <3>12 DEF IndInv, TypeOK
  <2> QED
    BY <2>4, <2>5
<1>6. CASE ReclaimDeallocate(p)
  <2>1. mutex[p] = "deallocate" /\ hand[p] \in Chunk
    BY <1>2, <1>4, <1>6 DEF ReclaimDeallocate, ChunksInUse
  <2>c. PICK c \in Chunk : c = hand[p]
    BY <2>1
  <2>2. /\ free' = [free EXCEPT ![p] = free[p] \union {c}]
        /\ hand' = [hand EXCEPT ![p] = NoChunk]
        /\ mutex' = [mutex EXCEPT ![p] = "count"]
        /\ UNCHANGED <<retq, loans, cursor>>
    BY <1>6, <2>c DEF ReclaimDeallocate
  <2>3. \A k \in Kind : At(s, p, c, k) <=> k = "hand"
    <3>1. "hand" \in Kind /\ At(s, p, c, "hand")
      BY <2>1, <2>c DEF At, Kind, InHand
    <3> QED
      BY <1>2, <3>1, OnlyThere
  <2>4. LoansTypeOK' /\ LocksTypeOK' /\ QueuesTypeOK'
    BY <1>1, <1>2, <1>4, <2>2 DEF TypeOK, LoansTypeOK, LocksTypeOK, QueuesTypeOK, samples
  <2>5. ChunksInUse' /\ OneOfKind'
    BY <1>1, <1>2, <1>4, <2>2 DEF ChunksInUse, OneOfKind, samples
  <2>6. MovesTo(s, p, c, "free")
    <3>1. InHand(p) = c /\ InHand(p)' = NoChunk
      BY <1>4, <2>1, <2>2, <2>c DEF InHand
    <3>2. \A q \in Pub \ {p} : InHand(q)' = InHand(q) /\ free'[q] = free[q]
      BY <1>4, <2>2 DEF InHand
    <3>3. \A q \in Pub, d \in Chunk :
             /\ d \in free'[q] <=> d \in free[q] \/ (q = p /\ d = c)
             /\ InHand(q)' = d <=> InHand(q) = d /\ ~(q = p /\ d = c)
      BY <1>4, <2>2, <3>1, <3>2
    <3> QED
      BY <1>1, <2>2, <2>3, <3>3 DEF MovesTo, At, Kind, samples
  <2>7. "free" \in Kind
    BY DEF Kind
  <2>8. OneKind'
    BY <1>2, <2>6, <2>7, Moved
  <2>9. Accounted(p)'
    <3>1. c \notin free[p] /\ Accounted(p) /\ free[p] \in SUBSET Chunk
      BY <1>2, <1>4, <2>3 DEF At, Kind, LoansAccount
    <3>2. free'[p] = free[p] \union {c} /\ mutex'[p] = "count"
      BY <1>4, <2>2
    <3>3. /\ Cardinality(Chunk \ free[p]) \in Nat
          /\ Cardinality(Chunk \ free'[p]) = Cardinality(Chunk \ free[p]) - 1
      BY <3>1, <3>2, InUse
    <3>4. loans[p] \in Nat /\ uncounted[p] \in Nat /\ UNCHANGED <<loans, loan, uncounted>>
      BY <1>1, <1>4, <2>2 DEF samples
    <3> QED
      BY <2>1, <3>1, <3>2, <3>3, <3>4 DEF Accounted
  <2>10. LoansAccount'
    BY <1>1, <1>2, <1>4, <2>2, <2>9, OthersAccounted DEF samples
  <2> QED
    BY <1>3, <2>4, <2>5, <2>8, <2>10 DEF IndInv, TypeOK
<1>7. CASE ReclaimCount(p)
  <2>1. /\ mutex[p] = "count" /\ mutex' = [mutex EXCEPT ![p] = "reclaim"]
        /\ UNCHANGED <<retq, free, cursor, hand>>
    BY <1>7 DEF ReclaimCount
  <2>2. loans[p] > 0 /\ loans' = [loans EXCEPT ![p] = loans[p] - 1]
    BY <1>7, <2>1, Counted DEF ReclaimCount
  <2>3. LoansTypeOK' /\ LocksTypeOK' /\ QueuesTypeOK'
    <3>1. loans' \in [Pub -> 0 .. MaxLoaned]
      BY <1>4, <2>2, BufferAssumption
    <3>2. LoansTypeOK'
      BY <1>1, <1>2, <2>1, <3>1 DEF TypeOK, LoansTypeOK, samples
    <3>3. LocksTypeOK' /\ QueuesTypeOK'
      BY <1>1, <1>2, <1>4, <2>1 DEF TypeOK, LocksTypeOK, QueuesTypeOK
    <3> QED
      BY <3>2, <3>3
  <2>4. ChunksInUse'
    BY <1>1, <1>2, <1>4, <2>1, <2>2, BufferAssumption DEF ChunksInUse, samples
  <2>5. \A q \in Pub : InHand(q)' = InHand(q)
    BY <1>4, <2>1 DEF InHand
  <2>6. OneKind' /\ OneOfKind'
    BY <1>1, <1>2, <2>1, <2>5, Unmoved DEF samples
  <2>7. Accounted(p)'
    <3>1. Accounted(p) /\ free[p] \in SUBSET Chunk
      BY <1>2, <1>4 DEF LoansAccount
    <3>2. Cardinality(Chunk \ free[p]) \in Nat
      BY <3>1, ChunkFinite, FS_Difference, FS_CardinalityType
    <3>3. loans'[p] = loans[p] - 1 /\ mutex'[p] = "reclaim"
      BY <1>4, <2>1, <2>2
    <3>4. loans[p] \in Nat /\ uncounted[p] \in Nat /\ UNCHANGED <<free, loan, uncounted>>
      BY <1>1, <1>4, <2>1 DEF samples
    <3> QED
      BY <2>1, <3>1, <3>2, <3>3, <3>4 DEF Accounted
  <2>8. LoansAccount'
    BY <1>1, <1>2, <1>4, <2>1, <2>2, <2>7, OthersAccounted DEF samples
  <2> QED
    BY <1>3, <2>3, <2>4, <2>6, <2>8 DEF IndInv, TypeOK
<1> QED
  BY <1>5, <1>6, <1>7

-----------------------------------------------------------------------------
(* What the invariant says *)

(* A chunk is in a queue without duplicates in at most one position. *)
LEMMA QueuedOnce ==
    ASSUME NEW q \in Seq(Chunk), IsInjective(q), NEW c
    PROVE  IF c \in Range(q) THEN \E i : Queued(q, c) = {i} ELSE Queued(q, c) = {}
<1>1. DOMAIN q = 1 .. Len(q)
  OBVIOUS
<1>2. CASE c \in Range(q)
  <2>1. PICK i \in 1 .. Len(q) : q[i] = c
    BY <1>1, <1>2 DEF Range
  <2>2. \A j \in 1 .. Len(q) : q[j] = c <=> j = i
    BY <1>1, <2>1 DEF IsInjective
  <2>3. Queued(q, c) = {i}
    BY <2>1, <2>2 DEF Queued
  <2> QED
    BY <1>2, <2>3
<1>3. CASE c \notin Range(q)
  BY <1>1, <1>3 DEF Queued, Range
<1> QED
  BY <1>2, <1>3

(* Every chunk is in one place. *)
LEMMA OnePlace ==
    ASSUME NEW s, Sub = {s}, IndInv, NEW p \in Pub, NEW c \in Chunk
    PROVE  \E x : Places(p, c) = {x}
<1>1. PICK k \in Kind : \A j \in Kind : At(s, p, c, j) <=> j = k
  BY DEF IndInv, OneKind
<1>2. /\ out[p][c] \in Nat /\ out[p][c] <= 1 /\ held[s][p][c] \in Nat /\ held[s][p][c] <= 1
      /\ sendq[p][s] \in Seq(Chunk) /\ IsInjective(sendq[p][s])
      /\ retq[p][s] \in Seq(Chunk) /\ IsInjective(retq[p][s])
  BY DEF IndInv, TypeOK, LoansTypeOK, QueuesTypeOK, OneOfKind
<1> DEFINE F == {<<"free">> : x \in {c} \intersect free[p]}
           L == {<<"loaned">> : x \in {c} \intersect {loaned[p]}}
           O == {<<"out", n>> : n \in 1 .. out[p][c]}
           H == {<<"hand">> : x \in {c} \intersect {InHand(p)}}
           S == {<<"sent", s, i>> : i \in Queued(sendq[p][s], c)}
           D == {<<"held", s, n>> : n \in 1 .. held[s][p][c]}
           R == {<<"returned", s, i>> : i \in Queued(retq[p][s], c)}
           X == {<<"lost">> : x \in {c} \intersect lost[p]}
           Holds(T, j) == (T = {} /\ ~At(s, p, c, j)) \/ (At(s, p, c, j) /\ \E x : T = {x})
<1>3. Places(p, c) = F \union L \union O \union H \union S \union D \union R \union X
  <2>1. UNION {{<<"sent", t, i>> : i \in Queued(sendq[p][t], c)} : t \in Sub} = S
    BY Zenon
  <2>2. UNION {{<<"held", t, n>> : n \in 1 .. held[t][p][c]} : t \in Sub} = D
    BY Zenon
  <2>3. UNION {{<<"returned", t, i>> : i \in Queued(retq[p][t], c)} : t \in Sub} = R
    BY Zenon
  <2> QED
    BY <2>1, <2>2, <2>3 DEF Places
<1>4. Holds(F, "free") /\ Holds(L, "loaned") /\ Holds(H, "hand") /\ Holds(X, "lost")
  BY DEF At
<1>5. Holds(O, "out")
  <2>1. CASE At(s, p, c, "out")
    <3>1. out[p][c] = 1
      BY <1>2, <2>1 DEF At
    <3>2. 1 .. out[p][c] = {1}
      BY <3>1
    <3>3. O = {<<"out", 1>>}
      BY <3>2, Zenon
    <3> QED
      BY <2>1, <3>3
  <2>2. CASE ~At(s, p, c, "out")
    <3>1. out[p][c] = 0
      BY <1>2, <2>2 DEF At
    <3>2. 1 .. out[p][c] = {}
      BY <3>1
    <3>3. O = {}
      BY <3>2, Zenon
    <3> QED
      BY <2>2, <3>3
  <2> QED
    BY <2>1, <2>2
<1>6. Holds(D, "held")
  <2>1. CASE At(s, p, c, "held")
    <3>1. held[s][p][c] = 1
      BY <1>2, <2>1 DEF At
    <3>2. 1 .. held[s][p][c] = {1}
      BY <3>1
    <3>3. D = {<<"held", s, 1>>}
      BY <3>2, Zenon
    <3> QED
      BY <2>1, <3>3
  <2>2. CASE ~At(s, p, c, "held")
    <3>1. held[s][p][c] = 0
      BY <1>2, <2>2 DEF At
    <3>2. 1 .. held[s][p][c] = {}
      BY <3>1
    <3>3. D = {}
      BY <3>2, Zenon
    <3> QED
      BY <2>2, <3>3
  <2> QED
    BY <2>1, <2>2
<1>7. Holds(S, "sent")
  <2>1. CASE At(s, p, c, "sent")
    <3>1. c \in Range(sendq[p][s])
      BY <2>1 DEF At
    <3>2. PICK i : Queued(sendq[p][s], c) = {i}
      BY <1>2, <3>1, QueuedOnce
    <3>3. S = {<<"sent", s, i>>}
      BY <3>2, Zenon
    <3> QED
      BY <2>1, <3>3
  <2>2. CASE ~At(s, p, c, "sent")
    <3>1. c \notin Range(sendq[p][s])
      BY <2>2 DEF At
    <3>2. Queued(sendq[p][s], c) = {}
      BY <1>2, <3>1, QueuedOnce
    <3>3. S = {}
      BY <3>2, Zenon
    <3> QED
      BY <2>2, <3>3
  <2> QED
    BY <2>1, <2>2
<1>8. Holds(R, "returned")
  <2>1. CASE At(s, p, c, "returned")
    <3>1. c \in Range(retq[p][s])
      BY <2>1 DEF At
    <3>2. PICK i : Queued(retq[p][s], c) = {i}
      BY <1>2, <3>1, QueuedOnce
    <3>3. R = {<<"returned", s, i>>}
      BY <3>2, Zenon
    <3> QED
      BY <2>1, <3>3
  <2>2. CASE ~At(s, p, c, "returned")
    <3>1. c \notin Range(retq[p][s])
      BY <2>2 DEF At
    <3>2. Queued(retq[p][s], c) = {}
      BY <1>2, <3>1, QueuedOnce
    <3>3. R = {}
      BY <3>2, Zenon
    <3> QED
      BY <2>2, <3>3
  <2> QED
    BY <2>1, <2>2
<1> HIDE DEF F, L, O, H, S, D, R, X
<1>9. \E x : F \union L \union O \union H \union S \union D \union R \union X = {x}
  <2>0. Kind = {"free", "loaned", "out", "hand", "sent", "held", "returned", "lost"}
    BY DEF Kind
  <2>1. CASE k = "free"
    BY <1>1, <1>4, <1>5, <1>6, <1>7, <1>8, <2>0, <2>1
  <2>2. CASE k = "loaned"
    BY <1>1, <1>4, <1>5, <1>6, <1>7, <1>8, <2>0, <2>2
  <2>3. CASE k = "out"
    BY <1>1, <1>4, <1>5, <1>6, <1>7, <1>8, <2>0, <2>3
  <2>4. CASE k = "hand"
    BY <1>1, <1>4, <1>5, <1>6, <1>7, <1>8, <2>0, <2>4
  <2>5. CASE k = "sent"
    BY <1>1, <1>4, <1>5, <1>6, <1>7, <1>8, <2>0, <2>5
  <2>6. CASE k = "held"
    BY <1>1, <1>4, <1>5, <1>6, <1>7, <1>8, <2>0, <2>6
  <2>7. CASE k = "returned"
    BY <1>1, <1>4, <1>5, <1>6, <1>7, <1>8, <2>0, <2>7
  <2>8. CASE k = "lost"
    BY <1>1, <1>4, <1>5, <1>6, <1>7, <1>8, <2>0, <2>8
  <2> QED
    BY <2>0, <2>1, <2>2, <2>3, <2>4, <2>5, <2>6, <2>7, <2>8
<1> QED
  BY <1>3, <1>9

LEMMA IndInvExclusive == ASSUME NEW s, Sub = {s}, IndInv PROVE ExclusiveChunks
<1> SUFFICES ASSUME NEW p \in Pub, NEW c \in Chunk PROVE Cardinality(Places(p, c)) = 1
  BY DEF ExclusiveChunks
<1>1. PICK x : Places(p, c) = {x}
  BY OnePlace
<1> QED
  BY <1>1, FS_Singleton

(* A queue that lacks a chunk has room: it holds each of the others at most once. *)
LEMMA RoomForOneMore ==
    ASSUME NEW q \in Seq(Chunk), IsInjective(q), NEW c \in Chunk, c \notin Range(q)
    PROVE  Len(q) < QCap
<1>1. q \in Seq(Chunk \ {c})
  BY DEF Range
<1>2. IsFiniteSet(Chunk \ {c}) /\ Cardinality(Chunk \ {c}) = BufferSize - 1
  BY ChunkFinite, FS_RemoveElement
<1>3. Len(q) <= BufferSize - 1
  BY <1>1, <1>2, OnceIsShort
<1> QED
  BY <1>3, BufferAssumption, QueueAssumption

LEMMA IndInvRoom == ASSUME NEW s, Sub = {s}, IndInv PROVE QueuesHaveRoom
<1> SUFFICES ASSUME NEW p \in Pub
             PROVE  /\ (\E c \in Chunk : held[s][p][c] > 0) => Len(retq[p][s]) < QCap
                    /\ mutex[p] = "send" /\ cursor[p] <= Len(channels[p]) => Len(sendq[p][s]) < QCap
  BY DEF QueuesHaveRoom
<1>1. /\ sendq[p][s] \in Seq(Chunk) /\ IsInjective(sendq[p][s])
      /\ retq[p][s] \in Seq(Chunk) /\ IsInjective(retq[p][s])
  BY DEF IndInv, TypeOK, QueuesTypeOK, OneOfKind
<1>2. ASSUME NEW c \in Chunk, held[s][p][c] > 0 PROVE Len(retq[p][s]) < QCap
  <2>1. "held" \in Kind /\ At(s, p, c, "held")
    BY <1>2 DEF At, Kind
  <2>2. \A j \in Kind : At(s, p, c, j) <=> j = "held"
    BY <2>1, OnlyThere DEF IndInv
  <2>3. c \notin Range(retq[p][s])
    BY <2>2 DEF At, Kind
  <2> QED
    BY <1>1, <2>3, RoomForOneMore
<1>3. ASSUME mutex[p] = "send", cursor[p] <= Len(channels[p]) PROVE Len(sendq[p][s]) < QCap
  <2>1. hand[p] \in Chunk /\ cursor[p] \in Nat \ {0} /\ channels[p] \in Seq(Sub)
    BY <1>3 DEF IndInv, TypeOK, LocksTypeOK, PortsTypeOK, ChunksInUse
  <2>2. cursor[p] = 1
    <3>1. cursor[p] \in 1 .. Len(channels[p])
      BY <1>3, <2>1
    <3> QED
      BY <3>1, OneChannel
  <2>3. PICK c \in Chunk : c = hand[p]
    BY <2>1
  <2>4. "hand" \in Kind /\ At(s, p, c, "hand")
    BY <2>2, <2>3 DEF At, Kind, InHand
  <2>5. \A j \in Kind : At(s, p, c, j) <=> j = "hand"
    BY <2>4, OnlyThere DEF IndInv
  <2>6. c \notin Range(sendq[p][s])
    BY <2>5 DEF At, Kind
  <2> QED
    BY <1>1, <2>6, RoomForOneMore
<1> QED
  BY <1>2, <1>3

LEMMA IndInvStable == ASSUME NEW s, Sub = {s}, IndInv PROVE HeldSamplesStable
<1> SUFFICES ASSUME NEW p \in Pub, NEW c \in Chunk, held[s][p][c] > 0
             PROVE  loaned[p] # c /\ out[p][c] = 0
  BY DEF HeldSamplesStable
<1>1. "held" \in Kind /\ At(s, p, c, "held")
  BY DEF At, Kind
<1>2. \A j \in Kind : At(s, p, c, j) <=> j = "held"
  BY <1>1, OnlyThere DEF IndInv
<1>3. loaned[p] # c /\ ~(out[p][c] > 0)
  BY <1>2 DEF At, Kind
<1>4. out[p][c] \in Nat
  BY DEF IndInv, TypeOK, LoansTypeOK
<1> QED
  BY <1>3, <1>4

-----------------------------------------------------------------------------
(* Theorems *)

LEMMA NextInv == ASSUME NEW s, Sub = {s}, IndInv, [Next]_vars PROVE IndInv'
<1>1. CASE UNCHANGED vars
  <2>1. /\ UNCHANGED <<sendq, retq, free, loans, loan, loaned, out, uncounted, mutex, cursor, hand,
                        polling, held, lost>>
        /\ UNCHANGED shared
    BY <1>1 DEF vars, pool, samples, locks
  <2>2. PortsTypeOK' /\ ConnectedOnce'
    BY <2>1, WiringKept
  <2>3. LoansTypeOK' /\ LocksTypeOK' /\ QueuesTypeOK' /\ ChunksInUse' /\ LoansAccount'
    BY <2>1 DEF IndInv, TypeOK, LoansTypeOK, LocksTypeOK, QueuesTypeOK, ChunksInUse,
                LoansAccount, Accounted
  <2>4. OneKind' /\ OneOfKind'
    BY <2>1, Unmoved DEF IndInv, InHand
  <2> QED
    BY <2>2, <2>3, <2>4 DEF IndInv, TypeOK
<1>2. ASSUME NEW p \in Pub, PublisherCreate(p) \/ PublisherDrop(p) PROVE IndInv'
  BY <1>2, PortsInv
<1>3. CASE SubscriberCreate(s) \/ JoinStep(s) \/ SubscriberDrop(s)
  BY <1>3, PortsInv
<1>4. ASSUME NEW p \in Pub, LoanCheck(p) \/ LoanStep(p) PROVE IndInv'
  BY <1>4, LoanInv
<1>5. ASSUME NEW p \in Pub, SampleMutDropCount(p) \/ \E c \in Chunk : SampleMutDrop(p, c)
      PROVE  IndInv'
  BY <1>5, SampleMutInv
<1>6. ASSUME NEW p \in Pub, NEW c \in Chunk, SendBegin(p, c) PROVE IndInv'
  BY <1>6, SendBeginInv
<1>7. ASSUME NEW p \in Pub, SendStep(p) PROVE IndInv'
  BY <1>7, SendInv
<1>8. ASSUME NEW p \in Pub, ReclaimBegin(p) \/ ReclaimStep(p) PROVE IndInv'
  BY <1>8, ReclaimLockInv, ReclaimInv DEF ReclaimStep
<1>9. CASE ReceiveCall(s) \/ ReceiveStep(s)
  BY <1>9, ReceiveInv
<1>10. ASSUME DropSamples(s) PROVE IndInv'
  BY <1>10, SampleDropInv DEF DropSamples
<1> QED
  BY <1>1, <1>2, <1>3, <1>4, <1>5, <1>6, <1>7, <1>8, <1>9, <1>10 DEF Next

(* The invariant holds throughout: publishers register and subscribers connect once, every
   chunk is in a place of one kind, and the loan counter agrees with the pool. *)
THEOREM PubSubInvariant == ASSUME NEW s, Sub = {s} PROVE SafetySpec => []IndInv
<1>1. Init => IndInv
  BY InitInv
<1>2. IndInv /\ [Next]_vars => IndInv'
  BY NextInv
<1> QED
  BY <1>1, <1>2, PTL DEF SafetySpec

(* Every variable keeps its type; active_loans never exceeds qos.max_loaned_samples. *)
THEOREM PubSubTypes == ASSUME NEW s, Sub = {s} PROVE SafetySpec => []TypeOK
<1>1. IndInv => TypeOK
  BY DEF IndInv
<1> QED
  BY <1>1, PubSubInvariant, PTL

(* With one subscriber and any number of publishers, every chunk is in exactly one place:
   in the pool, with a writer, in a queue, in a Sample or lost. *)
THEOREM ChunksAreExclusive == ASSUME NEW s, Sub = {s} PROVE SafetySpec => []ExclusiveChunks
<1>1. IndInv => ExclusiveChunks
  BY IndInvExclusive
<1> QED
  BY <1>1, PubSubInvariant, PTL

(* active_loans is the number of chunks out of the pool, corrected by the steps under way:
   it never wraps below zero. *)
THEOREM LoansAreAccounted == ASSUME NEW s, Sub = {s} PROVE SafetySpec => []LoansAccount
<1>1. IndInv => LoansAccount
  BY DEF IndInv
<1> QED
  BY <1>1, PubSubInvariant, PTL

(* No queue is full when it is pushed to: return_offset never spins and send never fails
   with QueueFull. *)
THEOREM QueuesNeverFull == ASSUME NEW s, Sub = {s} PROVE SafetySpec => []QueuesHaveRoom
<1>1. IndInv => QueuesHaveRoom
  BY IndInvRoom
<1> QED
  BY <1>1, PubSubInvariant, PTL

(* What a single subscriber reads is not written to: the fault that two subscribers make
   of it needs the second one. *)
THEOREM SamplesStable == ASSUME NEW s, Sub = {s} PROVE SafetySpec => []HeldSamplesStable
<1>1. IndInv => HeldSamplesStable
  BY IndInvStable
<1> QED
  BY <1>1, PubSubInvariant, PTL

=============================================================================
