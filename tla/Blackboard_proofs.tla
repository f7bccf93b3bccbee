------------------------- MODULE Blackboard_proofs -------------------------
(***************************************************************************)
(* Proofs about the sequence lock on a memory that keeps program order,    *)
(* for any number of readers, words and writes: no torn reads, and the     *)
(* blackboard implements an atomic register.                               *)
(***************************************************************************)
EXTENDS Blackboard, TLAPS

(* The numbers a write stores do not wrap. *)
LEMMA NoWrap ==
    ASSUME NEW n \in 1 .. MaxWrites
    PROVE  /\ (2 * (n - 1) + 1) % SeqMod = 2 * n - 1
           /\ (2 * (n - 1) + 2) % SeqMod = 2 * n
<1>1. SeqMod \in Nat /\ 2 * n < SeqMod /\ n \in Nat /\ n > 0
  BY WritesAssumption, SeqAssumption
<1>2. \A a \in 0 .. SeqMod - 1 : a % SeqMod = a
  BY <1>1
<1>3. 2 * (n - 1) + 1 = 2 * n - 1 /\ 2 * (n - 1) + 2 = 2 * n
  BY <1>1
<1> QED
  BY <1>1, <1>2, <1>3

(* An even number is not odd. *)
LEMMA Parity == \A a, b \in Nat : 2 * a # 2 * b - 1
OBVIOUS

(* The inductive invariant holds of a fresh segment without ports. *)
LEMMA InitInv == Init => IndInv
BY NoneAssumption, WritesAssumption, SeqAssumption
   DEF Init, IndInv, TypeOK, WriterKnows, ReadersKnow, ConsistentReads, Seq64, Value, Uniform

(* Creating ports, and every step of write(), keeps the invariant. *)
LEMMA WriterInv ==
    ASSUME InOrder, IndInv,
           \/ CreateSegment \/ RegisterWriter \/ WriteCall \/ WriterStep
           \/ \E r \in Reader : CreateReader(r)
    PROVE  IndInv'
<1> USE NoneAssumption, WritesAssumption, SeqAssumption
    DEF IndInv, TypeOK, WriterKnows, ReadersKnow, ConsistentReads, Unchanged, Seq64, Value,
        writer, reader
<1>1. CASE CreateSegment
  BY <1>1 DEF CreateSegment
<1>2. CASE RegisterWriter
  BY <1>2 DEF RegisterWriter
<1>3. CASE WriteCall
  BY <1>3 DEF WriteCall
<1>4. CASE StoreOdd
  <2>1. sequence' = 2 * writes - 1
    BY <1>4, NoWrap DEF StoreOdd
  <2>2. TypeOK'
    BY <1>4, <2>1 DEF StoreOdd
  <2>3. WriterKnows'
    BY <1>4, <2>1 DEF StoreOdd
  <2>4. sequence < sequence'
    BY <1>4, <2>1 DEF StoreOdd
  <2>5. ReadersKnow'
    \* The number moves on, so no copy in progress is bound to it any more.
    BY <1>4, <2>4 DEF StoreOdd
  <2>6. ConsistentReads'
    BY <1>4 DEF StoreOdd
  <2> QED
    BY <2>2, <2>3, <2>5, <2>6
<1>5. CASE StoreEven
  <2>1. sequence' = 2 * writes
    BY <1>5, NoWrap DEF StoreEven
  <2>2. TypeOK'
    BY <1>5, <2>1 DEF StoreEven
  <2>3. WriterKnows'
    BY <1>5, <2>1 DEF StoreEven
  <2>4. sequence < sequence'
    BY <1>5, <2>1 DEF StoreEven
  <2>5. ReadersKnow'
    \* The number moves on, so no copy in progress is bound to it any more.
    BY <1>5, <2>4 DEF StoreEven
  <2>6. ConsistentReads'
    BY <1>5 DEF StoreEven
  <2> QED
    BY <2>2, <2>3, <2>5, <2>6
<1>6. ASSUME NEW w \in Word, StoreWord(w) PROVE IndInv'
  BY <1>6 DEF StoreWord
<1>7. CASE \E r \in Reader : CreateReader(r)
  BY <1>7 DEF CreateReader
<1> QED
  BY <1>1, <1>2, <1>3, <1>4, <1>5, <1>6, <1>7 DEF WriterStep

(* Every step of read() keeps the invariant. *)
LEMMA ReaderInv ==
    ASSUME InOrder, IndInv, NEW r \in Reader, ReadCall(r) \/ ReaderStep(r)
    PROVE  IndInv'
<1> USE NoneAssumption, WritesAssumption, SeqAssumption
    DEF IndInv, TypeOK, WriterKnows, ReadersKnow, ConsistentReads, Unchanged, Seq64, Value,
        writer, reader
<1>1. CASE ReadCall(r)
  BY <1>1 DEF ReadCall
<1>2. CASE ReadNone(r)
  BY <1>2 DEF ReadNone
<1>3. CASE LoadFirst(r)
  BY <1>3 DEF LoadFirst
<1>4. CASE LoadSecond(r)
  BY <1>4 DEF LoadSecond
<1>5. CASE Return(r)
  BY <1>5 DEF Return
<1>6. CASE Retry(r)
  BY <1>6 DEF Retry
<1>7. ASSUME NEW w \in Word, LoadWord(r, w) PROVE IndInv'
  <2>1. rpc[r] = "copy" /\ copy' = [copy EXCEPT ![r] = [copy[r] EXCEPT ![w] = data[w]]]
    BY <1>7 DEF LoadWord
  <2>2. TypeOK'
    BY <1>7, <2>1 DEF LoadWord
  <2>3. s1[r] = sequence => 2 * data[w] = s1[r]
    \* The number is even, so the writer is not between its two stores.
    <3>1. PICK k \in 1 .. MaxWrites : s1[r] = 2 * k
      BY <2>1
    <3>2. wpc = "store" => sequence = 2 * writes - 1 /\ writes \in Nat
      OBVIOUS
    <3>3. s1[r] = sequence => wpc # "store"
      <4> SUFFICES ASSUME s1[r] = sequence, wpc = "store" PROVE FALSE
        OBVIOUS
      <4>1. k \in Nat /\ writes \in Nat
        OBVIOUS
      <4>2. 2 * k = 2 * writes - 1
        BY ONLY <3>1, <3>2, s1[r] = sequence, wpc = "store"
      <4> QED
        BY ONLY <4>1, <4>2, Parity
    <3> QED
      BY <3>3
  <2>4. ReadersKnow'
    BY <1>7, <2>1, <2>3 DEF LoadWord
  <2>5. WriterKnows' /\ ConsistentReads'
    BY <1>7 DEF LoadWord
  <2> QED
    BY <2>2, <2>4, <2>5
<1> QED
  BY <1>1, <1>2, <1>3, <1>4, <1>5, <1>6, <1>7 DEF ReaderStep

(* The inductive invariant of the sequence lock on a memory that keeps program order. *)
THEOREM SeqLockInvariant == ASSUME InOrder PROVE SafetySpec => []IndInv
<1>1. IndInv /\ [Next]_vars => IndInv'
  <2> SUFFICES ASSUME IndInv, [Next]_vars PROVE IndInv'
    OBVIOUS
  <2>1. CASE Next
    BY <2>1, WriterInv, ReaderInv DEF Next
  <2>2. CASE UNCHANGED vars
    BY <2>2 DEF vars, writer, reader, IndInv, TypeOK, WriterKnows, ReadersKnow, ConsistentReads, Unchanged
  <2> QED
    BY <2>1, <2>2
<1> QED
  BY <1>1, InitInv, PTL DEF SafetySpec

(* Reader::read never returns words of two writes, on a memory that keeps program order. *)
THEOREM NoTornReads == ASSUME InOrder PROVE SafetySpec => []ConsistentReads
BY SeqLockInvariant, PTL DEF IndInv

(* Half of an even number, and of the odd one before the next. *)
LEMMA Half == \A n \in Nat : (2 * n) \div 2 = n /\ (2 * (n + 1) - 1) \div 2 = n
OBVIOUS

(* The register holds the last value whose write has ended: the even store. *)
LEMMA LatestIs ==
    ASSUME IndInv, NEW n \in 0 .. MaxWrites, sequence = 2 * n \/ sequence = 2 * (n + 1) - 1
    PROVE  Latest = IF n = 0 THEN None ELSE Uniform(n)
<1>1. n \in Nat
  BY WritesAssumption
<1>2. sequence \div 2 = n
  BY <1>1, Half
<1>3. sequence < 2 <=> n = 0
  BY <1>1
<1> QED
  BY <1>2, <1>3 DEF Latest

(* Every step of a writer is a step of the register or leaves it alone. *)
LEMMA WriterRefines ==
    ASSUME InOrder, IndInv, IndInv',
           \/ CreateSegment \/ RegisterWriter \/ WriteCall \/ WriterStep
           \/ \E r \in Reader : CreateReader(r)
    PROVE  [Register!Next]_<<Latest, Seen>>
<1>1. CASE sequence' = sequence
  <2>1. Latest' = Latest
    BY <1>1 DEF Latest, Uniform
  <2>2. Seen' = Seen
    BY DEF Seen, Unchanged, CreateSegment, RegisterWriter, WriteCall, WriterStep, StoreOdd,
           StoreWord, StoreEven, CreateReader, writer, reader, IndInv, TypeOK
  <2> QED
    BY <2>1, <2>2
<1>2. CASE StoreOdd
  <2>1. writes \in 1 .. MaxWrites /\ sequence = 2 * (writes - 1) /\ sequence' = 2 * writes - 1
    BY <1>2, NoWrap, WritesAssumption DEF StoreOdd, IndInv, TypeOK, WriterKnows
  <2> DEFINE n == writes - 1
  <2>2. n \in 0 .. MaxWrites /\ sequence = 2 * n /\ sequence' = 2 * (n + 1) - 1
    BY <2>1, WritesAssumption
  <2> HIDE DEF n
  <2>3. Latest' = Latest
    <3>1. n \in Nat
      BY <2>2, WritesAssumption
    <3>2. sequence \div 2 = n /\ sequence' \div 2 = n
      BY <2>2, <3>1, Half
    <3>3. (sequence < 2 <=> n = 0) /\ (sequence' < 2 <=> n = 0)
      BY ONLY <2>2, <3>1
    <3> QED
      BY <3>2, <3>3 DEF Latest, Uniform
  <2>4. Seen' = Seen
    BY <1>2 DEF Seen, Unchanged, StoreOdd, reader
  <2> QED
    BY <2>3, <2>4
<1>3. CASE StoreEven
  <2>1. writes \in 1 .. MaxWrites /\ sequence' = 2 * writes /\ writes' = writes
    BY <1>3, NoWrap, WritesAssumption DEF StoreEven, IndInv, TypeOK, WriterKnows
  <2>2. Latest' = Uniform(writes)
    <3>1. writes \in Nat /\ sequence' \div 2 = writes /\ ~(sequence' < 2)
      BY <2>1, Half, WritesAssumption
    <3> QED
      BY <3>1 DEF Latest, Uniform
  <2>3. Latest' \in Value
    BY <2>1, <2>2, WritesAssumption DEF Value, Uniform
  <2>4. Seen' = Seen
    BY <1>3 DEF Seen, Unchanged, StoreEven, reader
  <2> QED
    BY <2>3, <2>4 DEF Register!Next, Register!Write
<1> QED
  BY <1>1, <1>2, <1>3
     DEF WriterStep, CreateSegment, RegisterWriter, WriteCall, StoreWord, CreateReader

(* Every step of a reader is a step of the register or leaves it alone. *)
LEMMA ReaderRefines ==
    ASSUME InOrder, IndInv, IndInv', NEW r \in Reader, ReadCall(r) \/ ReaderStep(r)
    PROVE  [Register!Next]_<<Latest, Seen>>
<1>1. sequence' = sequence /\ Latest' = Latest
  BY DEF ReadCall, ReaderStep, ReadNone, LoadFirst, LoadSecond, Return, Retry, LoadWord, Latest, Uniform
<1> USE DEF IndInv, TypeOK
<1>2. CASE ReadCall(r) \/ LoadFirst(r) \/ Return(r) \/ Retry(r) \/ \E w \in Word : LoadWord(r, w)
  <2>1. Seen' = Seen
    BY <1>2 DEF Seen, Unchanged, ReadCall, LoadFirst, Return, Retry, LoadWord, ReadersKnow
  <2> QED
    BY <1>1, <2>1
<1>3. CASE ReadNone(r)
  <2>1. Latest = None
    BY <1>3 DEF ReadNone, Latest
  <2>2. Seen' = [Seen EXCEPT ![r] = None]
    BY <1>3 DEF Seen, Unchanged, ReadNone
  <2> QED
    BY <1>1, <2>1, <2>2 DEF Register!Next, Register!Read
<1>4. CASE LoadSecond(r)
  <2>1. CASE s1[r] = sequence
    <3>1. PICK k \in 1 .. MaxWrites : s1[r] = 2 * k
      BY <1>4 DEF LoadSecond, ReadersKnow
    <3>2. Latest = Uniform(k)
      BY <2>1, <3>1, LatestIs, WritesAssumption
    <3>3. copy[r] = Uniform(k)
      <4>1. \A w \in Word : 2 * copy[r][w] = 2 * k
        BY <1>4, <2>1, <3>1 DEF LoadSecond, ReadersKnow
      <4>2. \A w \in Word : copy[r][w] = k
        <5> TAKE w \in Word
        <5>1. copy[r][w] \in Nat /\ k \in Nat
          BY WritesAssumption DEF Value
        <5>2. 2 * copy[r][w] = 2 * k
          BY <4>1
        <5> QED
          BY ONLY <5>1, <5>2
      <4> QED
        BY <4>2 DEF Uniform, Value
    <3>4. Seen' = [Seen EXCEPT ![r] = copy[r]]
      BY <1>4, <2>1 DEF Seen, Unchanged, LoadSecond
    <3> QED
      BY <1>1, <3>2, <3>3, <3>4 DEF Register!Next, Register!Read
  <2>2. CASE s1[r] # sequence
    <3>1. Seen' = Seen
      BY <1>4, <2>2 DEF Seen, Unchanged, LoadSecond
    <3> QED
      BY <1>1, <3>1
  <2> QED
    BY <2>1, <2>2
<1> QED
  BY <1>2, <1>3, <1>4 DEF ReaderStep

(* On a memory that keeps program order, the sequence lock is an atomic register: write
   takes effect with its last store, and read returns the whole of what the register held
   at one instant of the call. *)
THEOREM SeqLockImplementsRegister == ASSUME InOrder PROVE SafetySpec => ImplementsRegister
<1>1. Init => Register!Init
  BY DEF Init, Register!Init, Latest, Seen, Unchanged
<1>2. IndInv /\ IndInv' /\ [Next]_vars => [Register!Next]_<<Latest, Seen>>
  <2> SUFFICES ASSUME IndInv, IndInv', [Next]_vars PROVE [Register!Next]_<<Latest, Seen>>
    OBVIOUS
  <2>1. CASE Next
    BY <2>1, WriterRefines, ReaderRefines DEF Next
  <2>2. CASE UNCHANGED vars
    BY <2>2 DEF vars, reader, Latest, Seen, Unchanged, Uniform
  <2> QED
    BY <2>1, <2>2
<1> QED
  BY <1>1, <1>2, SeqLockInvariant, PTL
     DEF SafetySpec, ImplementsRegister, Register!Spec, Register!registerVars
=============================================================================
