---------------------------- MODULE Blackboard ----------------------------
(***************************************************************************)
(* The Blackboard pattern: one Writer (entangle/src/port/writer.rs) and    *)
(* any number of Readers (port/reader.rs) of one service handle, sharing a *)
(* chunk of a data segment under a sequence lock.  A value T is copied     *)
(* word by word, so the chunk is a function from Word to the number of the *)
(* write that stored the word (0: the fresh segment's zeroes), and the     *)
(* words move in any order.                                                *)
(*                                                                         *)
(* InOrder says what the memory does with the accesses of one thread.      *)
(*   TRUE:  they become visible in program order (x86-TSO with a compiler  *)
(*          that keeps the order).                                         *)
(*   FALSE: only what Release and Acquire promise.  A Release store does   *)
(*          not hold back the stores that follow it, so words may land     *)
(*          before the odd sequence number; an Acquire load does not wait  *)
(*          for the loads that precede it, so words may be loaded after    *)
(*          the second sequence number.                                    *)
(***************************************************************************)
EXTENDS Integers

CONSTANTS
    Reader,
    Word,       \* the words of a T
    None,       \* Option::None
    InOrder,    \* BOOLEAN: program order is kept
    SeqMod,     \* number of sequence values, 2^64 in the code
    MaxWrites   \* bound: calls of write()

ASSUME NoneAssumption == None \notin [Word -> Nat]
ASSUME WordAssumption == Word # {}
ASSUME OrderAssumption == InOrder \in BOOLEAN
ASSUME WritesAssumption == MaxWrites \in Nat
\* The sequence number does not wrap: 2^63 writes are out of reach.
ASSUME SeqAssumption == SeqMod \in Nat /\ 2 * MaxWrites < SeqMod

VARIABLES
    wiring,    \* the service's writer registration and what precedes it
    sequence,  \* the seqlock counter: even = idle, odd = writing
    data,      \* the words of the chunk
    wpc,       \* where the writer is
    wseq,      \* the sequence number its call loaded
    wtodo,     \* words its call has not stored yet
    writes,    \* calls of write() so far; the number of the value it writes
    rpc,       \* where each reader is
    s1, s2,    \* the sequence numbers its call loaded
    rtodo,     \* words its call has not copied yet
    copy,      \* its copy
    result     \* what its last call returned

writer == <<wpc, wseq, wtodo, writes>>
reader == <<rpc, s1, s2, rtodo, copy, result>>
vars == <<wiring, sequence, data, writer, reader>>

Seq64 == 0 .. SeqMod - 1
Value == [Word -> 0 .. MaxWrites]
Uniform(n) == [w \in Word |-> n]

Init ==
    /\ wiring = "none"
    /\ sequence = 0 /\ data = Uniform(0)
    /\ wpc = "idle" /\ wseq = 0 /\ wtodo = {} /\ writes = 0
    /\ rpc = [r \in Reader |-> "absent"]
    /\ s1 = [r \in Reader |-> 0] /\ s2 = [r \in Reader |-> 0]
    /\ rtodo = [r \in Reader |-> {}]
    /\ copy = [r \in Reader |-> Uniform(0)]
    /\ result = [r \in Reader |-> None]

-----------------------------------------------------------------------------
(* WriterBuilder::create and ReaderBuilder::create *)

\* The segment's name is a function of service and node, and it is created
\* exclusively: a second create on the same handle fails here.
CreateSegment ==
    /\ wiring = "none"
    /\ wiring' = "segment"
    /\ UNCHANGED <<sequence, data, writer, reader>>

RegisterWriter ==
    /\ wiring = "segment"
    /\ wiring' = "writer"
    /\ UNCHANGED <<sequence, data, writer, reader>>

\* Before a writer is registered the call fails with NotFound.
CreateReader(r) ==
    /\ wiring = "writer" /\ rpc[r] = "absent"
    /\ rpc' = [rpc EXCEPT ![r] = "idle"]
    /\ UNCHANGED <<wiring, sequence, data, writer, s1, s2, rtodo, copy, result>>

-----------------------------------------------------------------------------
(* Writer::write *)

WriteCall ==
    /\ wiring = "writer" /\ wpc = "idle" /\ writes < MaxWrites
    /\ wpc' = "begin" /\ wseq' = sequence /\ wtodo' = Word /\ writes' = writes + 1
    /\ UNCHANGED <<wiring, sequence, data, reader>>

StoreOdd ==
    /\ wpc = "begin"
    /\ sequence' = (wseq + 1) % SeqMod
    /\ wpc' = "store"
    /\ UNCHANGED <<wiring, data, wseq, wtodo, writes, reader>>

StoreWord(w) ==
    /\ wpc = "store" \/ (wpc = "begin" /\ ~InOrder)
    /\ w \in wtodo
    /\ data' = [data EXCEPT ![w] = writes]
    /\ wtodo' = wtodo \ {w}
    /\ UNCHANGED <<wiring, sequence, wpc, wseq, writes, reader>>

\* The write phase is ended with an odd number again.
StoreEvenMissed ==
    /\ wpc = "store" /\ wtodo = {}
    /\ sequence' = (wseq + 1) % SeqMod
    /\ wpc' = "idle"
    /\ UNCHANGED <<wiring, data, wseq, wtodo, writes, reader>>

\* A Release store waits for every store before it.
StoreEven ==
    /\ wpc = "store" /\ wtodo = {}
    /\ sequence' = (wseq + 2) % SeqMod
    /\ wpc' = "idle"
    /\ UNCHANGED <<wiring, data, wseq, wtodo, writes, reader>>

-----------------------------------------------------------------------------
(* Reader::read *)

ReadCall(r) ==
    /\ rpc[r] = "idle"
    /\ rpc' = [rpc EXCEPT ![r] = "first"]
    /\ UNCHANGED <<wiring, sequence, data, writer, s1, s2, rtodo, copy, result>>

\* The first load.  Zero: nothing was written, the call returns None.
ReadNone(r) ==
    /\ rpc[r] = "first" /\ sequence = 0
    /\ rpc' = [rpc EXCEPT ![r] = "idle"]
    /\ result' = [result EXCEPT ![r] = None]
    /\ UNCHANGED <<wiring, sequence, data, writer, s1, s2, rtodo, copy>>

\* The first load without the test for zero in front of it.
LoadFirstUntested(r) ==
    /\ rpc[r] = "first" /\ sequence % 2 = 0
    /\ s1' = [s1 EXCEPT ![r] = sequence]
    /\ rtodo' = [rtodo EXCEPT ![r] = Word]
    /\ rpc' = [rpc EXCEPT ![r] = "copy"]
    /\ UNCHANGED <<wiring, sequence, data, writer, s2, copy, result>>

\* Even: go on to the copy.  Odd: spin, which changes nothing.
LoadFirst(r) ==
    /\ rpc[r] = "first" /\ sequence # 0 /\ sequence % 2 = 0
    /\ s1' = [s1 EXCEPT ![r] = sequence]
    /\ rtodo' = [rtodo EXCEPT ![r] = Word]
    /\ rpc' = [rpc EXCEPT ![r] = "copy"]
    /\ UNCHANGED <<wiring, sequence, data, writer, s2, copy, result>>

LoadWord(r, w) ==
    /\ rpc[r] = "copy" \/ (rpc[r] = "check" /\ ~InOrder)
    /\ w \in rtodo[r]
    /\ copy' = [copy EXCEPT ![r][w] = data[w]]
    /\ rtodo' = [rtodo EXCEPT ![r] = @ \ {w}]
    /\ UNCHANGED <<wiring, sequence, data, writer, rpc, s1, s2, result>>

LoadSecond(r) ==
    /\ rpc[r] = "copy"
    /\ InOrder => rtodo[r] = {}
    /\ s2' = [s2 EXCEPT ![r] = sequence]
    /\ rpc' = [rpc EXCEPT ![r] = "check"]
    /\ UNCHANGED <<wiring, sequence, data, writer, s1, rtodo, copy, result>>

\* The comparison of the parity only.
SameParity(r) == s1[r] % 2 = s2[r] % 2

Unchanged(r) == s1[r] = s2[r]

\* Equal numbers: the copy is the answer.  Different ones: start again.
Return(r) ==
    /\ rpc[r] = "check" /\ rtodo[r] = {}
    /\ Unchanged(r)
    /\ rpc' = [rpc EXCEPT ![r] = "idle"]
    /\ result' = [result EXCEPT ![r] = copy[r]]
    /\ UNCHANGED <<wiring, sequence, data, writer, s1, s2, rtodo, copy>>

Retry(r) ==
    /\ rpc[r] = "check" /\ rtodo[r] = {}
    /\ ~Unchanged(r)
    /\ rpc' = [rpc EXCEPT ![r] = "first"]
    /\ UNCHANGED <<wiring, sequence, data, writer, s1, s2, rtodo, copy, result>>

-----------------------------------------------------------------------------
WriterStep ==
    \/ StoreOdd \/ StoreEven
    \/ \E w \in Word : StoreWord(w)

ReaderStep(r) ==
    \/ ReadNone(r) \/ LoadFirst(r) \/ LoadSecond(r) \/ Return(r) \/ Retry(r)
    \/ \E w \in Word : LoadWord(r, w)

Next ==
    \/ CreateSegment \/ RegisterWriter \/ WriteCall \/ WriterStep
    \/ \E r \in Reader : CreateReader(r) \/ ReadCall(r) \/ ReaderStep(r)

SafetySpec == Init /\ [][Next]_vars

\* A call under way is run by a thread the scheduler keeps running; nothing
\* obliges a thread to make a call.
Fairness ==
    /\ WF_vars(WriterStep)
    /\ \A r \in Reader : WF_vars(ReaderStep(r))

Spec == SafetySpec /\ Fairness

-----------------------------------------------------------------------------
(* Properties *)

\* Every variable stays in its range: the counter within its 64 bits, the
\* words that are copied within the chunk writer.rs sized for a T.
TypeOK ==
    /\ wiring \in {"none", "segment", "writer"}
    /\ sequence \in Seq64
    /\ data \in Value
    /\ wpc \in {"idle", "begin", "store"}
    /\ wseq \in Seq64 /\ wtodo \in SUBSET Word /\ writes \in 0 .. MaxWrites
    /\ rpc \in [Reader -> {"absent", "idle", "first", "copy", "check"}]
    /\ s1 \in [Reader -> Seq64] /\ s2 \in [Reader -> Seq64]
    /\ rtodo \in [Reader -> SUBSET Word]
    /\ copy \in [Reader -> Value]
    /\ result \in [Reader -> Value \union {None}]

\* No read returns a torn value: all words of what Reader::read gives its
\* caller were stored by one and the same write().
ConsistentReads ==
    \A r \in Reader : result[r] # None =>
        \A v, w \in Word : result[r][v] = result[r][w]

\* When program order is kept: the sequence number counts the stores of odd and even
\* numbers, and the chunk is whole except between the two.
WriterKnows ==
    /\ wpc = "idle" => sequence = 2 * writes
    /\ wpc = "begin" =>
          writes > 0 /\ wseq = sequence /\ sequence = 2 * (writes - 1) /\ wtodo = Word
    /\ wpc = "store" =>
          /\ writes > 0 /\ wseq = 2 * (writes - 1) /\ sequence = 2 * writes - 1
          /\ \A w \in Word \ wtodo : data[w] = writes
    /\ wpc # "store" => \A w \in Word : 2 * data[w] = sequence

\* And what a reader has copied is of the write its first number stands for, as long as
\* the number has not moved.
ReadersKnow ==
    \A r \in Reader :
        /\ rpc[r] \in {"copy", "check"} =>
              s1[r] <= sequence /\ \E k \in 1 .. MaxWrites : s1[r] = 2 * k
        /\ rpc[r] = "copy" /\ s1[r] = sequence =>
              \A w \in Word \ rtodo[r] : 2 * copy[r][w] = s1[r]
        /\ rpc[r] = "check" =>
              rtodo[r] = {} /\ (Unchanged(r) => \A w \in Word : 2 * copy[r][w] = s1[r])

(* The inductive invariant of the sequence lock, when program order is kept. *)
IndInv == TypeOK /\ WriterKnows /\ ReadersKnow /\ ConsistentReads

\* The abstract register.  A write takes effect with the even store; a read
\* that will return its copy took effect with its second load, a read that
\* returns None with its first.
Latest == IF sequence < 2 THEN None ELSE Uniform(sequence \div 2)
Seen == [r \in Reader |-> IF rpc[r] = "check" /\ Unchanged(r) THEN copy[r] ELSE result[r]]

Register == INSTANCE AtomicRegister WITH latest <- Latest, seen <- Seen

\* The seqlock is an atomic register: a read returns the whole value of the
\* last write finished at some instant of the call, and None only when no
\* write had finished; so successive reads never go back.
ImplementsRegister == Register!Spec

\* A read returns once the writer leaves it the time: with finitely many
\* writes no reader of reader.rs spins in its retry loop for ever.
ReadReturns == \A r \in Reader : rpc[r] = "first" ~> rpc[r] = "idle"
=============================================================================
