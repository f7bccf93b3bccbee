----------------------------- MODULE SpscQueue -----------------------------
(***************************************************************************)
(* The single-producer single-consumer ring of                             *)
(* entangle-lockfree/src/spsc_queue.rs, one atomic access per step.  The   *)
(* positions are machine words: they wrap at PosMod (2^64 in the code) and *)
(* a slot's number is the position modulo the capacity.  A load of its own *)
(* position by the only thread that writes it is part of the step before.  *)
(*                                                                         *)
(* Every access that publishes or observes a position is Release/Acquire   *)
(* in the code and each side reads only what the other released before, so *)
(* steps on a single memory are the executions the code has.               *)
(*                                                                         *)
(* `queue` is a history variable: the elements pushed and not yet popped.  *)
(***************************************************************************)
EXTENDS Integers, Sequences

CONSTANTS
    Value,      \* what is pushed: 64-bit pointer offsets in the code
    Nothing,    \* no value (None)
    Capacity,   \* number of slots, a power of two of at least 2
    PosMod,     \* number of position values
    MaxOvertake \* bound: pops between the two loads of one len() call

ASSUME ValueAssumption == Nothing \notin Value
ASSUME CapacityAssumption == Capacity \in Nat /\ Capacity >= 2
ASSUME PositionAssumption == PosMod \in Nat /\ \E m \in 1 .. PosMod : PosMod = m * Capacity
ASSUME OvertakeAssumption == MaxOvertake \in Nat /\ MaxOvertake + Capacity < PosMod

VARIABLES
    write_pos,  \* producer-owned position
    read_pos,   \* consumer-owned position
    data,       \* the slots
    ppc,        \* where the producer is
    pval,       \* its argument, Nothing between calls
    pushed,     \* what its last push returned
    cpc,        \* where the consumer is
    cval,       \* the value it has loaded
    popped,     \* what its last pop returned
    opc,        \* where an observer, any thread that calls len(), is
    oread,      \* its copy of read_pos
    overtaken,  \* history: pops since it took that copy
    queue       \* history: the elements in the queue, oldest first

producer == <<ppc, pval, pushed>>
consumer == <<cpc, cval, popped>>
observer == <<opc, oread, overtaken>>
vars == <<write_pos, read_pos, data, producer, consumer, observer, queue>>

Position == 0 .. PosMod - 1
Slot == 0 .. Capacity - 1

\* wrapping_add(1) and `pos & mask` on positions.
Advance(p) == (p + 1) % PosMod
SlotOf(p) == p % Capacity

\* A distance masked like a slot number: a full queue looks empty.
MaskedDistance(w, r) == (w - r) % Capacity

\* wrapping_sub
Distance(w, r) == (w - r) % PosMod

Init ==
    /\ write_pos = 0 /\ read_pos = 0
    /\ data = [s \in Slot |-> Nothing]      \* 0 in the code; never read before a push
    /\ ppc = "idle" /\ pval = Nothing /\ pushed = FALSE
    /\ cpc = "idle" /\ cval = Nothing /\ popped = Nothing
    /\ opc = "idle" /\ oread = 0 /\ overtaken = 0
    /\ queue = <<>>

-----------------------------------------------------------------------------
(* push(value), by the producer *)

PushCall(v) ==
    /\ ppc = "idle"
    /\ ppc' = "loadRead" /\ pval' = v
    /\ UNCHANGED <<write_pos, read_pos, data, pushed, consumer, observer, queue>>

\* The test that lets one element too many in.
Overfull(w, r) == Distance(w, r) > Capacity

Full(w, r) == Distance(w, r) >= Capacity

\* read_pos is loaded, and a full queue refuses the value.
PushLoadRead ==
    /\ ppc = "loadRead"
    /\ \/ /\ Full(write_pos, read_pos)
          /\ ppc' = "idle" /\ pval' = Nothing /\ pushed' = FALSE
       \/ /\ ~Full(write_pos, read_pos)
          /\ ppc' = "store"
          /\ UNCHANGED <<pval, pushed>>
    /\ UNCHANGED <<write_pos, read_pos, data, consumer, observer, queue>>

PushStore ==
    /\ ppc = "store"
    /\ data' = [data EXCEPT ![SlotOf(write_pos)] = pval]
    /\ ppc' = "publish"
    /\ UNCHANGED <<write_pos, read_pos, pval, pushed, consumer, observer, queue>>

PushPublish ==
    /\ ppc = "publish"
    /\ write_pos' = Advance(write_pos)
    /\ queue' = Append(queue, pval)
    /\ ppc' = "idle" /\ pval' = Nothing /\ pushed' = TRUE
    /\ UNCHANGED <<read_pos, data, consumer, observer>>

-----------------------------------------------------------------------------
(* pop(), by the consumer *)

PopCall ==
    /\ cpc = "idle"
    /\ cpc' = "loadWrite"
    /\ UNCHANGED <<write_pos, read_pos, data, producer, cval, popped, observer, queue>>

\* write_pos is loaded, and an empty queue yields None.
PopLoadWrite ==
    /\ cpc = "loadWrite"
    /\ \/ read_pos = write_pos /\ cpc' = "idle" /\ popped' = Nothing
       \/ read_pos # write_pos /\ cpc' = "load" /\ UNCHANGED popped
    /\ UNCHANGED <<write_pos, read_pos, data, producer, cval, observer, queue>>

\* The slot after the one at read_pos.
PopLoadsNext ==
    /\ cpc = "load"
    /\ cval' = data[SlotOf(read_pos + 1)]
    /\ cpc' = "publish"
    /\ UNCHANGED <<write_pos, read_pos, data, producer, popped, observer, queue>>

PopLoad ==
    /\ cpc = "load"
    /\ cval' = data[SlotOf(read_pos)]
    /\ cpc' = "publish"
    /\ UNCHANGED <<write_pos, read_pos, data, producer, popped, observer, queue>>

PopPublish ==
    /\ cpc = "publish"
    /\ opc = "loadWrite" => overtaken < MaxOvertake
    /\ read_pos' = Advance(read_pos)
    /\ queue' = (IF queue = <<>> THEN <<>> ELSE Tail(queue))
    /\ overtaken' = (IF opc = "loadWrite" THEN overtaken + 1 ELSE 0)
    /\ popped' = cval
    /\ cpc' = "idle" /\ cval' = Nothing
    /\ UNCHANGED <<write_pos, data, producer, opc, oread>>

-----------------------------------------------------------------------------
(* len(), is_empty() and is_full(), by any thread: read_pos, then write_pos *)

LenCall ==
    /\ opc = "idle"
    /\ opc' = "loadWrite" /\ oread' = read_pos
    /\ UNCHANGED <<write_pos, read_pos, data, producer, consumer, overtaken, queue>>

\* What the call returns when it loads write_pos now.
LenSeen == Distance(write_pos, oread)
EmptySeen == oread = write_pos
FullSeen == Full(write_pos, oread)

LenReturn ==
    /\ opc = "loadWrite"
    /\ opc' = "idle" /\ oread' = 0 /\ overtaken' = 0
    /\ UNCHANGED <<write_pos, read_pos, data, producer, consumer, queue>>

-----------------------------------------------------------------------------
Produce == PushLoadRead \/ PushStore \/ PushPublish
Consume == PopLoadWrite \/ PopLoad \/ PopPublish

Next ==
    \/ \E v \in Value : PushCall(v)
    \/ Produce
    \/ PopCall \/ Consume
    \/ LenCall \/ LenReturn

Spec == Init /\ [][Next]_vars

-----------------------------------------------------------------------------
(* Properties *)

(* Type invariant of the ring and of the callers' locals. *)
TypeOK ==
    /\ write_pos \in Position /\ read_pos \in Position
    /\ data \in [Slot -> Value \union {Nothing}]
    /\ ppc \in {"idle", "loadRead", "store", "publish"}
    /\ pval \in Value \union {Nothing} /\ pushed \in BOOLEAN
    /\ cpc \in {"idle", "loadWrite", "load", "publish"}
    /\ cval \in Value \union {Nothing} /\ popped \in Value \union {Nothing}
    /\ opc \in {"idle", "loadWrite"} /\ oread \in Position /\ overtaken \in 0 .. MaxOvertake
    /\ queue \in Seq(Value)

(* The ring holds the queue: between the two positions, modulo their wrap-around, every
   slot keeps the value pushed there until it is popped, so the producer never overwrites
   a slot the consumer has yet to read, and the consumer never reads one that is not
   written (push and pop, spsc_queue.rs:54-94). *)
RingHoldsQueue ==
    /\ Len(queue) = Distance(write_pos, read_pos)
    /\ Len(queue) <= Capacity
    /\ \A k \in 1 .. Len(queue) : data[SlotOf(read_pos + k - 1)] = queue[k]
    /\ cpc = "publish" => queue # <<>> /\ cval = queue[1]

(* An observer never sees fewer elements than there are when it returns: it may count
   elements popped meanwhile, but is_empty() never hides one (a disconnected channel
   reports ConnectionBroken only when is_empty(), channel.rs:70).  The order of the two
   loads, read_pos first, is what makes this hold. *)
NeverUnderReports ==
    opc = "loadWrite" =>
        /\ LenSeen = Len(queue) + overtaken
        /\ EmptySeen => queue = <<>>
        /\ Len(queue) = Capacity => FullSeen

\* What a call in progress knows: the producer has its value, has seen room, which only it
\* can fill, and has stored the value in the first slot that is not in use; the consumer has
\* seen an element, which only it can take.
CallsKnow ==
    /\ pval = Nothing <=> ppc = "idle"
    /\ ppc \in {"store", "publish"} => Len(queue) < Capacity
    /\ ppc = "publish" => data[SlotOf(write_pos)] = pval
    /\ cpc \in {"load", "publish"} => queue # <<>>
    /\ opc = "idle" => overtaken = 0

(* The inductive invariant behind RingHoldsQueue and NeverUnderReports. *)
IndInv == TypeOK /\ RingHoldsQueue /\ NeverUnderReports /\ CallsKnow

Fifo == INSTANCE BoundedFifo WITH
    fifo <- queue,
    pushing <- pval,
    popping <- cpc # "idle"

(* Linearizability: push and pop take effect where they publish their position; push is
   refused only at an instant when the queue is full, pop is empty-handed only at an
   instant when it is empty, and values come out in the order they went in. *)
ImplementsFifo == Fifo!Spec

=============================================================================
