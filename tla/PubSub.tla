------------------------------- MODULE PubSub -------------------------------
(***************************************************************************)
(* Publish-subscribe: entangle/src/port/{publisher,subscriber}.rs,         *)
(* entangle/src/sample.rs and entangle/src/service/pubsub.rs over the      *)
(* channels and pools of entangle-transport.                               *)
(*                                                                         *)
(* Each publisher owns a segment of BufferSize chunks and one channel per  *)
(* subscriber that was created after it.  A chunk is loaned, written,      *)
(* pushed to every channel, received, and comes back through the return    *)
(* queue of each channel when the Sample is dropped; `reclaim` gives it    *)
(* back to the pool.  Any thread may send or drop a SampleMut, and any     *)
(* thread may drop a Sample; `loan` (&mut self) excludes `reclaim` (&self) *)
(* on the same publisher.  `send` and `reclaim` hold the publisher's       *)
(* `channels` mutex, and creating a subscriber holds the wiring mutex and  *)
(* takes each `channels` mutex in turn.                                    *)
(*                                                                         *)
(* The pool is IndexPool, which UniqueIndexSet implements, and a queue is  *)
(* BoundedFifo, which SpscQueue implements: their calls are one step here. *)
(* `lost` is a history variable: chunks sent that no channel carries.      *)
(***************************************************************************)
EXTENDS Integers, Sequences, FiniteSets, Functions

CONSTANTS
    Pub, Sub,     \* the publisher and subscriber ports that may be created
    NoSub,        \* no subscriber
    BufferSize,   \* qos.buffer_size: chunks of a segment, requested queue size
    MaxLoaned,    \* qos.max_loaned_samples
    LoanMod       \* number of values of the usize counter active_loans

ASSUME PortsAssumption == IsFiniteSet(Pub) /\ IsFiniteSet(Sub) /\ NoSub \notin Sub
ASSUME BufferAssumption == BufferSize \in Nat \ {0} /\ MaxLoaned \in Nat
ASSUME LoanModAssumption == LoanMod \in Nat /\ LoanMod > MaxLoaned + BufferSize

VARIABLES
    wiring,      \* registered publishers, in order (PubSubShared.inner)
    joining,     \* the subscriber being created and the publisher it is at
    pubLive,     \* publisher ports that exist
    subLive,     \* subscriber ports that exist
    subMade,     \* subscribers ever created
    conns,       \* each subscriber's connections, in order
    channels,    \* each publisher's channels, in order
    sendq,       \* send_queue of the channel from p to s
    retq,        \* return_queue of the channel from p to s
    free,        \* chunks in the pool
    loans,       \* active_loans
    loan,        \* where each publisher's loan() is
    loaned,      \* the chunk it has allocated
    out,         \* how many SampleMut the callers have on each chunk
    uncounted,   \* SampleMut drops that have freed the chunk but not yet counted
    mutex,       \* who holds `channels`, and where it is
    cursor,      \* the channel it is at
    hand,        \* the chunk it is handling
    polling,     \* the connection each subscriber's receive() is at, 0 outside
    held,        \* how many Sample each subscriber has on each chunk
    lost         \* history

shared == <<wiring, joining, pubLive, subLive, subMade, conns, channels>>
pool == <<free, loans>>
samples == <<loan, loaned, out, uncounted>>
locks == <<mutex, cursor, hand>>
vars == <<shared, sendq, retq, pool, samples, locks, polling, held, lost>>

Chunk == 1 .. BufferSize
NoChunk == 0

\* capacity.next_power_of_two().max(2), the size SpscQueue::new gives a queue
QueueCapacity(n) == CHOOSE c \in {2 ^ k : k \in 1 .. n} : c >= n /\ (c = 2 \/ c < 2 * n)
QCap == QueueCapacity(BufferSize)

\* What next_power_of_two promises.
ASSUME QueueAssumption == QCap \in Nat /\ QCap >= BufferSize

\* fetch_sub(1) on a usize.
Decrement(n) == (n - 1) % LoanMod

Init ==
    /\ wiring = <<>>
    /\ joining = [sub |-> NoSub, at |-> 1]
    /\ pubLive = {} /\ subLive = {} /\ subMade = {}
    /\ conns = [s \in Sub |-> <<>>]
    /\ channels = [p \in Pub |-> <<>>]
    /\ sendq = [p \in Pub |-> [s \in Sub |-> <<>>]]
    /\ retq = [p \in Pub |-> [s \in Sub |-> <<>>]]
    /\ free = [p \in Pub |-> Chunk]
    /\ loans = [p \in Pub |-> 0]
    /\ loan = [p \in Pub |-> "idle"] /\ loaned = [p \in Pub |-> NoChunk]
    /\ out = [p \in Pub |-> [c \in Chunk |-> 0]]
    /\ uncounted = [p \in Pub |-> 0]
    /\ mutex = [p \in Pub |-> "free"]
    /\ cursor = [p \in Pub |-> 1]
    /\ hand = [p \in Pub |-> NoChunk]
    /\ polling = [s \in Sub |-> 0]
    /\ held = [s \in Sub |-> [p \in Pub |-> [c \in Chunk |-> 0]]]
    /\ lost = [p \in Pub |-> {}]

-----------------------------------------------------------------------------
(* Creating and dropping ports *)

WiringFree == joining.sub = NoSub

\* PublisherBuilder::create: the publisher registers under the wiring mutex.
PublisherCreate(p) ==
    /\ WiringFree
    /\ p \notin Range(wiring)
    /\ wiring' = Append(wiring, p)
    /\ pubLive' = pubLive \union {p}
    /\ UNCHANGED <<joining, subLive, subMade, conns, channels>>
    /\ UNCHANGED <<sendq, retq, pool, samples, locks, polling, held, lost>>

\* SubscriberBuilder::create, with the wiring mutex held from here ...
SubscriberCreate(s) ==
    /\ WiringFree
    /\ s \notin subMade
    /\ subMade' = subMade \union {s}
    /\ joining' = [sub |-> s, at |-> 1]
    /\ UNCHANGED <<wiring, pubLive, subLive, conns, channels>>
    /\ UNCHANGED <<sendq, retq, pool, samples, locks, polling, held, lost>>

\* ... a channel to each registered publisher, under that publisher's mutex ...
SubscriberConnect(s) ==
    /\ joining.sub = s
    /\ joining.at <= Len(wiring)
    /\ LET p == wiring[joining.at] IN
          /\ mutex[p] = "free"
          /\ channels' = [channels EXCEPT ![p] = Append(@, s)]
          /\ conns' = [conns EXCEPT ![s] = Append(@, p)]
    /\ joining' = [joining EXCEPT !.at = @ + 1]
    /\ UNCHANGED <<wiring, pubLive, subLive, subMade>>
    /\ UNCHANGED <<sendq, retq, pool, samples, locks, polling, held, lost>>

\* ... to here.
SubscriberReady(s) ==
    /\ joining.sub = s
    /\ joining.at > Len(wiring)
    /\ joining' = [sub |-> NoSub, at |-> 1]
    /\ subLive' = subLive \union {s}
    /\ UNCHANGED <<wiring, pubLive, subMade, conns, channels>>
    /\ UNCHANGED <<sendq, retq, pool, samples, locks, polling, held, lost>>

\* Dropping a port runs no code: registration and channels stay.
PublisherDrop(p) ==
    /\ p \in pubLive /\ loan[p] = "idle" /\ mutex[p] \in {"free", "send"}
    /\ pubLive' = pubLive \ {p}
    /\ UNCHANGED <<wiring, joining, subLive, subMade, conns, channels>>
    /\ UNCHANGED <<sendq, retq, pool, samples, locks, polling, held, lost>>

SubscriberDrop(s) ==
    /\ s \in subLive /\ polling[s] = 0
    /\ subLive' = subLive \ {s}
    /\ UNCHANGED <<wiring, joining, pubLive, subMade, conns, channels>>
    /\ UNCHANGED <<sendq, retq, pool, samples, locks, polling, held, lost>>

-----------------------------------------------------------------------------
(* Publisher::loan, and dropping a SampleMut unsent *)

\* The check that forgets the limit.
LoanUnchecked(p) ==
    /\ p \in pubLive /\ loan[p] = "idle" /\ mutex[p] \in {"free", "send"}
    /\ loan' = [loan EXCEPT ![p] = "checked"]
    /\ UNCHANGED <<shared, sendq, retq, pool, loaned, out, uncounted, locks, polling, held, lost>>

\* Fails with ExceedsMaxLoans otherwise.
LoanCheck(p) ==
    /\ p \in pubLive /\ loan[p] = "idle" /\ mutex[p] \in {"free", "send"}
    /\ loans[p] < MaxLoaned
    /\ loan' = [loan EXCEPT ![p] = "checked"]
    /\ UNCHANGED <<shared, sendq, retq, pool, loaned, out, uncounted, locks, polling, held, lost>>

LoanAllocate(p, c) ==
    /\ loan[p] = "checked"
    /\ c \in free[p]
    /\ free' = [free EXCEPT ![p] = @ \ {c}]
    /\ loan' = [loan EXCEPT ![p] = "allocated"]
    /\ loaned' = [loaned EXCEPT ![p] = c]
    /\ UNCHANGED <<shared, sendq, retq, loans, out, uncounted, locks, polling, held, lost>>

LoanOutOfMemory(p) ==
    /\ loan[p] = "checked"
    /\ free[p] = {}
    /\ loan' = [loan EXCEPT ![p] = "idle"]
    /\ UNCHANGED <<shared, sendq, retq, pool, loaned, out, uncounted, locks, polling, held, lost>>

\* Counted, zeroed and handed to the caller.
LoanReturn(p) ==
    /\ loan[p] = "allocated"
    /\ loans' = [loans EXCEPT ![p] = (@ + 1) % LoanMod]
    /\ out' = [out EXCEPT ![p][loaned[p]] = @ + 1]
    /\ loan' = [loan EXCEPT ![p] = "idle"]
    /\ loaned' = [loaned EXCEPT ![p] = NoChunk]
    /\ UNCHANGED <<shared, sendq, retq, free, uncounted, locks, polling, held, lost>>

SampleMutDrop(p, c) ==
    /\ out[p][c] > 0
    /\ out' = [out EXCEPT ![p][c] = @ - 1]
    /\ free' = [free EXCEPT ![p] = @ \union {c}]
    /\ uncounted' = [uncounted EXCEPT ![p] = @ + 1]
    /\ UNCHANGED <<shared, sendq, retq, loans, loan, loaned, locks, polling, held, lost>>

SampleMutDropCount(p) ==
    /\ uncounted[p] > 0
    /\ uncounted' = [uncounted EXCEPT ![p] = @ - 1]
    /\ loans' = [loans EXCEPT ![p] = Decrement(@)]
    /\ UNCHANGED <<shared, sendq, retq, free, loan, loaned, out, locks, polling, held, lost>>

-----------------------------------------------------------------------------
(* SampleMut::send: the offset goes to every channel, under `channels` *)

Lock(p, where, c) ==
    /\ mutex' = [mutex EXCEPT ![p] = where]
    /\ cursor' = [cursor EXCEPT ![p] = 1]
    /\ hand' = [hand EXCEPT ![p] = c]

\* A send that forgets to take drop_fn away: the chunk is freed when it returns.
SendBeginKeepsDrop(p, c) ==
    /\ out[p][c] > 0
    /\ mutex[p] = "free"
    /\ out' = [out EXCEPT ![p][c] = @ - 1]
    /\ free' = [free EXCEPT ![p] = @ \union {c}]
    /\ uncounted' = [uncounted EXCEPT ![p] = @ + 1]
    /\ Lock(p, "send", c)
    /\ UNCHANGED <<shared, sendq, retq, loans, loan, loaned, polling, held, lost>>

SendBegin(p, c) ==
    /\ out[p][c] > 0
    /\ mutex[p] = "free"
    /\ out' = [out EXCEPT ![p][c] = @ - 1]
    /\ Lock(p, "send", c)
    /\ UNCHANGED <<shared, sendq, retq, pool, loan, loaned, uncounted, polling, held, lost>>

\* The send is over: a chunk that no channel took is lost.
EndSend(p) ==
    /\ Lock(p, "free", NoChunk)
    /\ lost' = [lost EXCEPT ![p] = IF cursor[p] = 1 THEN @ \union {hand[p]} ELSE @]

SendPush(p) ==
    /\ mutex[p] = "send"
    /\ cursor[p] <= Len(channels[p])
    /\ LET s == channels[p][cursor[p]] IN
          \/ /\ Len(sendq[p][s]) < QCap
             /\ sendq' = [sendq EXCEPT ![p][s] = Append(@, hand[p])]
             /\ cursor' = [cursor EXCEPT ![p] = @ + 1]
             /\ UNCHANGED <<mutex, hand, lost>>
          \/ /\ Len(sendq[p][s]) >= QCap          \* Err(QueueFull): the rest is skipped
             /\ EndSend(p)
             /\ UNCHANGED sendq
    /\ UNCHANGED <<shared, retq, pool, samples, polling, held>>

SendReturn(p) ==
    /\ mutex[p] = "send"
    /\ cursor[p] > Len(channels[p])
    /\ EndSend(p)
    /\ UNCHANGED <<shared, sendq, retq, pool, samples, polling, held>>

-----------------------------------------------------------------------------
(* Subscriber::receive, and dropping a Sample *)

ReceiveCall(s) ==
    /\ s \in subLive /\ polling[s] = 0
    /\ polling' = [polling EXCEPT ![s] = 1]
    /\ UNCHANGED <<shared, sendq, retq, pool, samples, locks, held, lost>>

\* The first connection with something in it yields a Sample; an empty one is passed over.
ReceivePoll(s) ==
    /\ polling[s] > 0
    /\ polling[s] <= Len(conns[s])
    /\ LET p == conns[s][polling[s]] IN
          \/ /\ sendq[p][s] # <<>>
             /\ sendq' = [sendq EXCEPT ![p][s] = Tail(@)]
             /\ held' = [held EXCEPT ![s][p][Head(sendq[p][s])] = @ + 1]
             /\ polling' = [polling EXCEPT ![s] = 0]
          \/ /\ sendq[p][s] = <<>>
             /\ polling' = [polling EXCEPT ![s] = @ + 1]
             /\ UNCHANGED <<sendq, held>>
    /\ UNCHANGED <<shared, retq, pool, samples, locks, lost>>

ReceiveNone(s) ==
    /\ polling[s] > Len(conns[s])
    /\ polling' = [polling EXCEPT ![s] = 0]
    /\ UNCHANGED <<shared, sendq, retq, pool, samples, locks, held, lost>>

\* A Sample that is not returned when it is dropped.
SampleDropForgets(s, p, c) ==
    /\ held[s][p][c] > 0
    /\ Len(retq[p][s]) < QCap
    /\ held' = [held EXCEPT ![s][p][c] = @ - 1]
    /\ UNCHANGED <<shared, sendq, retq, pool, samples, locks, polling, lost>>

\* A drop that returns the offset and keeps the Sample: it will return it again.
SampleDropTwice(s, p, c) ==
    /\ held[s][p][c] > 0
    /\ Len(retq[p][s]) < QCap
    /\ retq' = [retq EXCEPT ![p][s] = Append(@, c)]
    /\ UNCHANGED <<shared, sendq, pool, samples, locks, polling, held, lost>>

\* return_offset spins while the return queue is full.
SampleDrop(s, p, c) ==
    /\ held[s][p][c] > 0
    /\ Len(retq[p][s]) < QCap
    /\ held' = [held EXCEPT ![s][p][c] = @ - 1]
    /\ retq' = [retq EXCEPT ![p][s] = Append(@, c)]
    /\ UNCHANGED <<shared, sendq, pool, samples, locks, polling, lost>>

-----------------------------------------------------------------------------
(* Publisher::reclaim: drain every return queue, under `channels` *)

ReclaimBegin(p) ==
    /\ p \in pubLive /\ loan[p] = "idle"
    /\ mutex[p] = "free"
    /\ Lock(p, "reclaim", NoChunk)
    /\ UNCHANGED <<shared, sendq, retq, pool, samples, polling, held, lost>>

ReclaimPop(p) ==
    /\ mutex[p] = "reclaim"
    /\ cursor[p] <= Len(channels[p])
    /\ LET s == channels[p][cursor[p]] IN
          \/ /\ retq[p][s] # <<>>
             /\ hand' = [hand EXCEPT ![p] = Head(retq[p][s])]
             /\ retq' = [retq EXCEPT ![p][s] = Tail(@)]
             /\ mutex' = [mutex EXCEPT ![p] = "deallocate"]
             /\ UNCHANGED cursor
          \/ /\ retq[p][s] = <<>>
             /\ cursor' = [cursor EXCEPT ![p] = @ + 1]
             /\ UNCHANGED <<retq, hand, mutex>>
    /\ UNCHANGED <<shared, sendq, pool, samples, polling, held, lost>>

ReclaimDeallocate(p) ==
    /\ mutex[p] = "deallocate"
    /\ free' = [free EXCEPT ![p] = @ \union {hand[p]}]
    /\ hand' = [hand EXCEPT ![p] = NoChunk]
    /\ mutex' = [mutex EXCEPT ![p] = "count"]
    /\ UNCHANGED <<shared, sendq, retq, loans, samples, cursor, polling, held, lost>>

\* A reclaim that frees the chunk and leaves the loan on the books.
ReclaimUncounted(p) ==
    /\ mutex[p] = "count"
    /\ mutex' = [mutex EXCEPT ![p] = "reclaim"]
    /\ UNCHANGED <<shared, sendq, retq, pool, samples, cursor, hand, polling, held, lost>>

ReclaimCount(p) ==
    /\ mutex[p] = "count"
    /\ loans' = [loans EXCEPT ![p] = Decrement(@)]
    /\ mutex' = [mutex EXCEPT ![p] = "reclaim"]
    /\ UNCHANGED <<shared, sendq, retq, free, samples, cursor, hand, polling, held, lost>>

ReclaimReturn(p) ==
    /\ mutex[p] = "reclaim"
    /\ cursor[p] > Len(channels[p])
    /\ Lock(p, "free", NoChunk)
    /\ UNCHANGED <<shared, sendq, retq, pool, samples, polling, held, lost>>

-----------------------------------------------------------------------------
LoanStep(p) == LoanOutOfMemory(p) \/ LoanReturn(p) \/ \E c \in Chunk : LoanAllocate(p, c)
SendStep(p) == SendPush(p) \/ SendReturn(p)
ReclaimStep(p) == ReclaimPop(p) \/ ReclaimDeallocate(p) \/ ReclaimCount(p) \/ ReclaimReturn(p)
ReceiveStep(s) == ReceivePoll(s) \/ ReceiveNone(s)
JoinStep(s) == SubscriberConnect(s) \/ SubscriberReady(s)
DropSamples(s) == \E p \in Pub, c \in Chunk : SampleDrop(s, p, c)

Next ==
    \/ \E p \in Pub :
          \/ PublisherCreate(p) \/ PublisherDrop(p)
          \/ LoanCheck(p) \/ LoanStep(p) \/ SampleMutDropCount(p)
          \/ SendStep(p)
          \/ ReclaimBegin(p) \/ ReclaimStep(p)
          \/ \E c \in Chunk : SampleMutDrop(p, c) \/ SendBegin(p, c)
    \/ \E s \in Sub :
          \/ SubscriberCreate(s) \/ JoinStep(s) \/ SubscriberDrop(s)
          \/ ReceiveCall(s) \/ ReceiveStep(s) \/ DropSamples(s)

\* Every call that has started is scheduled; a subscriber that exists keeps calling
\* receive and drops each sample it received; a publisher that exists calls reclaim again and
\* again, and its wait for the mutex ends.
Fairness ==
    /\ \A p \in Pub :
          /\ WF_vars(LoanStep(p)) /\ WF_vars(SampleMutDropCount(p)) /\ WF_vars(SendStep(p))
          /\ WF_vars(ReclaimStep(p)) /\ SF_vars(ReclaimBegin(p))
    /\ \A s \in Sub :
          /\ SF_vars(JoinStep(s)) /\ WF_vars(ReceiveCall(s)) /\ WF_vars(ReceiveStep(s))
          /\ \A p \in Pub, c \in Chunk : WF_vars(SampleDrop(s, p, c))

SafetySpec == Init /\ [][Next]_vars
Spec == SafetySpec /\ Fairness

-----------------------------------------------------------------------------
(* Properties *)

PortsTypeOK ==
    /\ wiring \in Seq(Pub)
    /\ joining \in [sub : Sub \union {NoSub}, at : Nat \ {0}]
    /\ pubLive \subseteq Pub /\ subLive \subseteq subMade /\ subMade \subseteq Sub
    /\ conns \in [Sub -> Seq(Pub)]
    /\ channels \in [Pub -> Seq(Sub)]

LoansTypeOK ==
    /\ free \in [Pub -> SUBSET Chunk]
    /\ loans \in [Pub -> 0 .. MaxLoaned]
    /\ loan \in [Pub -> {"idle", "checked", "allocated"}]
    /\ loaned \in [Pub -> Chunk \union {NoChunk}]
    /\ out \in [Pub -> [Chunk -> Nat]]
    /\ uncounted \in [Pub -> Nat]

LocksTypeOK ==
    /\ mutex \in [Pub -> {"free", "send", "reclaim", "deallocate", "count"}]
    /\ cursor \in [Pub -> Nat \ {0}]
    /\ hand \in [Pub -> Chunk \union {NoChunk}]
    /\ lost \in [Pub -> SUBSET Chunk]

QueuesTypeOK ==
    /\ sendq \in [Pub -> [Sub -> Seq(Chunk)]]
    /\ retq \in [Pub -> [Sub -> Seq(Chunk)]]
    /\ polling \in [Sub -> Nat]
    /\ held \in [Sub -> [Pub -> [Chunk -> Nat]]]

(* Type invariant; active_loans stays within qos.max_loaned_samples, although the limit is
   checked before the chunk is allocated and counted. *)
TypeOK == PortsTypeOK /\ LoansTypeOK /\ LocksTypeOK /\ QueuesTypeOK

\* Where chunk c of publisher p is.  A chunk being sent is in the sender's hand until the
\* first channel has it.
InHand(p) == IF mutex[p] = "send" /\ cursor[p] > 1 THEN NoChunk ELSE hand[p]
Queued(q, c) == {k \in 1 .. Len(q) : q[k] = c}

Places(p, c) ==
    {<<"free">> : x \in {c} \intersect free[p]}
    \union {<<"loaned">> : x \in {c} \intersect {loaned[p]}}
    \union {<<"out", n>> : n \in 1 .. out[p][c]}
    \union {<<"hand">> : x \in {c} \intersect {InHand(p)}}
    \union (UNION {{<<"sent", s, k>> : k \in Queued(sendq[p][s], c)} : s \in Sub})
    \union (UNION {{<<"held", s, n>> : n \in 1 .. held[s][p][c]} : s \in Sub})
    \union (UNION {{<<"returned", s, k>> : k \in Queued(retq[p][s], c)} : s \in Sub})
    \union {<<"lost">> : x \in {c} \intersect lost[p]}

(* With one subscriber, every chunk is in exactly one place: it is never given to a writer
   while a Sample shows it, never released twice (which corrupts the free list,
   index_set.rs:112) and never forgotten, whatever the threads that loan, send, receive,
   drop and reclaim do meanwhile. *)
ExclusiveChunks == \A p \in Pub, c \in Chunk : Cardinality(Places(p, c)) = 1

Accounted(p) ==
    loans[p] + (IF loan[p] = "allocated" THEN 1 ELSE 0)
        = Cardinality(Chunk \ free[p]) + uncounted[p] + (IF mutex[p] = "count" THEN 1 ELSE 0)

(* active_loans is the number of chunks out of the pool, give or take the steps between an
   allocation or a release and its count: the limit on loans is the limit on chunks in
   use, and the usize never wraps below zero. *)
LoansAccount == \A p \in Pub : Accounted(p)

(* With one subscriber, no queue is ever full when it is pushed to: dropping a Sample never
   spins ("Return queue should always have space (bounded by loaned samples)",
   channel.rs:82) and send is never refused with QueueFull. *)
QueuesHaveRoom ==
    \A p \in Pub, s \in Sub :
        /\ (\E c \in Chunk : held[s][p][c] > 0) => Len(retq[p][s]) < QCap
        /\ mutex[p] = "send" /\ cursor[p] <= Len(channels[p]) /\ channels[p][cursor[p]] = s
              => Len(sendq[p][s]) < QCap

(* While a subscriber has a Sample of a chunk, or is about to receive it, nobody has the
   chunk for writing: what it reads does not change under it ("The underlying memory is
   synchronized by the transport layer", sample.rs:23). *)
HeldSamplesStable ==
    \A p \in Pub, s \in Sub, c \in Chunk :
        held[s][p][c] > 0 => loaned[p] # c /\ out[p][c] = 0

(* What a subscriber is sent comes back to the pool: the chunks its first connection
   carries are received, dropped, returned and reclaimed, as long as both ports exist. *)
SentChunksRecycled ==
    \A p \in Pub, s \in Sub, c \in Chunk :
        (Queued(sendq[p][s], c) # {} /\ s \in subLive /\ conns[s][1] = p)
            ~> (c \in free[p] \/ p \notin pubLive \/ s \notin subLive)

-----------------------------------------------------------------------------
(* The inductive invariant that the proofs about one subscriber rest on *)

\* The mutex holder and loan() have a chunk exactly where the code has an offset.
ChunksInUse ==
    \A p \in Pub :
        /\ hand[p] # NoChunk <=> mutex[p] \in {"send", "deallocate"}
        /\ loaned[p] # NoChunk <=> loan[p] = "allocated"
        /\ loan[p] # "idle" => loans[p] < MaxLoaned

\* No publisher registers twice, and no subscriber is connected to one twice: the one
\* being created has no channel yet from the publishers it has still to visit.
ConnectedOnce ==
    /\ IsInjective(wiring)
    /\ \A p \in Pub : IsInjective(channels[p]) /\ Range(channels[p]) \subseteq subMade
    /\ ~WiringFree =>
          /\ joining.sub \in subMade
          /\ \A i \in joining.at .. Len(wiring) : joining.sub \notin Range(channels[wiring[i]])

\* The kinds of place, and whether a chunk is in one, for subscriber s.
Kind == {"free", "loaned", "out", "hand", "sent", "held", "returned", "lost"}

At(s, p, c, k) ==
    \/ k = "free" /\ c \in free[p]
    \/ k = "loaned" /\ loaned[p] = c
    \/ k = "out" /\ out[p][c] > 0
    \/ k = "hand" /\ InHand(p) = c
    \/ k = "sent" /\ c \in Range(sendq[p][s])
    \/ k = "held" /\ held[s][p][c] > 0
    \/ k = "returned" /\ c \in Range(retq[p][s])
    \/ k = "lost" /\ c \in lost[p]

\* Every chunk is in a place of one kind ...
OneKind ==
    \A s \in Sub, p \in Pub, c \in Chunk :
        \E k \in Kind : \A j \in Kind : At(s, p, c, j) <=> j = k

\* ... and there once.
OneOfKind ==
    /\ \A p \in Pub, c \in Chunk : out[p][c] <= 1
    /\ \A s \in Sub, p \in Pub :
          /\ \A c \in Chunk : held[s][p][c] <= 1
          /\ IsInjective(sendq[p][s]) /\ IsInjective(retq[p][s])

IndInv == TypeOK /\ ChunksInUse /\ ConnectedOnce /\ OneKind /\ OneOfKind /\ LoansAccount

=============================================================================
