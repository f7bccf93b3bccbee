# A TLA+ verification of entangle

entangle is a zero-copy inter-process communication library in Rust: publishers
write samples into shared memory and subscribers read them in place, a client and
a server exchange requests and responses through one segment, a blackboard keeps
the latest value of a writer, and services find each other through files. The
hard part of the code is a small number of concurrent protocols: a lock-free
free list, a ring queue, a container over an atomic bit set, the life of a chunk
between pool, queues and samples, a sequence lock, events that threads share, and
processes that race on a directory or on the names of shared memory. This project
models these protocols step by step, checks them with TLC on small instances, and
proves with TLAPS, for every value of the constants, each safety property the passing
runs check. What stays with TLC alone is liveness, and the two disagreements between
the code and its comments.

Paths are those of the repository; `crates/` is left out where it is obvious.

## 1. Inventory

| Part | State it keeps | Operations | Hard behaviour | What makes it correct |
|---|---|---|---|---|
| `entangle-lockfree/src/index_set.rs` `UniqueIndexSet` | a packed head word (index, tag), a `next` link per slot, a `borrowed` counter | `acquire`, `release`, `borrowed_count` | CAS loops of many threads, ABA, a tag that wraps, a counter changed apart from the head | no index twice, none lost, list intact, calls linearizable, lock freedom |
| `entangle-lockfree/src/spsc_queue.rs` `SpscQueue` | two positions, the slots | `push`, `pop`, `len`, `is_empty`, `is_full` | stale positions, wrapping positions, observers that load two positions | a bounded FIFO; `len` never under-reports |
| `entangle-transport` `channel.rs` `ZeroCopyChannel` | a send queue and a return queue, a connection state | `send`, `receive`, `return_offset`, `reclaim`, `disconnect` | `return_offset` spins on a full queue | the return queue always has room |
| `entangle-transport` `data_segment.rs`, `pool_alloc.rs` | a shared-memory segment and an index set over its chunks | `create`, `open`, `allocate`, `deallocate` | each index released once | a chunk has one holder |
| publish-subscribe: `entangle/src/port/{publisher,subscriber}.rs`, `sample.rs`, `service/pubsub.rs` | registrations and channels behind mutexes, `active_loans`, samples in the applications' hands | `create`, `loan`, `send`, `receive`, `reclaim`, drops | loans, sends, drops and reclaims on several threads, subscribers that join late, one offset in several channels | a chunk that is shown is not written; loans are accounted for; chunks come back |
| blackboard: `port/{writer,reader}.rs`, `service/blackboard.rs` | a sequence number and a value in a segment | `create`, `write`, `read` | torn reads, memory ordering, readers that spin | reads are whole and never go back |
| request-response: `port/{client,server}.rs`, `service/reqres.rs` | one segment, a request and a response queue per client | `create`, `send`, `receive`, `respond`, `try_receive`, drops of handles | several clients in one pool, full queues, handles abandoned or asked again | an answer reaches the client and the request it is for |
| registry: `service/{registry,lifecycle,config}.rs` | a directory with a file per service | `create`, `open`, `open_or_create`, `destroy`, `list` | check-then-act on files, a crash or an error between creation and write, names that share a file | whoever has a handle agrees with the others on the layout |
| process monitor: `entangle-platform/src/{process_monitor,file_lock}.rs` | a locked file per live node | `register`, `is_alive`, `cleanup_dead_nodes`, `deregister` | a probe that locks, a file removed under its owner | a live node is not taken for dead |
| event ports: `port/{notifier,listener}.rs`, `waitset.rs`, `service/event.rs`, `entangle-platform/src/event.rs` | an eventfd or a pipe with its O_NONBLOCK flag; the descriptors of a wait set | `notify`, `wait`, `try_wait`, `attach`, `WaitSet::wait` | a flag that belongs to the file, descriptors closed and used again, timeouts, signals | the file is given back blocking; what is reported is true; ready sources are served |
| `mpmc_container.rs`, `atomic_bitset.rs` | value words, a bit set of those in use, a tagged free list | `add`, `remove`, `get`, `for_each`, `len` | words shared by 64 slots, values loaded apart from their bits, iterations while entries come and go | slots are accounted for, entries are whole, what stays is seen |
| `segment_mgr.rs`, `entangle-transport/src/contracts.rs` | several segments, packed offsets | `create`, `allocate`, `deallocate` | ids cut to 16 bits, a chunk returned to the wrong segment | an offset leads back to its chunk |
| `entangle-platform/src/shm.rs` | names, objects and mappings | `create`, `open`, `unlink`, drop | a create that fails or dies half-way, an open that comes too early, drops that unlink by name | a name belongs to somebody who will remove it |
| `signal.rs`, `relocatable.rs`, `node.rs`, `config.rs`, the derive macro | flags, nothing | | | |

How the parts call each other:

    Publisher, Subscriber, SampleMut, Sample      Client, Server, PendingResponse, ActiveRequest
          |                 |                                   |              |
     ZeroCopyChannel   DataSegment                         ZeroCopyChannel   DataSegment
          |                 |                                   |              |
     2 x SpscQueue     PoolAllocator -> UniqueIndexSet     SpscQueue        PoolAllocator -> UniqueIndexSet

    Writer, Reader -> DataSegment (sequence number and value)
    builders of all four patterns -> ServiceLifecycle -> ServiceRegistry -> files
    Notifier, Listener -> EventNotification -> eventfd or pipe <- WaitSet (poll)
    SegmentManager -> DataSegment -> SharedMemory -> shm_open, mmap, shm_unlink
    MpmcContainer -> AtomicBitSet, and a free list like UniqueIndexSet's

Ports of one service handle share their wiring (`Arc<Mutex<..>>`) in one process;
channels are heap objects. So the threads that race in publish-subscribe and
request-response are threads of one process, and what processes share is the
registry directory and, in the blackboard, a segment. PROJECT.json lists the
hazards of each part at the line where they bite, with the properties aimed at
them.

## 2. Modules

| Module | Models | Role |
|---|---|---|
| `UniqueIndexSet` | `index_set.rs` | one atomic access per step |
| `IndexPool` | the promise of the index set | abstract specification |
| `*_proofs` | | the theorems about `UniqueIndexSet`, `SpscQueue`, `MpmcContainer`, `Blackboard`, `PubSub`, `ReqRes` and `Segments`; `Coordination_proofs` has those about `EventPorts`, `ServiceRegistry` and `ProcessMonitor` |
| `SpscQueue` | `spsc_queue.rs` | one atomic access per step |
| `BoundedFifo` | the promise of the queue | abstract specification |
| `PubSub` | publisher, subscriber, samples, channels, pool | composes pools and queues |
| `Blackboard` | writer and reader | sequence lock, two memory models |
| `AtomicRegister` | the promise of the blackboard | abstract specification |
| `ReqRes` | client, server, channels, pool | composes a pool and queues |
| `ServiceRegistry` | registry, life cycle, compatibility check | files and processes |
| `ProcessMonitor` | process monitor and file lock | flocks and processes |
| `MpmcContainer` | `mpmc_container.rs`, `atomic_bitset.rs` | one atomic access per step |
| `SlotMap` | the promise of the container | abstract specification |
| `EventPorts` | notifier, listener, `event.rs`, `waitset.rs` | system calls of threads and of a polling loop |
| `Segments` | `shm.rs`, data segment, pool allocator offsets, segment manager | system calls of processes |
| `MC*` | | what TLC needs besides the cfg: symmetry sets, a constant function |

The layers meet at the abstract specifications. `UniqueIndexSet` implements
`IndexPool` and `SpscQueue` implements `BoundedFifo` (both checked, and proved), so
`PubSub` and `ReqRes` take an allocation, a release, a push or a pop as one step,
and so do `Segments` and `MpmcContainer` with an allocation and a release. What
`PubSub` and `ReqRes` interleave is what the code interleaves above that level: the
steps between checking a limit, allocating and counting; between taking a mutex,
visiting each channel and leaving it; between popping an offset, copying the bytes
and freeing the chunk.

A definition that follows a comment beginning "The check that forgets", "A retry
that forgets" and the like, and stands right before the action it resembles, is a
deliberately wrong variant of that action. None is used by a specification; they
show that each property can be broken by a plausible slip in the code.

### UniqueIndexSet

`head`, `next` and `borrowed` are the words of the structure; `pc`, `old`, `nxt`
and `slot` are the locals of each thread. `acquire` is `AcquireCall`,
`AcquireLoad` (load of the head, Err on the sentinel), `AcquireNext` (load of the
link), then `AcquireCas` or `AcquireRetry`, and `AcquireCount` (the counter).
`release` is the same with `ReleaseStore` for the link. The weak
compare-exchange may fail although the head is what was expected, so the retry
has no guard on the head. `owned` is what callers hold: any thread may release
what another acquired. Two history variables carry the argument: `stack`, the
free list as a sequence, and `lag`, the number of successful CASes since a thread
loaded the head. `MaxOvertake < TagMod` states what the code relies on: fewer
than 2^32 operations succeed between the load and the CAS of one thread.

### SpscQueue

Producer, consumer and an observer that calls `len`, `is_empty` or `is_full`.
Positions wrap at `PosMod`, a multiple of the capacity as 2^64 is. `queue` is the
history variable the ring is compared with. `MaxOvertake` bounds the pops during
one `len` call, so that the difference of positions means something.

### PubSub

`wiring`, `joining`, `conns` and `channels` are the registrations; `sendq` and
`retq` the two queues of each channel; `free` the pool of each publisher; `loans`
is `active_loans`, a usize that wraps at `LoanMod`; `loan` and `loaned` a loan under way;
`out` and `held` the SampleMut and Sample values applications have; `mutex`,
`cursor` and `hand` the thread that is inside `send` or `reclaim`. A subscriber
is created in steps because it takes each publisher's channel mutex in turn under
the service's mutex. `loan` runs on the thread that owns the port while sends and
drops of samples run on any thread. The chunk that no channel takes (no
subscriber, or a full queue at the first) is counted in `lost`, which records
what the code does.

### Blackboard

A value is a set of words; a word is known by the number of the write that stored
it, and words are copied in any order. `InOrder = TRUE` keeps the program order
of each thread, as x86 does with a compiler that keeps it. `InOrder = FALSE`
keeps what the Rust orderings promise: a Release store does not hold back later
stores, an Acquire load does not wait for earlier loads.

### ReqRes

`free` and `content` are the segment, `requests` and `responses` the queues of
each client, `cpc`/`chunk`/`using`/`answer` the client's call, `spc`/`cursor`/`schunk`/`sreq`
the server's. A request is its number `<<client, k>>`, and so is its answer, so
that "the answer to this request" can be said. `handles` are the PendingResponse values
that have given no response yet and `kept` the number of those that have: `try_receive`
takes `&self`, so a handle stays usable after its answer, and `TryReceiveAgain` pops the
client's next response through it. `lost` are chunks that left the pool for good (a full
queue drops them), `misused` the clients whose application let go of an unanswered handle
or had more requests pending than `max_pending_requests`, `reused` those that got a second
response through one handle.

### ServiceRegistry

Each file-system call is a step: the lookup (open, read, parse), the exclusive
creation, the write, `path.exists()`, `remove_file`. Names with `/` and `_` share
a path, as `service_path` makes them. A process may die between any two calls, and any
call may fail: `IoFails` is the error return of `register` and `unregister`, which leaves
a file that was created and not written, or written in part, as it is; a lookup that cannot
read reports `NotFound`. `left` records the paths where a creator died or failed before the
end of its write, `overtaken` the processes whose path was removed since the call started
that they are in or have their handle from.
Configurations are compared by what `validate_compatibility` compares, which
leaves out the service's name and the payload's type name.

### ProcessMonitor

`state` is the life of a node, `nodeFiles` the files in the directory, `lock` who has
the flock on each file. `register` is an open that creates the file and an flock;
`deregister` an unlock and a removal; dropping gives the lock up and leaves the
file. A monitor is a process that calls `cleanup_dead_nodes` (list the directory,
then for each file open, try the lock, unlock, remove) or `is_alive` (the same
without the removal). Ids are drawn anew for every node, so a file is created
once. `raced` records the nodes that took their lock after a monitor had found
their file without one.

### MpmcContainer

`data`, `occupied` and `free` are the value words, the bit set and the free list.
`add` is `AllocSlot` (or `AllocFails`, None), `Store`, then `SetLoad` and `SetCas` of
the word that holds the slot's bit; `remove` is `ClearLoad`, `ClearCas`, `Take` (the load
of the value, after the bit is cleared) and `FreeSlot`; `get` tests the bit and then
loads the value; `for_each` does so slot by slot, and `len` counts word by word. A
thread may remove or get any slot, also one that is not occupied. A CAS fails when
any bit of its word has changed, and may fail for no reason; then the word it
returns takes the place of the load. `entry` records what each `add` was given,
`steady` and `ever` what was occupied throughout an iteration and at some time in it.

### EventPorts

`fd`, `count` and `nonblock` are the files behind events: the descriptor number, what
is pending, and O_NONBLOCK, which belongs to the file and so to every thread that
uses the event. `build` chooses between the eventfd, whose read takes the whole
counter, and the pipe, whose read takes a byte; the flag of a pipe is that of its read
end. `try_wait` is `SetNonblocking`, a read, `SetBlocking`; a read or write that may
block decides so when it starts. `waitset` has descriptor numbers, as the code has, and
`source` the events that were meant. The kernel gives the lowest free number, so a
dropped event's number comes back. `PollReturns` also fires for a closed descriptor
(POLLNVAL), and then reports nothing for it. Signals end a poll and nothing else: the
handlers are installed with `signal()`, which has reads and writes restarted.
`Notifiable` and `Waitable` say which events have somebody who notifies and who waits.

### Segments

`link` is the directory of shared memory (a name has an object), `stage` how far the
creator of an object has come, `segs` and `held` each process's segment manager and the
offsets its application has, `view` a segment it has opened. `SharedMemory::create` is
`ShmCreate` (O_EXCL) or `ShmExists`, `Truncate`, `MapCreated`, with `CreateFails` for an
error after the name is there, and `WriteHeader` finishes `DataSegment::create` and
whatever called it. `open` is `ShmOpen`, `MapOpened`, `ReadHeader`. A drop unlinks by
name. The size of a chunk, the header and the two fields of a `PointerOffset` are
numbers with the code's arithmetic and smaller widths.

## 3. Runs

| Run | Instance | Shows |
|---|---|---|
| `index_set` | 3 threads, 2 indices, 4 tags, up to 3 overtakings | `UniqueIndices`, `NoIndexLost`, `FreeListIntact`, `ImplementsPool`, `LockFree` |
| `spsc` | 2 values, 2 slots, 8 positions, up to 5 pops during a `len` | `RingHoldsQueue`, `NeverUnderReports`, `ImplementsFifo` |
| `pubsub` | 1 publisher, 1 subscriber, 3 chunks and queues of 4, 4 loans allowed | `ExclusiveChunks`, `LoansAccount`, `QueuesHaveRoom`, `SentChunksRecycled` |
| `pubsub_two_subscribers` | 1 publisher, 2 subscribers, 2 chunks | violation of `HeldSamplesStable` |
| `blackboard` | 2 readers, 2 words, 2 writes, program order | `ConsistentReads`, `ImplementsRegister`, `ReadReturns` |
| `blackboard_reordered` | 1 reader, Release/Acquire order only | violation of `ConsistentReads` |
| `reqres` | 2 clients, 3 chunks, 1 pending request each, 1 answered handle kept, up to 3 requests of a client | `ExclusiveChunks`, `AnswersDelivered`, `SizedForPending`, `OwnAnswerInTurn` |
| `registry` | 3 processes, 2 names with one path, 2 layouts, 1 crash, 2 destroys, failing calls | `HandlesAgree`, `EmptyIsUnderway`, `WrittenOnce` |
| `process_monitor` | 2 nodes, 2 monitors, 1 crash of a monitor, 1 `is_alive` | `EstablishedNodesKept`, `DeadNodesCleaned` |
| `mpmc` | 2 threads, 3 slots, words of 2 bits, 2 values | `SlotsAccounted`, `EntriesIntact`, `SweepsSound`, `ImplementsSlotMap` |
| `events` | 1 worker and the polling loop, 2 events, 2 descriptors, counters up to 2 | `FlagRestored`, `TryWaitAlone`, `ReadyIsWaitable`, `SourcesServed`, `TimedWaitEnds` |
| `segments` | 2 processes, 3 objects, 2 chunks of 5 bytes in a segment, 2 segment ids | `OffsetsResolve`, `LinkedIsOwned`, `OwnedIsLinked` |

`TypeOK` is checked in the runs of `PubSub`, `ReqRes` and `Segments`, where it says
something beyond types: `active_loans` never goes below zero, an `ActiveRequest` is a
request that some client has sent, a segment id fits its field. In every module it is part of the `IndInv` of section 5.

Why the bounds are enough to meet the interesting cases:

- Two indices and three threads are the least ABA needs: a thread asleep in
  `acquire` with a stale link while two others take both indices and give one
  back. The tag wraps after four operations, and the bound on overtaking is the
  largest the assumption allows, so a thread does meet its old tag value minus
  one.
- A ring of two slots is full and empty within a few steps; with eight positions
  they wrap four times around the ring and the observer sees them wrap.
- With three chunks and four loans allowed, the pool runs dry while the limit is
  not reached, and the limit refuses while chunks are free, because dropped
  samples are counted back a step after their chunks are.
- Two writes are the least that can tear a value with a third state (nothing
  written); two words are the least that can differ.
- The sizing rule `max(2 * max_pending_requests, 16)` is kept with 16 scaled down
  to `MinChunks`, so that two clients that drop their handles and send again exhaust
  the pool and fill their queues. One answered handle that is kept is enough to take the
  answer of the next request.
- One crash, or one failing write, leaves a file that is never written. Two destroys are
  the least for a process to remove, after its check, a service that was created anew
  after another had removed the first.
- Two monitors are the least whose probes meet, and two nodes the least of which
  one can live while the other waits to be cleaned up.
- Three slots with words of two bits make one word with two slots, whose CASes
  meet, and one word that is only partly used, as a capacity that is no multiple of
  64 has. Two threads are the least that race on a word; what holds for more is proved.
- Two events with two descriptor numbers are the least of which one can take over the
  other's number; of the two timeouts one fits the scaled `i32` and one becomes negative.
- With two segment ids the third segment of a manager wraps; three objects let a name
  be created anew while an unlinked object of it is still mapped by two processes.

Bounds in guards: `MaxOvertake`, `MaxWrites`, `MaxHandles`, `MaxKept`, `MaxNumber`,
`MaxActive`, `MaxCrashes`, `MaxMonitorCrashes`, `MaxDestroys`, `MaxPolls`, `MaxAttached`, and the sets `Fd` and
`Object`. Symmetry is used only in runs without liveness properties, over processes,
clients, threads, names of one path, layouts, values, chunks and objects.

Deadlock is checked except where the system may stop: in `PubSub` and `ReqRes`
chunks can be lost for good and applications may drop every port, and in
`ProcessMonitor` every node may be gone and cleaned up, after which nothing
remains to be done. In `EventPorts` every thread may be in a blocking call on an event
that nobody else is left to notify.

### Fairness

- `UniqueIndexSet`: a thread in a call is scheduled (WF of its steps), and a weak
  CAS that could succeed again and again is not refused for ever (SF), which is
  what `compare_exchange_weak` gives in practice. Nobody is obliged to call.
- `PubSub`: started calls proceed; a subscriber that exists keeps calling
  `receive` and drops what it received; a publisher that exists calls `reclaim`
  again and again, and a thread that waits for a mutex that is free again and
  again gets it. The code calls none of these by itself, so this is the loop the
  examples and the README show.
- `Blackboard`: calls under way proceed, with finitely many writes.
- `EventPorts`: a worker in a call proceeds (a blocked one only when its file lets it),
  and the application keeps polling and handles what it is told of, the loop of the
  repository's README (line 240). Nobody is obliged to notify, and no fairness is
  assumed of signals.
- `ProcessMonitor`: calls under way proceed, and every monitor calls
  `cleanup_dead_nodes` again and again. No code of the repository calls it, although
  its README (line 136) promises that crashes are detected automatically, so
  `DeadNodesCleaned` says what an application gets that does call it. An endless
  succession of `is_alive` calls could make every probe fail, hence `MaxPolls`.

`SentChunksRecycled` speaks of the first connection of a subscriber only: `receive`
starts from the head of its list every time, and for the others the property does not
hold, because a busy first one starves them. The server's `receive` is alike.

## 4. Findings

1. **A chunk is released by its first subscriber** (`publisher.rs:173`). One offset
   goes to every channel and each subscriber returns it; `reclaim` deallocates on
   each return. With two subscribers, the chunk is loaned again, zeroed and
   rewritten while the other still has its `Sample`. `sample.rs:23` calls the
   memory "synchronized by the transport layer".
2. **The sequence lock needs fences** (`writer.rs:114`, `reader.rs:93`). With only
   the order Release stores and Acquire loads give, a reader returns words of two
   writes. `writer.rs:112-113` claims the opposite of the Release store. On a
   memory that keeps program order the protocol is an atomic register.

Other behaviours that differ from what a document says, or that a user would not
expect, are not runs of their own; the models have them, and the properties state
what remains true.

- **An abandoned request shifts the answers** (`client.rs:134`), and so does an answered
  handle that is asked again. Nothing in a response says which request it is for; after a
  `PendingResponse` is dropped the next one returns the dropped one's answer, and one that
  has given its answer gives the next request's, where `tests/proptest_qos.rs:150` states
  "request-response always returns correct computation". `OwnAnswerInTurn` holds of
  clients that wait for each answer and take one response through each handle.
- **`open_or_create` can fail on a race** (`lifecycle.rs:40`, `registry.rs:43`). Of two
  processes that start together one gets `AlreadyExists`, or `Corrupted` from reading
  the file the other has created and not yet written; `registry.rs:28` says "no TOCTOU
  race".
- **A service can stay `Corrupted`** (`registry.rs:54`). When the write of a new file fails,
  for instance on a full disk, or its process dies there, the file stays and does not
  parse: `create` reports `AlreadyExists` and `open` `Corrupted` until somebody calls
  `destroy`. `EmptyIsUnderway` says that a file does not parse exactly in this case and
  while its creator is still to write it.
- **`cleanup_dead_nodes` can remove a live node.** It tries the lock, gives it back and
  then removes the file (`process_monitor.rs:85-87`), so a node that registers in
  between is removed alive, and a `register` that meets a probe fails.
  `EstablishedNodesKept` says exactly which nodes are safe.
- **Dead processes leave their segments** (`shm.rs:228`), and so does a create that fails
  after `shm_open`. Nothing removes them, where README.md:136 says "No zombie segments".
  `LinkedIsOwned` says that nobody else leaves any.
- **A Notifier and a Listener are not connected** (`notifier.rs:21`, `listener.rs:21`).
  Each makes an event of its own, where `notifier.rs:36` says "to all listeners".
- **`try_wait` may block beside another** on the same event, where `event.rs:116` says
  "without blocking", and a `wait` beside a `try_wait` may fail. `TryWaitAlone` and
  `FlagRestored` say what holds.
- **A timeout of 2^31 ms or more** becomes negative and then none (`waitset.rs:60`).

## 5. Proofs

Eight modules hold theorems. In each the argument is the same: a property is seldom
inductive, so the module it is about states an `IndInv`, the property together with
what each thread or process in the middle of a call knows; the proofs show that it
holds initially and that every action keeps it. Each `IndInv` was model-checked on the
instance of its run before it was proved.

### The free list (`UniqueIndexSet_proofs`)

For every finite set of threads, every number of indices and every tag width with
`MaxOvertake < TagMod`:

- `FreeListInvariant`: `SafetySpec => []IndInv`;
- `FreeListSafety`: from it, `UniqueIndices`, `NoIndexLost`, `FreeListIntact` and
  `BorrowedAccounts`, which is the invariants of the run `index_set` and that the
  counter is the number of indices out plus the calls that have still to count;
  `IndicesNotLost` and `FreeListStaysIntact` state two of them on their own;
- `FreeListImplementsPool`: `SafetySpec => Pool!Spec`. The CAS is the
  linearization point of `acquire` and `release`, the load of a sentinel that of a
  failing `acquire`; every other step is a stutter of `IndexPool`.

Why a strengthening is needed: no property above is inductive. The CAS of
`acquire` installs a link it read some time ago, so one must know that the link
is still right. `IndInv` adds `Windows`: while a thread is between its load and
its CAS, the current tag is its tag plus `lag` (modulo `TagMod`), and when `lag`
is zero its copies of the head and of the link are current. As
`lag <= MaxOvertake < TagMod`, equal tags mean `lag = 0`; so a CAS that succeeds
is one whose copies are current, and it pops or pushes exactly the first element
of `stack`. The rest is bookkeeping: slots in flight are disjoint from the list
and from each other, so a store to the link of a slot in flight does not touch
the list; the cardinality in `BorrowedAccounts` moves with the sets it counts.
The run `index_set` checks the four properties themselves on a small instance.

Assumptions: `ThreadAssumption` (finitely many threads, for cardinalities),
`CapacityAssumption` (at least one index, as `new` asserts), `TagAssumption`.

### The ring queue (`SpscQueue_proofs`)

For every set of values, every capacity and every number of positions that is a
multiple of it: `RingInvariant`, from it `RingAlwaysHoldsQueue` and
`LenNeverUnderReports`, and `RingImplementsFifo` (`Spec => Fifo!Spec`; push and pop take
effect where they store their position, a refusal at the load that shows it).
`CallsKnow` is the strengthening: the room a producer has seen only it can fill, the
element a consumer has seen only it can take, and the value about to be published is
already in its slot. The arithmetic is in lemmas: within one turn `wrapping_sub` and
`wrapping_add` need no remainder, and positions less than a capacity apart have
different slots, which needs the capacity to divide the number of positions.
Assumptions: `CapacityAssumption`, `PositionAssumption` (the division), and
`OvertakeAssumption` (the pops during one `len` do not take the positions a whole turn on).

### The container (`MpmcContainer_proofs`)

For every finite set of threads, every capacity, every word size and every set of
values: `ContainerInvariant`, from it `SlotsAlwaysAccounted`, `EntriesAlwaysIntact` and
`SweepsAlwaysSound`, and `ContainerImplementsSlotMap` (`Spec => Map!Spec`). A CAS on a
word changes one bit because the word is what it was when the bit was computed
(`SetCasAdds`, `ClearCasRemoves`). `CallsKnow` adds what a call in progress knows: an
`add` has stored its value before it sets the bit, a `remove` found the bit set, a
count is at the beginning of a word, so that it skips no slot. `SweepsKnow` ties
`steady` and `ever` to what is occupied. In the refinement an add begins with the
allocation, takes effect at the CAS of `set`, a remove at the CAS of `clear`; that an
add is refused only when entries and calls in progress fill the capacity is a count
over `SlotsAccounted`, and the reason the set of threads is finite.
Assumptions: `CapacityAssumption`, `ValueAssumption` (the 0 of a fresh slot is told from
an added value), `ThreadAssumption`.

### The sequence lock (`Blackboard_proofs`)

For any readers, words and number of writes, when `InOrder` holds (program order is
kept): `NoTornReads` and `SeqLockImplementsRegister`. `WriterKnows` ties the sequence
number to the number of writes and says that the chunk is whole outside the window
between the odd and the even store. `ReadersKnow` says that the words copied so far
are of the write the first number stands for, as long as the number has not moved;
numbers only grow, so a number that has moved never comes back. Without `InOrder`
the first step of this argument fails, as the run `blackboard_reordered` shows.
Assumption: `2 * MaxWrites < SeqMod`, the number does not wrap (2^63 writes).

### Publish-subscribe (`PubSub_proofs`)

For any number of publishers, every buffer size and loan limit, and **one** subscriber
(the hypothesis `Sub = {s}` of each theorem): `ChunksAreExclusive`, `LoansAreAccounted`,
`QueuesNeverFull`, `PubSubTypes` and `SamplesStable`. The last says that what a lone
subscriber reads is not written to, the property that the run
`pubsub_two_subscribers` shows to fail with two; so the hypothesis is the finding, not a
convenience, and no theorem here can do without it.

`ExclusiveChunks` counts places and says nothing of which they are, so `IndInv` names
them: `OneKind`, every chunk is in a place of one of eight kinds (free, being loaned, in
a SampleMut, in the hands of a send or reclaim, sent, in a Sample, returned, lost), and
`OneOfKind`, it is there once. A step of the code moves one chunk from one kind to
another, and each action's proof says from which to which. `ChunksInUse` ties the
program counters to the chunk a call has; `ConnectedOnce` says that no subscriber is
given two channels to a publisher although it joins publisher by publisher while others
register, without which a chunk would be sent to it twice. That no queue is full when it
is pushed to follows by counting: the chunks in it and the one to be pushed are different
chunks of one pool. `LoansAccount` needs sums over chunks that move one at a time.
Assumptions: `PortsAssumption`, `BufferAssumption`, `LoanModAssumption` (the usize is
large enough for the limit), `QueueAssumption` (`next_power_of_two` returns no less than
it was given).

### Request-response (`ReqRes_proofs`)

For any number of clients and every limit, with requests abandoned and limits broken:
`ChunksAreExclusive`, `AnswersAreDelivered` and `ReqResTypes`; and where the applications keep
the rules, `SegmentIsLargeEnough` and `AnswersInTurn`. `OneKind` and `QueuedOnce` say
where each chunk is, the client whose call or queue it is in included. `Contents` says
what it holds: a client's places hold requests of that client, and no two chunks, nor a
chunk and an `ActiveRequest`, are for the same request. So each request is in one place on
its way, and can be answered once. `WithinPending` bounds what is under way of a client that
is not in `misused` by its handles and `max_pending_requests`; with it, `SizedForPending` is a pigeonhole
argument, from the chunks that are not free to the requests they hold. `InTurn` says that
a client that waits for each answer has a handle for everything under way, so with one
pending request the answer in the queue can only be that one's, if it is taken through that
handle and not through an earlier one (`reused`).
Assumptions: `ClientAssumption`, `PendingAssumption`, `ChunkAssumption` (the segment has the
chunks `ChunkCount` computes), `BoundAssumption`, `QueueAssumption` as above.

### Segments and shared memory (`Segments_proofs`)

For any processes, objects, chunk sizes and counts, and width of the segment id, with
creates that fail, processes that die and names that strangers unlink: `OffsetsLeadBack`,
`NamesHaveOwners`, `SegmentsKeepNames` and `SegmentTypes`. `Claim(p, i, o, n)` says that
process p has object o under name n, as the create it is in the middle of (i = 0) or as
its i-th segment. `ClaimedOnce` and `ClaimedIsLinked` go from claims to the directory and
`LinkedIsClaimed` back; both directions are needed, because a drop unlinks by name: that it
removes nobody else's object is that the name still leads to the claimed one, unless
somebody pulled it. `CallsKnow` says that a segment under construction will get the id
that is its position, modulo the width. When the ids wrap, the name of a new segment is that of an
earlier one, which the process still has linked, so the exclusive create is refused; only
after a stranger has unlinked it can two segments get one id, which is why
`OffsetsResolve` and the bound of `HeldOffsets` speak of states where nothing was pulled.
The lemmas `DivMod`, `Sizes` and `Offsets` are the arithmetic: the two fields of an offset
can be taken apart, a chunk's bytes are within the mapping, and the division of
`deallocate` gives the index back.
Assumptions: `ObjectAssumption`, `SizeAssumption`, `OffsetAssumption` (a segment is not
larger than the offset field can address).

### Events, registry and process monitor (`Coordination_proofs`)

The three parts that coordinate threads and processes through the kernel are proved
in one module, which extends all three. They share no variable and no constant, so what
is proved of one holds whatever the others do; to that end the state, the actions and the
specifications of `ServiceRegistry` and `ProcessMonitor` have names of their own
(`RegistrySpec`, `RegistryInv`, `MonitorSafetySpec`, `MonitorInv`, ...).

*Events*, for any threads, events, descriptors and timeouts: `FlagAlwaysRestored`,
`TryWaitAloneReturns` and `ReadyAlwaysWaitable`. `Overlaps` says that of two
`try_wait` calls on one event that overlap, both are known to have met another, and
`FlagWhileReading` that only such a one may find the flag cleared when it reads; so one
that met none reads with the flag it has set. `Descriptors` says that events have
different numbers, and that an attachment whose event was not dropped since still has the
number of that event: a readable number is then the event that was meant.
Assumptions: `EventAssumption`, `FdAssumption`, `BoundAssumption`, `TimeoutAssumption`.

*Registry*, for any processes, names, paths and layouts, any number of crashes,
failing calls and removals: `HandlesAlwaysAgree`, `FilesWrittenOnce` and `EmptyFilesUnderway`.
`OperationsKnow` is the strengthening: a process about to write finds its own empty file,
unless the path was removed since its call started. So two processes are never about to
write to one file, and nobody is given a handle of a file that is still to be written.
`EmptyIsUnderway` is inductive given the types: a creation makes an empty file whose creator
is about to write it, and only that write, a removal, an error or a crash of the creator ends
this.
Assumptions: `PathAssumption`, `DestroyAssumption` (the bounds are numbers),
`MarkAssumption` (no file and an empty one are told from a written one).

*Process monitor*, for any nodes and monitors: `LiveNodesKept`. `MonitorsKnow` says that a
monitor that is about to remove a live node's file found it before the node took its
lock; `LiveHoldsLock` that a live node has its lock, so a probe that got the lock was not
of a live node. Assumptions: `HolderAssumption`, `PollAssumption`.

### Only model-checked

`LockFree`, `SentChunksRecycled`, `ReadReturns`, `DeadNodesCleaned`, `SourcesServed` and
`TimedWaitEnds`, because liveness under fairness is beyond the prover. The runs
`pubsub_two_subscribers` and `blackboard_reordered` show what does not hold, so there is
nothing to prove.

## 6. Not modelled

The signal flags, relocatable pointers, the node, the configuration and the derive
macro have no protocol of their own: a node registers with the process monitor, which
is modelled, and what a signal does to a poll is an action of `EventPorts`.
`AtomicBitSet::find_and_clear_first_set` and `ZeroCopyChannel::disconnect` are called by
nobody. The pool of a `DataSegment` that was opened rather than created is used by
nobody. The typed accessors of shared memory read and write what their callers
synchronize. Long names are hashed on macOS (`shm.rs:214`), which the names of `Segments`
leave out. The QoS fields `history_size`, `subscriber_overflow`, `max_publishers`,
`max_subscribers`, `max_notifiers` and `max_listeners` are read by no port and appear
nowhere. `ServiceRegistry::list` only reads. `ReqRes` has one thread for each client and its handles
and one for the server and its requests; a client, a server or their handles shared by
threads, which would put two producers or two consumers on a queue, is not modelled. Two threads that share a `Writer`, and two
threads that drop samples of one subscriber at once (two producers on a
single-producer queue), are outside the models: the code forbids the first in a
comment and does not prevent the second.

## 7. Plan

Done: every component with a protocol, the abstract specifications of the free list,
the queue, the container and the blackboard with the refinements, and a theorem for
every safety property of the passing runs. Next, in this order:

1. Action properties that follow from the invariants: that a chunk in a Sample is left
   alone by every step but its drop, that an offset once allocated is given to nobody
   else before it is returned.
2. What two subscribers still get from `PubSub`, a bound on how often a chunk is
   released.
3. Abstract specifications of publish-subscribe with one subscriber and of
   request-response, with the refinements.

## 8. Running

    tlc -workers 2 -config MCUniqueIndexSet.cfg MCUniqueIndexSet
    tlapm UniqueIndexSet_proofs.tla

and the same for the other pairs listed in PROJECT.json.
