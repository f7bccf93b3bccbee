---------------------------- MODULE EventPorts ----------------------------
(***************************************************************************)
(* Events: the EventNotification of entangle-platform/src/event.rs, which  *)
(* the ports of entangle/src/port/{notifier,listener}.rs wrap, and the     *)
(* WaitSet of entangle/src/waitset.rs that polls several of them.          *)
(*                                                                         *)
(* Workers share the events and call notify, wait and try_wait on them     *)
(* (the methods take &self).  The Poller has the WaitSet and runs the loop *)
(* of README.md:240: wait, then try_wait on every source reported.  Every  *)
(* system call is a step of its own; whether read or write may block is    *)
(* decided by O_NONBLOCK when the call starts, and that flag belongs to    *)
(* the file and not to the thread.                                         *)
(*                                                                         *)
(* `build` is the target: an eventfd on Linux, whose read takes the whole  *)
(* counter, a pipe elsewhere, whose read takes one byte.                   *)
(*                                                                         *)
(* `source`, `stale`, `taken` and `beside` are history variables: the      *)
(* event that was attached under each id, the ids whose event was dropped  *)
(* since, the ids whose event was read since the last poll, and the        *)
(* threads whose try_wait ran beside another on the same event.            *)
(***************************************************************************)
EXTENDS Integers, Sequences, FiniteSets

CONSTANTS
    Worker, Poller,  \* the threads
    Event,           \* EventNotification values
    NoEvent,
    Notifiable,      \* the events something can notify
    Waitable,        \* the events something can wait for
    Fd,              \* file descriptor numbers
    NoFd,
    MaxCount,        \* notifications an eventfd or a pipe holds
    Timeout,         \* milliseconds given to WaitSet::wait
    NoTimeout,       \* None
    IntLimit,        \* 2^31
    MaxAttached      \* bound: sources of the WaitSet

Thread == Worker \union {Poller}

ASSUME EventAssumption ==
    NoEvent \notin Event /\ Notifiable \subseteq Event /\ Waitable \subseteq Event
ASSUME FdAssumption == Fd \subseteq Nat /\ NoFd \notin Fd
ASSUME BoundAssumption == MaxCount \in Nat \ {0} /\ MaxAttached \in Nat
ASSUME TimeoutAssumption ==
    Timeout \subseteq Nat /\ NoTimeout \notin Timeout /\ IntLimit \in Nat \ {0}

VARIABLES
    build,
    fd,        \* the descriptor of each event, NoFd when there is no such event now
    count,     \* notifications pending
    nonblock,  \* O_NONBLOCK
    pc, ev,    \* where each thread is, and the event its call is on
    waitset,   \* WaitSet.fds
    timeout,   \* what the poll in progress was given
    ready,     \* the ids WaitSet::wait returned that the Poller has still to handle
    source, stale, taken, beside

files == <<fd, count, nonblock>>
set == <<waitset, timeout, ready, source, stale, taken>>
vars == <<build, files, pc, ev, set, beside>>

Init ==
    /\ build \in {"eventfd", "pipe"}
    /\ fd = [e \in Event |-> NoFd]
    /\ count = [e \in Event |-> 0]
    /\ nonblock = [e \in Event |-> FALSE]
    /\ pc = [t \in Thread |-> "idle"] /\ ev = [t \in Thread |-> NoEvent]
    /\ waitset = <<>> /\ timeout = NoTimeout /\ ready = {}
    /\ source = <<>> /\ stale = {} /\ taken = {}
    /\ beside = {}

Goto(t, label) == pc' = [pc EXCEPT ![t] = label]

Call(t, e, label) ==
    /\ pc[t] = "idle" /\ fd[e] # NoFd
    /\ Goto(t, label)
    /\ ev' = [ev EXCEPT ![t] = e]

Return(t) ==
    /\ Goto(t, "idle")
    /\ ev' = [ev EXCEPT ![t] = NoEvent]

InTryWait == {"tSet", "tRead", "tBlocked", "tReset"}

-----------------------------------------------------------------------------
(* NotifierBuilder::create, ListenerBuilder::create, and their drop *)

\* The kernel gives the lowest number that is not in use; there is an error when
\* there is none.
Create(e) ==
    /\ fd[e] = NoFd
    /\ LET unused == Fd \ {fd[x] : x \in Event} IN
          \E n \in unused :
              /\ \A m \in unused : n <= m
              /\ fd' = [fd EXCEPT ![e] = n]
    /\ UNCHANGED <<build, count, nonblock, pc, ev, set, beside>>

\* No call borrows the event.  A WaitSet does not.
Drop(e) ==
    /\ fd[e] # NoFd /\ \A t \in Thread : ev[t] # e
    /\ fd' = [fd EXCEPT ![e] = NoFd]
    /\ count' = [count EXCEPT ![e] = 0]
    /\ stale' = stale \union {i \in DOMAIN source : source[i] = e}
    /\ UNCHANGED <<build, nonblock, pc, ev, waitset, timeout, ready, source, taken, beside>>

-----------------------------------------------------------------------------
(* notify *)

NotifyCall(t, e) ==
    /\ t \in Worker /\ e \in Notifiable
    /\ Call(t, e, "nWrite")
    /\ UNCHANGED <<build, files, set, beside>>

NotifyWrite(t) ==
    /\ pc[t] \in {"nWrite", "nBlocked"} /\ count[ev[t]] < MaxCount
    /\ count' = [count EXCEPT ![ev[t]] = @ + 1]
    /\ Return(t)
    /\ UNCHANGED <<build, fd, nonblock, set, beside>>

\* The flag of a pipe's write end is never set.
NotifyFull(t) ==
    /\ pc[t] = "nWrite" /\ count[ev[t]] = MaxCount
    /\ IF build = "eventfd" /\ nonblock[ev[t]]
       THEN Return(t)                     \* Err
       ELSE Goto(t, "nBlocked") /\ UNCHANGED ev
    /\ UNCHANGED <<build, files, set, beside>>

-----------------------------------------------------------------------------
(* The read of wait() *)

Takes(t) ==
    /\ count[ev[t]] > 0
    /\ count' = [count EXCEPT ![ev[t]] = IF build = "eventfd" THEN 0 ELSE @ - 1]
    /\ taken' = taken \union {i \in DOMAIN source : source[i] = ev[t]}

WaitCall(t, e) ==
    /\ t \in Worker /\ e \in Waitable
    /\ Call(t, e, "wRead")
    /\ UNCHANGED <<build, files, set, beside>>

WaitRead(t) ==
    /\ pc[t] \in {"wRead", "wBlocked"}
    /\ Takes(t)
    /\ Return(t)
    /\ UNCHANGED <<build, fd, nonblock, waitset, timeout, ready, source, stale, beside>>

\* Nothing pending: an error (EAGAIN) when the flag is set.
WaitEmpty(t) ==
    /\ pc[t] = "wRead" /\ count[ev[t]] = 0
    /\ IF nonblock[ev[t]] THEN Return(t) ELSE Goto(t, "wBlocked") /\ UNCHANGED ev
    /\ UNCHANGED <<build, files, set, beside>>

-----------------------------------------------------------------------------
(* try_wait: set_nonblocking(true), wait(), set_nonblocking(false) *)

Trying(e) == {u \in Thread : ev[u] = e /\ pc[u] \in InTryWait}

TryWaitBegins(t, e) ==
    /\ e \in Waitable
    /\ Call(t, e, "tSet")
    /\ beside' = IF Trying(e) = {} THEN beside ELSE beside \union Trying(e) \union {t}

TryWaitCall(t, e) ==
    /\ t \in Worker
    /\ TryWaitBegins(t, e)
    /\ UNCHANGED <<build, files, set>>

\* A try_wait that does not change the flag.
SetNonblockingSkipped(t) ==
    /\ pc[t] = "tSet"
    /\ Goto(t, "tRead")
    /\ UNCHANGED <<build, files, ev, set, beside>>

SetNonblocking(t) ==
    /\ pc[t] = "tSet"
    /\ nonblock' = [nonblock EXCEPT ![ev[t]] = TRUE]
    /\ Goto(t, "tRead")
    /\ UNCHANGED <<build, fd, count, ev, set, beside>>

TryRead(t) ==
    /\ pc[t] \in {"tRead", "tBlocked"}
    /\ Takes(t)
    /\ Goto(t, "tReset")
    /\ UNCHANGED <<build, fd, nonblock, ev, waitset, timeout, ready, source, stale, beside>>

\* Ok(false) in the end, unless another thread has cleared the flag meanwhile.
TryEmpty(t) ==
    /\ pc[t] = "tRead" /\ count[ev[t]] = 0
    /\ Goto(t, IF nonblock[ev[t]] THEN "tReset" ELSE "tBlocked")
    /\ UNCHANGED <<build, files, ev, set, beside>>

\* A `?` on the read that skips the second set_nonblocking.
SetBlockingSkipped(t) ==
    /\ pc[t] = "tReset"
    /\ beside' = beside \ {t}
    /\ Return(t)
    /\ UNCHANGED <<build, files, set>>

SetBlocking(t) ==
    /\ pc[t] = "tReset"
    /\ nonblock' = [nonblock EXCEPT ![ev[t]] = FALSE]
    /\ beside' = beside \ {t}
    /\ Return(t)
    /\ UNCHANGED <<build, fd, count, set>>

-----------------------------------------------------------------------------
(* WaitSet *)

Attach(e) ==
    /\ pc[Poller] = "idle" /\ ready = {}
    /\ e \in Waitable /\ fd[e] # NoFd /\ Len(waitset) < MaxAttached
    /\ waitset' = Append(waitset, fd[e])
    /\ source' = Append(source, e)
    /\ UNCHANGED <<build, files, pc, ev, timeout, ready, stale, taken, beside>>

\* A conversion that loses the timeout.
TimeoutMsUnset(d) == -1

\* d.as_millis() as i32; None is -1, and poll() takes what is negative for no timeout.
TimeoutMs(d) ==
    IF d = NoTimeout THEN -1
    ELSE LET w == d % (2 * IntLimit) IN IF w < IntLimit THEN w ELSE w - 2 * IntLimit

PollCall(d) ==
    /\ pc[Poller] = "idle" /\ ready = {} /\ waitset # <<>>
    /\ Goto(Poller, "poll")
    /\ timeout' = d
    /\ taken' = {}
    /\ UNCHANGED <<build, files, ev, waitset, ready, source, stale, beside>>

\* revents of attachment i: POLLIN, and POLLNVAL for a closed descriptor.
Readable(i) == \E e \in Event : fd[e] = waitset[i] /\ count[e] > 0
Closed(i) == \A e \in Event : fd[e] # waitset[i]
Triggered == {i \in DOMAIN waitset : Readable(i)}

\* The ids are the positions among the triggered sources instead of among all.
PollReturnsRanks ==
    /\ pc[Poller] = "poll"
    /\ \E i \in DOMAIN waitset : Readable(i) \/ Closed(i)
    /\ ready' = 1 .. Cardinality(Triggered)
    /\ Goto(Poller, "idle")
    /\ timeout' = NoTimeout
    /\ taken' = {}
    /\ UNCHANGED <<build, files, ev, waitset, source, stale, beside>>

\* Only the first triggered source is reported.
PollReturnsFirst ==
    /\ pc[Poller] = "poll"
    /\ \E i \in DOMAIN waitset : Readable(i) \/ Closed(i)
    /\ ready' = {i \in Triggered : \A j \in Triggered : i <= j}
    /\ Goto(Poller, "idle")
    /\ timeout' = NoTimeout
    /\ taken' = {}
    /\ UNCHANGED <<build, files, ev, waitset, source, stale, beside>>

PollReturns ==
    /\ pc[Poller] = "poll"
    /\ \E i \in DOMAIN waitset : Readable(i) \/ Closed(i)
    /\ ready' = Triggered
    /\ Goto(Poller, "idle")
    /\ timeout' = NoTimeout
    /\ taken' = {}
    /\ UNCHANGED <<build, files, ev, waitset, source, stale, beside>>

PollNothing ==
    /\ pc[Poller] = "poll"
    /\ \A i \in DOMAIN waitset : ~Readable(i) /\ ~Closed(i)
    /\ Goto(Poller, "idle")
    /\ timeout' = NoTimeout
    /\ UNCHANGED <<build, files, ev, waitset, ready, source, stale, taken, beside>>

PollTimesOut == TimeoutMs(timeout) >= 0 /\ PollNothing

\* A signal: poll fails with EINTR, and wait returns the empty list as for a timeout.
\* The handlers are installed with signal(), which has reads and writes restarted.
PollInterrupted == PollNothing

\* The application goes through the list; a listener it has dropped it cannot call.
Handle(i) ==
    /\ pc[Poller] = "idle" /\ i \in ready
    /\ ready' = ready \ {i}
    /\ IF i \in stale
       THEN UNCHANGED <<pc, ev, beside>>
       ELSE TryWaitBegins(Poller, source[i])
    /\ UNCHANGED <<build, files, waitset, timeout, source, stale, taken>>

-----------------------------------------------------------------------------
\* A step of a call in progress.
Step(t) ==
    \/ NotifyWrite(t) \/ NotifyFull(t)
    \/ WaitRead(t) \/ WaitEmpty(t)
    \/ SetNonblocking(t) \/ TryRead(t) \/ TryEmpty(t) \/ SetBlocking(t)

PollerStep ==
    \/ Step(Poller)
    \/ \E d \in Timeout \union {NoTimeout} : PollCall(d)
    \/ PollReturns \/ PollTimesOut
    \/ \E i \in ready : Handle(i)

Next ==
    \/ \E e \in Event : Create(e) \/ Drop(e) \/ Attach(e)
    \/ \E t \in Worker :
          \/ \E e \in Event : NotifyCall(t, e) \/ WaitCall(t, e) \/ TryWaitCall(t, e)
          \/ Step(t)
    \/ PollerStep \/ PollInterrupted

\* Threads that can run do, and the application keeps polling and handles what it is
\* told of.
Fairness == WF_vars(PollerStep) /\ \A t \in Worker : WF_vars(Step(t))

SafetySpec == Init /\ [][Next]_vars
Spec == SafetySpec /\ Fairness

-----------------------------------------------------------------------------
(* Properties *)

(* Type invariant, the first part of IndInv: wait() reports ids that attach() has given
   (waitset.rs:29-33, 77-83), and every variable stays in its range. *)
TypeOK ==
    /\ build \in {"eventfd", "pipe"}
    /\ fd \in [Event -> Fd \union {NoFd}]
    /\ count \in [Event -> 0 .. MaxCount]
    /\ nonblock \in [Event -> BOOLEAN]
    /\ pc \in [Thread -> {"idle", "nWrite", "nBlocked", "wRead", "wBlocked", "poll"} \union InTryWait]
    /\ ev \in [Thread -> Event \union {NoEvent}]
    /\ waitset \in Seq(Fd) /\ source \in Seq(Event)
    /\ timeout \in Timeout \union {NoTimeout}
    /\ ready \subseteq DOMAIN waitset /\ stale \subseteq DOMAIN waitset
    /\ taken \subseteq DOMAIN waitset
    /\ beside \subseteq Thread

(* try_wait borrows the flag of the file for the length of its call: nobody leaves it
   set, so that a wait() is refused (EAGAIN, where event.rs:76 says it blocks) only
   beside a try_wait of the same event, and the next user gets a blocking file. *)
FlagRestored ==
    \A e \in Event : nonblock[e] =>
        \E t \in Thread : ev[t] = e /\ pc[t] \in {"tRead", "tBlocked", "tReset"}

(* "Try to consume a pending notification without blocking" (event.rs:116) is true of
   a try_wait that has the event to itself.  Of two that overlap, the first to end
   clears the flag, and the other may block. *)
TryWaitAlone == \A t \in Thread : pc[t] = "tBlocked" => t \in beside

(* What WaitSet::wait reports under an id is the source that was attached under that
   id, and it is still readable when the application gets to it, unless somebody else
   read it or it was dropped; a descriptor number that another event has now is told
   from the old one by nothing but that. *)
ReadyIsWaitable ==
    \A i \in ready \ (stale \union taken) :
        /\ fd[source[i]] = waitset[i]
        /\ count[source[i]] > 0

(* A WaitSet::wait with a timeout that fits an i32 ends, whether or not anything
   happens.  One with a longer timeout may not: the cast makes it negative, which poll
   takes for none. *)
TimedWaitEnds ==
    \A d \in {x \in Timeout : x < IntLimit} :
        (pc[Poller] = "poll" /\ timeout = d) ~> pc[Poller] # "poll"

\* A notification is pending at a source of the WaitSet.
Pending(e) == count[e] > 0 /\ \E i \in DOMAIN source \ stale : source[i] = e

(* The loop around WaitSet::wait gets round to every source: one at which notifications
   stay pending is read again and again, however busy the others are and whatever
   signals and timeouts end the polls, unless the Poller is left blocked by a try_wait
   that met another. *)
SourcesServed ==
    \A e \in Event :
        <>[]Pending(e) =>
            \/ []<><<count'[e] < count[e]>>_vars
            \/ <>[](pc[Poller] = "tBlocked" /\ Poller \in beside)
-----------------------------------------------------------------------------
(* The inductive invariant of the proofs *)

\* A call is on an event.
CallsKnow == \A t \in Thread : ev[t] = NoEvent <=> pc[t] \in {"idle", "poll"}

\* Two try_waits of one event that overlap are both marked ...
Overlaps ==
    \A t, u \in Thread :
        t # u /\ ev[t] = ev[u] /\ pc[t] \in InTryWait /\ pc[u] \in InTryWait => t \in beside

\* ... and only one that is may find the flag cleared when it reads.
FlagWhileReading == \A t \in Thread : pc[t] = "tRead" => nonblock[ev[t]] \/ t \in beside

\* Events have different descriptors, and an attached event that was not dropped since
\* has the one the WaitSet knows.
Descriptors ==
    /\ \A d, e \in Event : fd[d] = fd[e] /\ fd[e] # NoFd => d = e
    /\ Len(source) = Len(waitset)
    /\ \A i \in DOMAIN waitset \ stale : fd[source[i]] = waitset[i]

IndInv ==
    /\ TypeOK /\ FlagRestored /\ TryWaitAlone /\ ReadyIsWaitable
    /\ CallsKnow /\ Overlaps /\ FlagWhileReading /\ Descriptors
=============================================================================
