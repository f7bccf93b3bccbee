------------------------ MODULE Coordination_proofs ------------------------
(***************************************************************************)
(* Proofs about the parts that coordinate through the operating system, a  *)
(* section for each: events and the WaitSet (EventPorts), the directory of *)
(* the service registry (ServiceRegistry), and the files and locks of the  *)
(* process monitor (ProcessMonitor).  The parts share no variable, so what *)
(* is proved of one holds whatever the others do.                          *)
(***************************************************************************)
EXTENDS EventPorts, ServiceRegistry, ProcessMonitor, TLAPS

-----------------------------------------------------------------------------
(* Events, for any number of threads, events and descriptors, both builds and every
   capacity: what try_wait borrows it gives back, only one that overlaps another may
   block, and what WaitSet::wait reports is there. *)

\* What is said of threads and flags, and of descriptors.
Calling == CallsKnow /\ FlagRestored /\ TryWaitAlone /\ Overlaps /\ FlagWhileReading
Polling == Descriptors /\ ReadyIsWaitable

(* The parts of the invariant that these proofs start from. *)
LEMMA Parts ==
    ASSUME IndInv
    PROVE  /\ build \in {"eventfd", "pipe"}
           /\ fd \in [Event -> Fd \union {NoFd}]
           /\ count \in [Event -> 0 .. MaxCount]
           /\ nonblock \in [Event -> BOOLEAN]
           /\ pc \in [Thread -> {"idle", "nWrite", "nBlocked", "wRead", "wBlocked", "poll"} \union InTryWait]
           /\ ev \in [Thread -> Event \union {NoEvent}]
           /\ waitset \in Seq(Fd) /\ source \in Seq(Event)
           /\ timeout \in Timeout \union {NoTimeout}
           /\ ready \subseteq DOMAIN waitset /\ stale \subseteq DOMAIN waitset
           /\ taken \subseteq DOMAIN waitset
           /\ beside \subseteq Thread
           /\ NoEvent \notin Event /\ NoFd \notin Fd /\ Calling /\ Polling
BY EventAssumption, FdAssumption DEF IndInv, TypeOK, Calling, Polling

(* Positions in the WaitSet, and the events they are of. *)
LEMMA Positions ==
    ASSUME IndInv
    PROVE  /\ DOMAIN waitset = 1 .. Len(waitset) /\ DOMAIN source = DOMAIN waitset /\ Len(waitset) \in Nat
           /\ \A i \in DOMAIN waitset : source[i] \in Event /\ waitset[i] \in Fd
BY Parts DEF Polling, Descriptors

-----------------------------------------------------------------------------
(* Threads and the flag *)

(* A thread whose call is not a try_wait. *)
LEMMA OtherCalls ==
    ASSUME IndInv, NEW t \in Thread, pc[t] \notin InTryWait,
           NEW l \in {"idle", "nWrite", "nBlocked", "wRead", "wBlocked", "poll"},
           NEW e \in Event \union {NoEvent}, e = NoEvent <=> l \in {"idle", "poll"},
           pc' = [pc EXCEPT ![t] = l], ev' = [ev EXCEPT ![t] = e], UNCHANGED <<nonblock, beside>>
    PROVE  Calling'
<1> USE Parts DEF InTryWait
<1>1. /\ pc'[t] = l /\ ev'[t] = e
      /\ \A u \in Thread \ {t} : pc'[u] = pc[u] /\ ev'[u] = ev[u]
  OBVIOUS
<1>2. CallsKnow'
  BY <1>1 DEF Calling, CallsKnow
<1>3. FlagRestored'
  BY <1>1 DEF Calling, FlagRestored
<1>4. TryWaitAlone'
  BY <1>1 DEF Calling, TryWaitAlone
<1>5. Overlaps'
  BY <1>1 DEF Calling, Overlaps
<1>6. FlagWhileReading'
  BY <1>1 DEF Calling, FlagWhileReading
<1> QED
  BY <1>2, <1>3, <1>4, <1>5, <1>6 DEF Calling

(* The start of a try_wait marks it and those it joins. *)
LEMMA TryWaitBeginsKeeps ==
    ASSUME IndInv, NEW t \in Thread, NEW e \in Event, TryWaitBegins(t, e), UNCHANGED nonblock
    PROVE  Calling'
<1> USE Parts DEF InTryWait
<1>1. /\ pc[t] = "idle" /\ pc'[t] = "tSet" /\ ev'[t] = e
      /\ \A u \in Thread \ {t} : pc'[u] = pc[u] /\ ev'[u] = ev[u]
      /\ beside \subseteq beside'
      /\ \A u \in Thread : ev[u] = e /\ pc[u] \in InTryWait => u \in beside' /\ t \in beside'
  BY DEF TryWaitBegins, Call, Goto, Trying
<1>2. CallsKnow'
  BY <1>1 DEF Calling, CallsKnow
<1>3. FlagRestored'
  <2> SUFFICES ASSUME NEW d \in Event, nonblock[d]
               PROVE  \E u \in Thread : ev'[u] = d /\ pc'[u] \in {"tRead", "tBlocked", "tReset"}
    BY DEF FlagRestored
  <2>1. PICK u \in Thread : ev[u] = d /\ pc[u] \in {"tRead", "tBlocked", "tReset"}
    BY DEF Calling, FlagRestored
  <2> QED
    BY <1>1, <2>1
<1>4. TryWaitAlone'
  BY <1>1 DEF Calling, TryWaitAlone
<1>5. Overlaps'
  BY <1>1 DEF Calling, Overlaps
<1>6. FlagWhileReading'
  BY <1>1 DEF Calling, FlagWhileReading
<1> QED
  BY <1>2, <1>3, <1>4, <1>5, <1>6 DEF Calling

(* fcntl sets the flag. *)
LEMMA SetNonblockingKeeps ==
    ASSUME IndInv, NEW t \in Thread, SetNonblocking(t)
    PROVE  Calling'
<1> USE Parts DEF InTryWait
<1>1. PICK e \in Event : e = ev[t]
  BY DEF Calling, CallsKnow, SetNonblocking
<1>2. /\ pc[t] = "tSet" /\ pc'[t] = "tRead" /\ ev' = ev /\ beside' = beside
      /\ \A u \in Thread \ {t} : pc'[u] = pc[u]
      /\ nonblock'[e] = TRUE /\ \A d \in Event \ {e} : nonblock'[d] = nonblock[d]
  BY <1>1 DEF SetNonblocking, Goto
<1>3. CallsKnow'
  BY <1>2 DEF Calling, CallsKnow
<1>4. FlagRestored'
  <2> SUFFICES ASSUME NEW d \in Event, nonblock'[d]
               PROVE  \E u \in Thread : ev'[u] = d /\ pc'[u] \in {"tRead", "tBlocked", "tReset"}
    BY DEF FlagRestored
  <2>1. CASE d = e
    BY <1>1, <1>2, <2>1
  <2>2. CASE d # e
    <3>1. PICK u \in Thread : ev[u] = d /\ pc[u] \in {"tRead", "tBlocked", "tReset"}
      BY <1>2, <2>2 DEF Calling, FlagRestored
    <3> QED
      BY <1>2, <3>1
  <2> QED
    BY <2>1, <2>2
<1>5. TryWaitAlone'
  BY <1>2 DEF Calling, TryWaitAlone
<1>6. Overlaps'
  BY <1>2 DEF Calling, Overlaps
<1>7. FlagWhileReading'
  BY <1>1, <1>2 DEF Calling, FlagWhileReading, CallsKnow
<1> QED
  BY <1>3, <1>4, <1>5, <1>6, <1>7 DEF Calling

(* The read of a try_wait, which blocks only if the flag was cleared. *)
LEMMA TryReads ==
    ASSUME IndInv, NEW t \in Thread, TryRead(t) \/ TryEmpty(t)
    PROVE  Calling'
<1> USE Parts DEF InTryWait
<1>1. /\ pc[t] \in {"tRead", "tBlocked"} /\ ev' = ev /\ beside' = beside /\ nonblock' = nonblock
      /\ \A u \in Thread \ {t} : pc'[u] = pc[u]
      /\ \/ pc'[t] = "tReset"
         \/ pc'[t] = "tBlocked" /\ pc[t] = "tRead" /\ ~nonblock[ev[t]]
  BY DEF TryRead, TryEmpty, Goto, files
<1>2. CallsKnow'
  BY <1>1 DEF Calling, CallsKnow
<1>3. FlagRestored'
  <2> SUFFICES ASSUME NEW e \in Event, nonblock[e]
               PROVE  \E u \in Thread : ev[u] = e /\ pc'[u] \in {"tRead", "tBlocked", "tReset"}
    BY <1>1 DEF FlagRestored
  <2>1. PICK u \in Thread : ev[u] = e /\ pc[u] \in {"tRead", "tBlocked", "tReset"}
    BY DEF Calling, FlagRestored
  <2>2. pc'[u] \in {"tRead", "tBlocked", "tReset"}
    BY <1>1, <2>1
  <2> QED
    BY <2>1, <2>2
<1>4. TryWaitAlone'
  BY <1>1 DEF Calling, TryWaitAlone, FlagWhileReading
<1>5. Overlaps'
  BY <1>1 DEF Calling, Overlaps
<1>6. FlagWhileReading'
  BY <1>1 DEF Calling, FlagWhileReading
<1> QED
  BY <1>2, <1>3, <1>4, <1>5, <1>6 DEF Calling

(* fcntl clears the flag, also under a try_wait that overlaps. *)
LEMMA SetBlockingKeeps ==
    ASSUME IndInv, NEW t \in Thread, SetBlocking(t)
    PROVE  Calling'
<1> USE Parts DEF InTryWait
<1>1. PICK e \in Event : e = ev[t]
  BY DEF Calling, CallsKnow, SetBlocking
<1>2. /\ pc[t] = "tReset" /\ pc'[t] = "idle" /\ ev'[t] = NoEvent /\ beside' = beside \ {t}
      /\ \A u \in Thread \ {t} : pc'[u] = pc[u] /\ ev'[u] = ev[u]
      /\ nonblock'[e] = FALSE /\ \A d \in Event \ {e} : nonblock'[d] = nonblock[d]
  BY <1>1 DEF SetBlocking, Return, Goto
<1>3. CallsKnow'
  BY <1>2 DEF Calling, CallsKnow
<1>4. FlagRestored'
  <2> SUFFICES ASSUME NEW d \in Event, nonblock'[d]
               PROVE  \E u \in Thread : ev'[u] = d /\ pc'[u] \in {"tRead", "tBlocked", "tReset"}
    BY DEF FlagRestored
  <2>1. d # e /\ nonblock[d]
    BY <1>2
  <2>2. PICK u \in Thread : ev[u] = d /\ pc[u] \in {"tRead", "tBlocked", "tReset"}
    BY <2>1 DEF Calling, FlagRestored
  <2>3. u # t
    BY <1>1, <2>1, <2>2
  <2> QED
    BY <1>2, <2>2, <2>3
<1>5. TryWaitAlone'
  BY <1>2 DEF Calling, TryWaitAlone
<1>6. Overlaps'
  BY <1>2 DEF Calling, Overlaps
<1>7. FlagWhileReading'
  <2> SUFFICES ASSUME NEW u \in Thread, pc'[u] = "tRead" PROVE nonblock'[ev'[u]] \/ u \in beside'
    BY DEF FlagWhileReading
  <2>1. u # t /\ pc[u] = "tRead" /\ ev'[u] = ev[u] /\ (u \in beside' <=> u \in beside)
    BY <1>2
  <2>2. ev[u] \in Event
    BY <2>1 DEF Calling, CallsKnow
  <2>3. CASE ev[u] = e
    BY <1>1, <1>2, <2>1, <2>3 DEF Calling, Overlaps
  <2>4. CASE ev[u] # e
    BY <1>2, <2>1, <2>2, <2>4 DEF Calling, FlagWhileReading
  <2> QED
    BY <2>3, <2>4
<1> QED
  BY <1>3, <1>4, <1>5, <1>6, <1>7 DEF Calling

(* Every step keeps what is said of threads and flags. *)
LEMMA CallingKept == ASSUME IndInv, [Next]_vars PROVE Calling'
<1> USE Parts
<1>1. CASE UNCHANGED <<pc, ev, nonblock, beside>>
  BY <1>1 DEF Calling, CallsKnow, FlagRestored, TryWaitAlone, Overlaps, FlagWhileReading
<1>2. ASSUME NEW t \in Thread, NEW e \in Event,
             NotifyCall(t, e) \/ WaitCall(t, e)
      PROVE  Calling'
  <2>1. PICK l \in {"nWrite", "wRead"} :
           pc[t] = "idle" /\ pc' = [pc EXCEPT ![t] = l] /\ ev' = [ev EXCEPT ![t] = e]
    BY <1>2 DEF NotifyCall, WaitCall, Call, Goto
  <2>2. UNCHANGED <<nonblock, beside>>
    BY <1>2 DEF NotifyCall, WaitCall, files
  <2>3. pc[t] \notin InTryWait
    BY <2>1 DEF InTryWait
  <2> QED
    BY <2>1, <2>2, <2>3, OtherCalls
<1>3. ASSUME NEW t \in Thread, NotifyWrite(t) \/ WaitRead(t)
      PROVE  Calling'
  <2>1. /\ pc[t] \notin InTryWait /\ pc' = [pc EXCEPT ![t] = "idle"] /\ ev' = [ev EXCEPT ![t] = NoEvent]
        /\ UNCHANGED <<nonblock, beside>>
    BY <1>3 DEF NotifyWrite, WaitRead, Return, Goto, InTryWait
  <2> QED
    BY <2>1, OtherCalls
<1>4. ASSUME NEW t \in Thread, NotifyFull(t) \/ WaitEmpty(t)
      PROVE  Calling'
  <2>1. pc[t] \notin InTryWait /\ UNCHANGED <<nonblock, beside>>
    BY <1>4 DEF NotifyFull, WaitEmpty, files, InTryWait
  <2>2. \/ pc' = [pc EXCEPT ![t] = "idle"] /\ ev' = [ev EXCEPT ![t] = NoEvent]
        \/ \E l \in {"nBlocked", "wBlocked"} :
              pc' = [pc EXCEPT ![t] = l] /\ ev' = ev /\ pc[t] \in {"nWrite", "wRead"}
    BY <1>4 DEF NotifyFull, WaitEmpty, Return, Goto
  <2>3. CASE pc' = [pc EXCEPT ![t] = "idle"] /\ ev' = [ev EXCEPT ![t] = NoEvent]
    BY <2>1, <2>3, OtherCalls
  <2>4. ASSUME NEW l \in {"nBlocked", "wBlocked"},
               pc' = [pc EXCEPT ![t] = l], ev' = ev, pc[t] \in {"nWrite", "wRead"}
        PROVE  Calling'
    <3>1. PICK e \in Event : e = ev[t]
      BY <2>4 DEF Calling, CallsKnow
    <3>2. ev' = [ev EXCEPT ![t] = e]
      BY <2>4, <3>1
    <3> QED
      BY <2>1, <2>4, <3>2, OtherCalls
  <2> QED
    BY <2>2, <2>3, <2>4
<1>5. ASSUME NEW t \in Thread,
             SetNonblocking(t) \/ TryRead(t) \/ TryEmpty(t) \/ SetBlocking(t)
      PROVE  Calling'
  BY <1>5, SetNonblockingKeeps, TryReads, SetBlockingKeeps
<1>6. ASSUME NEW t \in Thread, NEW e \in Event, TryWaitCall(t, e)
      PROVE  Calling'
  BY <1>6, TryWaitBeginsKeeps DEF TryWaitCall, files
<1>7. ASSUME NEW t \in Thread, Step(t) PROVE Calling'
  BY <1>3, <1>4, <1>5, <1>7 DEF Step
<1>8. Poller \in Thread /\ Worker \subseteq Thread
  BY DEF Thread
<1>9. CASE (\E d \in Timeout \union {NoTimeout} : PollCall(d)) \/ PollReturns \/ PollNothing
  <2>1. PICK l \in {"idle", "poll"} : pc' = [pc EXCEPT ![Poller] = l]
    BY <1>9 DEF PollCall, PollReturns, PollNothing, Goto
  <2>2. pc[Poller] \in {"idle", "poll"} /\ UNCHANGED <<ev, nonblock, beside>>
    BY <1>9 DEF PollCall, PollReturns, PollNothing, files
  <2>3. ev' = [ev EXCEPT ![Poller] = NoEvent] /\ pc[Poller] \notin InTryWait
    BY <1>8, <2>2 DEF Calling, CallsKnow, InTryWait
  <2> QED
    BY <1>8, <2>1, <2>2, <2>3, OtherCalls
<1>10. CASE \E i \in ready : Handle(i)
  <2>1. PICK i \in ready : Handle(i)
    BY <1>10
  <2>2. UNCHANGED nonblock /\ source[i] \in Event
    BY <2>1, Positions DEF Handle, files
  <2>3. CASE i \in stale
    BY <1>1, <2>1, <2>2, <2>3 DEF Handle
  <2>4. CASE i \notin stale
    BY <1>8, <2>1, <2>2, <2>4, TryWaitBeginsKeeps DEF Handle
  <2> QED
    BY <2>3, <2>4
<1>11. CASE \E e \in Event : Create(e) \/ Drop(e) \/ Attach(e)
  BY <1>1, <1>11 DEF Create, Drop, Attach, files
<1>12. CASE UNCHANGED vars
  BY <1>1, <1>12 DEF vars, files
<1>13. CASE PollerStep \/ PollInterrupted
  BY <1>7, <1>8, <1>9, <1>10, <1>13 DEF PollerStep, PollInterrupted, PollTimesOut
<1>14. ASSUME NEW t \in Worker,
              (\E e \in Event : NotifyCall(t, e) \/ WaitCall(t, e) \/ TryWaitCall(t, e)) \/ Step(t)
       PROVE  Calling'
  BY <1>2, <1>6, <1>7, <1>8, <1>14
<1> QED
  BY <1>11, <1>12, <1>13, <1>14 DEF Next

-----------------------------------------------------------------------------
(* Descriptors and the WaitSet *)

(* A step that leaves the descriptors alone and takes nothing it does not mark. *)
LEMMA PollingSame ==
    ASSUME IndInv, UNCHANGED <<fd, waitset, source, stale>>, ready' \subseteq ready,
           \A i \in ready' \ (stale \union taken') :
               i \notin taken /\ (count[source[i]] > 0 => count'[source[i]] > 0)
    PROVE  Polling'
<1>1. Descriptors'
  BY Parts DEF Polling, Descriptors
<1>2. ReadyIsWaitable'
  BY Parts DEF Polling, ReadyIsWaitable
<1> QED
  BY <1>1, <1>2 DEF Polling

(* A read marks the sources it is a read of. *)
LEMMA TakesKeeps ==
    ASSUME IndInv, NEW t \in Thread, ev[t] \in Event, Takes(t), UNCHANGED <<fd, waitset, source, stale, ready>>
    PROVE  Polling' /\ count' \in [Event -> 0 .. MaxCount] /\ taken' \subseteq DOMAIN waitset
<1> USE Parts, Positions
<1>1. /\ count[ev[t]] > 0 /\ count[ev[t]] \in 0 .. MaxCount
      /\ count' = [count EXCEPT ![ev[t]] = IF build = "eventfd" THEN 0 ELSE count[ev[t]] - 1]
      /\ taken' = taken \union {i \in DOMAIN source : source[i] = ev[t]}
  BY DEF Takes
<1>2. (IF build = "eventfd" THEN 0 ELSE count[ev[t]] - 1) \in 0 .. MaxCount
  BY <1>1, BoundAssumption
<1>3. count' \in [Event -> 0 .. MaxCount] /\ taken' \subseteq DOMAIN waitset
  BY <1>1, <1>2
<1>4. ASSUME NEW i \in ready \ (stale \union taken')
      PROVE  i \notin taken /\ count'[source[i]] = count[source[i]]
  <2>1. i \notin taken /\ source[i] \in Event /\ source[i] # ev[t]
    BY <1>1
  <2> QED
    BY <1>1, <2>1
<1> QED
  BY <1>3, <1>4, PollingSame

(* The kernel gives a descriptor that no event has. *)
LEMMA CreateKeeps ==
    ASSUME IndInv, NEW e \in Event, Create(e)
    PROVE  Polling' /\ fd' \in [Event -> Fd \union {NoFd}]
<1> USE Parts, Positions
<1>a. fd[e] = NoFd /\ UNCHANGED <<count, waitset, source, stale, taken, ready>>
  BY DEF Create, set
<1>b. PICK n \in Fd \ {fd[x] : x \in Event} : fd' = [fd EXCEPT ![e] = n]
  BY DEF Create
<1>1. /\ n \in Fd /\ fd[e] = NoFd /\ fd' = [fd EXCEPT ![e] = n] /\ \A x \in Event : fd[x] # n
      /\ UNCHANGED <<count, waitset, source, stale, taken, ready>>
  BY <1>a, <1>b
<1>2. fd'[e] = n /\ \A x \in Event \ {e} : fd'[x] = fd[x]
  BY <1>1
<1>3. \A i \in DOMAIN waitset \ stale : source[i] # e /\ fd'[source[i]] = fd[source[i]]
  BY <1>1, <1>2 DEF Polling, Descriptors
<1>4. Descriptors'
  BY <1>1, <1>2, <1>3 DEF Polling, Descriptors
<1>5. ReadyIsWaitable'
  BY <1>1, <1>3 DEF Polling, ReadyIsWaitable
<1> QED
  BY <1>1, <1>4, <1>5 DEF Polling

(* What is dropped is stale in the WaitSet. *)
LEMMA DropKeeps ==
    ASSUME IndInv, NEW e \in Event, Drop(e)
    PROVE  /\ Polling' /\ fd' \in [Event -> Fd \union {NoFd}] /\ count' \in [Event -> 0 .. MaxCount]
           /\ stale' \subseteq DOMAIN waitset
<1> USE Parts, Positions
<1>1. /\ fd' = [fd EXCEPT ![e] = NoFd] /\ count' = [count EXCEPT ![e] = 0]
      /\ stale' = stale \union {i \in DOMAIN source : source[i] = e}
      /\ UNCHANGED <<waitset, source, taken, ready>>
  BY DEF Drop
<1>2. fd'[e] = NoFd /\ \A x \in Event \ {e} : fd'[x] = fd[x] /\ count'[x] = count[x]
  BY <1>1
<1>3. \A i \in DOMAIN waitset \ stale' :
         /\ i \notin stale /\ fd'[source[i]] = fd[source[i]] /\ count'[source[i]] = count[source[i]]
  BY <1>1, <1>2
<1>4. Descriptors'
  BY <1>1, <1>2, <1>3 DEF Polling, Descriptors
<1>5. ReadyIsWaitable'
  BY <1>1, <1>3 DEF Polling, ReadyIsWaitable
<1>6. 0 \in 0 .. MaxCount
  BY BoundAssumption
<1> QED
  BY <1>1, <1>4, <1>5, <1>6 DEF Polling

(* attach gives the next id. *)
LEMMA AttachKeeps ==
    ASSUME IndInv, NEW e \in Event, Attach(e)
    PROVE  /\ Polling' /\ waitset' \in Seq(Fd) /\ source' \in Seq(Event)
           /\ DOMAIN waitset \subseteq DOMAIN waitset'
<1> USE Parts, Positions
<1>1. /\ fd[e] \in Fd /\ waitset' = Append(waitset, fd[e]) /\ source' = Append(source, e)
      /\ UNCHANGED <<fd, count, stale, taken, ready>> /\ ready = {}
  BY DEF Attach, files
<1>2. /\ waitset' \in Seq(Fd) /\ source' \in Seq(Event) /\ Len(source') = Len(waitset')
      /\ DOMAIN waitset' = 1 .. Len(waitset) + 1
      /\ \A i \in DOMAIN waitset : waitset'[i] = waitset[i] /\ source'[i] = source[i]
      /\ waitset'[Len(waitset) + 1] = fd[e] /\ source'[Len(waitset) + 1] = e
  BY <1>1 DEF Polling, Descriptors
<1>3. Descriptors'
  <2> SUFFICES ASSUME NEW i \in DOMAIN waitset' \ stale PROVE fd[source'[i]] = waitset'[i]
    BY <1>1, <1>2 DEF Polling, Descriptors
  <2>1. CASE i \in DOMAIN waitset
    BY <1>2, <2>1 DEF Polling, Descriptors
  <2>2. CASE i = Len(waitset) + 1
    BY <1>2, <2>2
  <2> QED
    BY <1>2, <2>1, <2>2
<1>4. ReadyIsWaitable'
  BY <1>1 DEF ReadyIsWaitable
<1> QED
  BY <1>2, <1>3, <1>4 DEF Polling

(* poll finds readable what is readable now: no other event has the descriptor. *)
LEMMA PollReturnsKeeps == ASSUME IndInv, PollReturns PROVE Polling' /\ ready' \subseteq DOMAIN waitset
<1> USE Parts, Positions
<1>1. ready' = Triggered /\ UNCHANGED <<fd, count, waitset, source, stale>>
  BY DEF PollReturns, files
<1>2. Descriptors'
  BY <1>1 DEF Polling, Descriptors
<1>3. ASSUME NEW i \in Triggered \ stale PROVE fd[source[i]] = waitset[i] /\ count[source[i]] > 0
  <2>1. PICK e \in Event : fd[e] = waitset[i] /\ count[e] > 0
    BY DEF Triggered, Readable
  <2>2. i \in DOMAIN waitset \ stale /\ fd[source[i]] = waitset[i] /\ source[i] \in Event
    BY DEF Triggered, Polling, Descriptors
  <2>3. e = source[i]
    BY <2>1, <2>2 DEF Polling, Descriptors
  <2> QED
    BY <2>1, <2>2, <2>3
<1>4. ReadyIsWaitable'
  BY <1>1, <1>3 DEF ReadyIsWaitable
<1> QED
  BY <1>1, <1>2, <1>4 DEF Polling, Triggered

(* The calls and returns that read nothing. *)
LEMMA PollingCalls ==
    ASSUME IndInv, UNCHANGED <<fd, count, waitset, source, stale, ready>>,
           UNCHANGED taken \/ ready = {}
    PROVE  Polling'
BY Parts, PollingSame

(* A write adds to the count. *)
LEMMA NotifyWriteKeeps ==
    ASSUME IndInv, NEW t \in Thread, NotifyWrite(t)
    PROVE  Polling' /\ count' \in [Event -> 0 .. MaxCount]
<1> USE Parts, Positions
<1>1. PICK e \in Event : e = ev[t]
  BY DEF NotifyWrite, Calling, CallsKnow
<1>2. /\ count[e] < MaxCount /\ count' = [count EXCEPT ![e] = count[e] + 1]
      /\ UNCHANGED <<fd, waitset, source, stale, taken, ready>>
  BY <1>1 DEF NotifyWrite, set
<1>3. count[e] \in Nat /\ count[e] + 1 \in 0 .. MaxCount
  BY <1>2, BoundAssumption
<1>4. count' \in [Event -> 0 .. MaxCount]
  BY <1>2, <1>3
<1>5. \A d \in Event : count[d] > 0 => count'[d] > 0
  BY <1>2, <1>3
<1>6. ASSUME NEW i \in ready' \ (stale \union taken')
      PROVE  i \notin taken /\ (count[source[i]] > 0 => count'[source[i]] > 0)
  <2>1. i \notin taken /\ source[i] \in Event
    BY <1>2
  <2> QED
    BY <1>5, <2>1
<1> QED
  BY <1>2, <1>4, <1>6, PollingSame

-----------------------------------------------------------------------------
(* The theorems *)

(* Labels and events of the threads. *)
LEMMA ThreadTypes ==
    ASSUME IndInv, [Next]_vars
    PROVE  /\ pc' \in [Thread -> {"idle", "nWrite", "nBlocked", "wRead", "wBlocked", "poll"} \union InTryWait]
           /\ ev' \in [Thread -> Event \union {NoEvent}] /\ beside' \subseteq Thread
           /\ nonblock' \in [Event -> BOOLEAN]
<1> USE Parts DEF InTryWait
<1> DEFINE Good == /\ pc' \in [Thread -> {"idle", "nWrite", "nBlocked", "wRead", "wBlocked", "poll"} \union InTryWait]
                   /\ ev' \in [Thread -> Event \union {NoEvent}] /\ beside' \subseteq Thread
                   /\ nonblock' \in [Event -> BOOLEAN]
<1> SUFFICES Good
  OBVIOUS
<1>1. ASSUME NEW t \in Thread, Step(t) PROVE Good
  <2>1. ev' \in [Thread -> Event \union {NoEvent}] /\ beside' \subseteq Thread
    BY <1>1 DEF Step, NotifyWrite, NotifyFull, WaitRead, WaitEmpty, SetNonblocking, TryRead, TryEmpty,
                SetBlocking, Return
  <2>2. pc' \in [Thread -> {"idle", "nWrite", "nBlocked", "wRead", "wBlocked", "poll"} \union InTryWait]
    BY <1>1 DEF Step, NotifyWrite, NotifyFull, WaitRead, WaitEmpty, SetNonblocking, TryRead, TryEmpty,
                SetBlocking, Return, Goto
  <2>3. nonblock' \in [Event -> BOOLEAN]
    BY <1>1 DEF Step, NotifyWrite, NotifyFull, WaitRead, WaitEmpty, SetNonblocking, TryRead, TryEmpty,
                SetBlocking, files
  <2> QED
    BY <2>1, <2>2, <2>3
<1>2. ASSUME NEW t \in Thread, NEW e \in Event, TryWaitBegins(t, e), UNCHANGED nonblock PROVE Good
  BY <1>2 DEF TryWaitBegins, Call, Goto, Trying
<1>3. ASSUME NEW t \in Thread, NEW e \in Event, NotifyCall(t, e) \/ WaitCall(t, e) \/ TryWaitCall(t, e)
      PROVE  Good
  <2>1. CASE TryWaitCall(t, e)
    BY <1>2, <2>1 DEF TryWaitCall, files
  <2>2. CASE NotifyCall(t, e) \/ WaitCall(t, e)
    <3>1. \E label \in {"nWrite", "wRead"} : Call(t, e, label)
      BY <2>2 DEF NotifyCall, WaitCall
    <3>2. nonblock' = nonblock /\ beside' = beside
      BY <2>2 DEF NotifyCall, WaitCall, files
    <3> QED
      BY <3>1, <3>2 DEF Call, Goto
  <2> QED
    BY <1>3, <2>1, <2>2
<1>4. Poller \in Thread /\ Worker \subseteq Thread
  BY DEF Thread
<1>5. CASE (\E d \in Timeout \union {NoTimeout} : PollCall(d)) \/ PollReturns \/ PollNothing
  BY <1>4, <1>5 DEF PollCall, PollReturns, PollNothing, Goto, files
<1>6. CASE \E i \in ready : Handle(i)
  <2>1. PICK i \in ready : Handle(i)
    BY <1>6
  <2>2. UNCHANGED nonblock /\ source[i] \in Event
    BY <2>1, Positions DEF Handle, files
  <2>3. CASE i \in stale
    BY <2>1, <2>2, <2>3 DEF Handle
  <2>4. CASE i \notin stale
    BY <1>2, <1>4, <2>1, <2>2, <2>4 DEF Handle
  <2> QED
    BY <2>3, <2>4
<1>7. CASE \E e \in Event : Create(e) \/ Drop(e) \/ Attach(e)
  BY <1>7 DEF Create, Drop, Attach, files
<1>8. CASE UNCHANGED vars
  BY <1>8 DEF vars, files
<1> HIDE DEF Good
<1>9. CASE PollerStep \/ PollInterrupted
  BY <1>1, <1>4, <1>5, <1>6, <1>9 DEF PollerStep, PollInterrupted, PollTimesOut
<1> QED
  BY <1>1, <1>3, <1>4, <1>7, <1>8, <1>9 DEF Next

(* Files and the WaitSet. *)
LEMMA PollingKept ==
    ASSUME IndInv, [Next]_vars
    PROVE  /\ Polling'
           /\ build' \in {"eventfd", "pipe"} /\ fd' \in [Event -> Fd \union {NoFd}]
           /\ count' \in [Event -> 0 .. MaxCount]
           /\ waitset' \in Seq(Fd) /\ source' \in Seq(Event)
           /\ timeout' \in Timeout \union {NoTimeout}
           /\ ready' \subseteq DOMAIN waitset' /\ stale' \subseteq DOMAIN waitset'
           /\ taken' \subseteq DOMAIN waitset'
<1> USE Parts
<1> DEFINE Good == /\ Polling'
                   /\ build' \in {"eventfd", "pipe"} /\ fd' \in [Event -> Fd \union {NoFd}]
                   /\ count' \in [Event -> 0 .. MaxCount]
                   /\ waitset' \in Seq(Fd) /\ source' \in Seq(Event)
                   /\ timeout' \in Timeout \union {NoTimeout}
                   /\ ready' \subseteq DOMAIN waitset' /\ stale' \subseteq DOMAIN waitset'
                   /\ taken' \subseteq DOMAIN waitset'
<1> SUFFICES Good
  OBVIOUS
<1>1. CASE UNCHANGED <<build, fd, count, waitset, source, timeout, stale, taken>> /\ ready' \subseteq ready
  BY <1>1, PollingSame
<1>2. ASSUME NEW t \in Thread, Step(t) PROVE Good
  <2>1. CASE NotifyWrite(t)
    <3>1. UNCHANGED <<build, fd, waitset, source, timeout, stale, taken, ready>>
      BY <2>1 DEF NotifyWrite, set
    <3> QED
      BY <2>1, <3>1, NotifyWriteKeeps
  <2>2. CASE WaitRead(t) \/ TryRead(t)
    <3>1. Takes(t) /\ UNCHANGED <<build, fd, waitset, source, timeout, stale, ready>>
      BY <2>2 DEF WaitRead, TryRead
    <3>2. ev[t] \in Event
      BY <2>2 DEF WaitRead, TryRead, Calling, CallsKnow
    <3> QED
      BY <3>1, <3>2, TakesKeeps
  <2>3. CASE NotifyFull(t) \/ WaitEmpty(t) \/ SetNonblocking(t) \/ TryEmpty(t) \/ SetBlocking(t)
    BY <1>1, <2>3 DEF NotifyFull, WaitEmpty, SetNonblocking, TryEmpty, SetBlocking, files, set
  <2> QED
    BY <1>2, <2>1, <2>2, <2>3 DEF Step
<1>3. ASSUME NEW t \in Thread, NEW e \in Event, NotifyCall(t, e) \/ WaitCall(t, e) \/ TryWaitCall(t, e)
      PROVE  Good
  BY <1>1, <1>3 DEF NotifyCall, WaitCall, TryWaitCall, files, set
<1>4. Poller \in Thread /\ Worker \subseteq Thread
  BY DEF Thread
<1>5. ASSUME NEW d \in Timeout \union {NoTimeout}, PollCall(d) PROVE Good
  <2>1. /\ UNCHANGED <<build, fd, count, waitset, source, stale, ready>>
        /\ ready = {} /\ timeout' = d /\ taken' = {}
    BY <1>5 DEF PollCall, files
  <2> QED
    BY <2>1, PollingCalls
<1>6. CASE PollReturns
  <2>1. /\ UNCHANGED <<build, fd, count, waitset, source, stale>>
        /\ timeout' = NoTimeout /\ taken' = {}
    BY <1>6 DEF PollReturns, files
  <2> QED
    BY <1>6, <2>1, PollReturnsKeeps
<1>7. CASE PollNothing
  <2>1. UNCHANGED <<build, fd, count, waitset, source, stale, ready, taken>> /\ timeout' = NoTimeout
    BY <1>7 DEF PollNothing, files
  <2> QED
    BY <2>1, PollingCalls
<1>8. CASE \E i \in ready : Handle(i)
  BY <1>1, <1>8 DEF Handle, files
<1>9. ASSUME NEW e \in Event, Create(e) \/ Drop(e) \/ Attach(e) PROVE Good
  <2>1. CASE Create(e)
    <3>1. UNCHANGED <<build, count, waitset, source, timeout, stale, taken, ready>>
      BY <2>1 DEF Create, set
    <3> QED
      BY <2>1, <3>1, CreateKeeps
  <2>2. CASE Drop(e)
    <3>1. UNCHANGED <<build, waitset, source, timeout, taken, ready>>
      BY <2>2 DEF Drop
    <3> QED
      BY <2>2, <3>1, DropKeeps
  <2>3. CASE Attach(e)
    <3>1. UNCHANGED <<build, fd, count, timeout, stale, taken, ready>>
      BY <2>3 DEF Attach, files
    <3> QED
      BY <2>3, <3>1, AttachKeeps
  <2> QED
    BY <1>9, <2>1, <2>2, <2>3
<1>10. CASE UNCHANGED vars
  BY <1>1, <1>10 DEF vars, files, set
<1> HIDE DEF Good
<1>11. CASE PollerStep \/ PollInterrupted
  BY <1>2, <1>4, <1>5, <1>6, <1>7, <1>8, <1>11 DEF PollerStep, PollInterrupted, PollTimesOut
<1> QED
  BY <1>2, <1>3, <1>4, <1>9, <1>10, <1>11 DEF Next

(* The inductive invariant holds before any event is created. *)
LEMMA InitInv == Init => IndInv
<1> SUFFICES ASSUME Init PROVE IndInv
  OBVIOUS
<1> USE EventAssumption, FdAssumption, BoundAssumption, TimeoutAssumption DEF Init
<1>1. TypeOK
  BY DEF TypeOK, InTryWait
<1>2. FlagRestored /\ TryWaitAlone /\ ReadyIsWaitable
  BY DEF FlagRestored, TryWaitAlone, ReadyIsWaitable
<1>3. CallsKnow /\ Overlaps /\ FlagWhileReading
  BY DEF CallsKnow, Overlaps, FlagWhileReading, InTryWait
<1>4. Descriptors
  BY DEF Descriptors
<1> QED
  BY <1>1, <1>2, <1>3, <1>4 DEF IndInv

(* The inductive invariant of the events, in every state of every behaviour of threads
   that notify, wait and poll events that are created and dropped. *)
THEOREM EventInvariant == SafetySpec => []IndInv
<1>1. ASSUME IndInv, [Next]_vars PROVE IndInv'
  <2>1. TypeOK'
    BY <1>1, ThreadTypes, PollingKept DEF TypeOK
  <2> QED
    BY <1>1, <2>1, CallingKept, PollingKept DEF IndInv, Calling, Polling
<1> QED
  BY <1>1, InitInv, PTL DEF SafetySpec

(* The flag of a file is set only while some try_wait of its event is under way
   (event.rs:116-140). *)
THEOREM FlagAlwaysRestored == SafetySpec => []FlagRestored
<1>1. IndInv => FlagRestored
  BY DEF IndInv
<1> QED
  BY <1>1, EventInvariant, PTL

(* A try_wait that meets no other of its event does not block (event.rs:116-140). *)
THEOREM TryWaitAloneReturns == SafetySpec => []TryWaitAlone
<1>1. IndInv => TryWaitAlone
  BY DEF IndInv
<1> QED
  BY <1>1, EventInvariant, PTL

(* What WaitSet::wait reports is readable and is what was attached, until it is read or
   dropped (waitset.rs:44-84). *)
THEOREM ReadyAlwaysWaitable == SafetySpec => []ReadyIsWaitable
<1>1. IndInv => ReadyIsWaitable
  BY DEF IndInv
<1> QED
  BY <1>1, EventInvariant, PTL

-----------------------------------------------------------------------------
(* The service registry, for any number of processes, names, paths and layouts, and any
   number of crashes and removals: processes that have a handle agree on the layout, and
   a file is written once. *)

(* The inductive invariant holds of the empty directory. *)
LEMMA RegistryInitInv == RegistryInit => RegistryInv
BY PathAssumption, DestroyAssumption, MarkAssumption
   DEF RegistryInit, RegistryInv, RegistryTypeOK, OperationsKnow, HandlesAgree

(* The path of an operation under way is a path, and so is that of a handle. *)
LEMMA RegistryPaths ==
    ASSUME NEW c \in Config
    PROVE  c.name \in Name /\ PathOf[c.name] \in Path
BY PathAssumption, DestroyAssumption, MarkAssumption DEF Config

(* The start of open, create, open_or_create or destroy keeps the invariant. *)
LEMMA RegistryStartInv ==
    ASSUME RegistryInv, NEW p \in Process, NEW c \in Config,
           Open(p, c) \/ OpenOrCreate(p, c) \/ CreateService(p, c)
               \/ Destroy(p, c)
    PROVE  RegistryInv'
<1> USE RegistryPaths, PathAssumption, DestroyAssumption, MarkAssumption
    DEF RegistryInv, RegistryTypeOK, OperationsKnow,
        HandlesAgree, Start, At
<1>1. CASE Open(p, c)
  BY <1>1 DEF Open
<1>2. CASE OpenOrCreate(p, c)
  BY <1>2 DEF OpenOrCreate
<1>3. CASE CreateService(p, c)
  BY <1>3 DEF CreateService
<1>4. CASE Destroy(p, c)
  BY <1>4 DEF Destroy
<1> QED
  BY <1>1, <1>2, <1>3, <1>4

(* Every file-system call of an operation, its failure and a crash keep the invariant. *)
LEMMA RegistryStepInv ==
    ASSUME RegistryInv, NEW p \in Process,
           \/ LookupNotFound(p) \/ LookupCorrupted(p) \/ LookupFound(p)
           \/ CreateNew(p) \/ CreateExists(p) \/ Write(p)
           \/ Exists(p) \/ RemoveFile(p) \/ IoFails(p) \/ Crash(p)
    PROVE  RegistryInv'
<1> USE RegistryPaths, PathAssumption, DestroyAssumption, MarkAssumption
    DEF RegistryInv, RegistryTypeOK, OperationsKnow,
        HandlesAgree, GoTo, Finish, At, File, history
<1>1. CASE LookupNotFound(p)
  <2>1. CASE op[p] = "open"
    BY <1>1, <2>1 DEF LookupNotFound
  <2>2. CASE op[p] # "open"
    BY <1>1, <2>2 DEF LookupNotFound
  <2> QED
    BY <2>1, <2>2
<1>2. CASE LookupCorrupted(p)
  BY <1>2 DEF LookupCorrupted
<1>3. CASE LookupFound(p)
  BY <1>3 DEF LookupFound, Compatible
<1>4. CASE CreateNew(p)
  BY <1>4 DEF CreateNew
<1>5. CASE CreateExists(p)
  BY <1>5 DEF CreateExists
<1>6. CASE Write(p)
  \* Whoever else has a handle of the path or is about to write to it would have made the
  \* file something other than p's own empty one.
  <2>1. At(p) \in Path /\ config[p] \in Config
    BY <1>6 DEF Write
  <2>2. CASE dir[At(p)] = [by |-> p, config |-> Empty]
    <3>1. dir' = [dir EXCEPT ![At(p)] = [by |-> p, config |-> config[p]]]
      BY <1>6, <2>1, <2>2 DEF Write
    <3>2. RegistryTypeOK'
      BY <1>6, <2>1, <3>1 DEF Write
    <3>3. OperationsKnow'
      BY <1>6, <2>1, <2>2, <3>1 DEF Write
    <3>4. HandlesAgree'
      BY <1>6, <2>1, <2>2, <3>1 DEF Write
    <3> QED
      BY <3>2, <3>3, <3>4
  <2>3. CASE dir[At(p)] # [by |-> p, config |-> Empty]
    BY <1>6, <2>1, <2>3 DEF Write
  <2> QED
    BY <2>2, <2>3
<1>7. CASE Exists(p)
  <2>1. CASE Finish(p, "ok")
    <3>1. op[p] = "destroy" /\ service' = service
      BY <1>7, <2>1 DEF Exists
    <3>2. RegistryTypeOK'
      <4>1. /\ rpc' = [rpc EXCEPT ![p] = "idle"] /\ ret' = [ret EXCEPT ![p] = "ok"]
            /\ config' = [config EXCEPT ![p] = NoConfig]
            /\ UNCHANGED <<dir, op, crashes, destroys, left, overtaken>>
        BY <1>7, <2>1 DEF Exists
      <4> QED
        BY <3>1, <4>1
    <3>3. OperationsKnow'
      BY <1>7, <2>1, <3>1 DEF Exists
    <3>4. HandlesAgree'
      BY <1>7, <3>1 DEF Exists
    <3> QED
      BY <3>2, <3>3, <3>4
  <2>2. CASE GoTo(p, "remove")
    BY <1>7, <2>2 DEF Exists
  <2> QED
    BY <1>7, <2>1, <2>2 DEF Exists
<1>8. CASE RemoveFile(p)
  \* Whoever else is in an operation on the path, or has a handle of it, is overtaken.
  <2>1. config[p] \in Config /\ At(p) \in Path /\ op[p] = "destroy" /\ service[p] = NoConfig
    BY <1>8 DEF RemoveFile
  <2>2. /\ rpc' = [rpc EXCEPT ![p] = "idle"] /\ config' = [config EXCEPT ![p] = NoConfig]
        /\ service' = service /\ UNCHANGED <<op, crashes, destroys>>
        /\ dir' = [dir EXCEPT ![At(p)] = Absent] /\ left' = left \ {At(p)}
    BY <1>8, <2>1 DEF RemoveFile
  <2>3. RegistryTypeOK'
    <3>1. ret' \in [Process -> {"none", "ok", "NotFound", "Corrupted", "Incompatible",
                                 "AlreadyExists", "Io"}]
      BY <1>8 DEF RemoveFile
    <3>2. overtaken' \subseteq Process
      BY <1>8 DEF RemoveFile
    <3> QED
      BY <2>2, <3>1, <3>2
  <2>4. ASSUME NEW q \in Process \ {p}, q \notin overtaken', Concerns(q, At(p))
        PROVE  dir' = dir
    BY <1>8, <2>1, <2>2, <2>4 DEF RemoveFile
  <2>5. \A q \in Process : q \notin overtaken' => q \notin overtaken
    BY <1>8 DEF RemoveFile
  <2>6. OperationsKnow'
    <3> SUFFICES ASSUME NEW q \in Process \ {p}, rpc[q] = "write", q \notin overtaken'
                 PROVE  dir'[At(q)] = [by |-> q, config |-> Empty]
      BY <2>1, <2>2
    <3>1. dir[At(q)] = [by |-> q, config |-> Empty] /\ config[q] # NoConfig
      BY <2>5
    <3> QED
      BY <2>2, <2>4, <3>1 DEF Concerns
  <2>7. HandlesAgree'
    <3> SUFFICES ASSUME NEW q \in Process \ {p}, q \notin overtaken', service[q] # NoConfig
                 PROVE  dir'[PathOf[service[q].name]] = dir[PathOf[service[q].name]]
      BY <2>1, <2>2, <2>5
    <3> QED
      BY <2>2, <2>4 DEF Concerns
  <2> QED
    BY <2>3, <2>6, <2>7
<1>9. CASE IoFails(p)
  BY <1>9 DEF IoFails, Unwritten
<1>10. CASE Crash(p)
  BY <1>10 DEF Crash, Unwritten
<1> QED
  BY <1>1, <1>2, <1>3, <1>4, <1>5, <1>6, <1>7, <1>8, <1>9, <1>10

(* The inductive invariant of the registry. *)
THEOREM RegistryInvariant == RegistrySpec => []RegistryInv
<1>1. RegistryInv /\ [RegistryNext]_registryVars => RegistryInv'
  <2> SUFFICES ASSUME RegistryInv, [RegistryNext]_registryVars PROVE RegistryInv'
    OBVIOUS
  <2>1. CASE RegistryNext
    BY <2>1, RegistryStartInv, RegistryStepInv DEF RegistryNext
  <2>2. CASE UNCHANGED registryVars
    BY <2>2 DEF registryVars, process, history, RegistryInv, RegistryTypeOK,
                OperationsKnow, HandlesAgree, At
  <2> QED
    BY <2>1, <2>2
<1> QED
  BY <1>1, RegistryInitInv, PTL DEF RegistrySpec

(* Whoever was given a service by open, create or open_or_create finds it in the registry
   with a layout that fits, unless somebody has removed it since the call started. *)
THEOREM HandlesAlwaysAgree == RegistrySpec => []HandlesAgree
BY RegistryInvariant, PTL DEF RegistryInv

(* The steps that leave the files alone, and neither begin nor end the writing of one. *)
LEMMA EmptyKept ==
    ASSUME RegistryTypeOK, EmptyIsUnderway, UNCHANGED <<dir, left>>, NEW p \in Process,
           rpc[p] # "write", rpc'[p] # "write",
           \A q \in Process \ {p} : rpc'[q] = rpc[q] /\ config'[q] = config[q]
    PROVE  EmptyIsUnderway'
<1>1. \A x \in Path : dir[x] # Absent => dir[x].by \in Process
  BY DEF RegistryTypeOK, File
<1>2. \A x \in Path : dir[x] # Absent => (Underway(x)' <=> Underway(x))
  BY <1>1 DEF Underway, At
<1> QED
  BY <1>2 DEF EmptyIsUnderway

(* A process that dies or fails leaves the file it was about to write, if it is there. *)
LEMMA EmptyLeft ==
    ASSUME RegistryInv, EmptyIsUnderway, UNCHANGED dir, NEW p \in Process,
           left' = left \union Unwritten(p), rpc' = [rpc EXCEPT ![p] = "idle"],
           \A q \in Process \ {p} : config'[q] = config[q]
    PROVE  EmptyIsUnderway'
<1> USE DEF RegistryInv, RegistryTypeOK
<1> SUFFICES ASSUME NEW x \in Path
             PROVE  /\ dir[x] # Absent =>
                          (dir[x].config = Empty <=> x \in left' \/ Underway(x)')
                    /\ x \in left' => dir[x] # Absent /\ ~Underway(x)'
  BY DEF EmptyIsUnderway
<1>1. /\ dir[x] # Absent => (dir[x].config = Empty <=> x \in left \/ Underway(x))
      /\ x \in left => dir[x] # Absent /\ ~Underway(x)
  BY DEF EmptyIsUnderway
<1>2. x \in left' <=> x \in left \/ x \in Unwritten(p)
  OBVIOUS
<1>3. CASE dir[x] = Absent
  BY <1>1, <1>2, <1>3, MarkAssumption DEF Unwritten, File
<1>4. CASE dir[x] # Absent /\ dir[x].by = p
  <2>1. ~Underway(x)'
    BY <1>4 DEF Underway
  <2>2. dir[x] = [by |-> p, config |-> dir[x].config]
    BY <1>4 DEF File
  <2>3. x \in Unwritten(p) <=> Underway(x) /\ dir[x].config = Empty
    BY <1>4, <2>2 DEF Unwritten, Underway
  <2> QED
    BY <1>1, <1>2, <1>4, <2>1, <2>3
<1>5. CASE dir[x] # Absent /\ dir[x].by # p
  <2>1. x \notin Unwritten(p)
    BY <1>5 DEF Unwritten
  <2>2. Underway(x)' <=> Underway(x)
    BY <1>5 DEF Underway, At, File
  <2> QED
    BY <1>1, <1>2, <2>1, <2>2
<1> QED
  BY <1>3, <1>4, <1>5

(* The creation, the writing and the removal of a file. *)
LEMMA EmptyMade ==
    ASSUME RegistryInv, EmptyIsUnderway, NEW p \in Process,
           CreateNew(p) \/ Write(p) \/ RemoveFile(p)
    PROVE  EmptyIsUnderway'
<1> USE DEF RegistryInv, RegistryTypeOK
<1>1. config[p] \in Config /\ At(p) \in Path
  BY RegistryPaths DEF OperationsKnow, CreateNew, Write, RemoveFile, At
<1>2. \A q \in Process \ {p} : rpc'[q] = rpc[q] /\ config'[q] = config[q]
  BY DEF CreateNew, Write, RemoveFile, GoTo, Finish
<1>3. \A x \in Path : dir[x] # Absent => dir[x].by \in Process
  BY DEF File
<1>4. \A x \in Path \ {At(p)} : dir'[x] = dir[x] /\ (x \in left' <=> x \in left)
  BY <1>1 DEF CreateNew, Write, RemoveFile, history
<1>5. ASSUME NEW x \in Path \ {At(p)}, dir[x] # Absent PROVE Underway(x)' <=> Underway(x)
  <2>1. CASE dir[x].by # p
    BY <1>2, <1>3, <1>4, <1>5, <2>1 DEF Underway, At
  <2>2. CASE dir[x].by = p
    <3>1. ~Underway(x)
      BY <2>2 DEF Underway
    <3>2. config'[p] = config[p] \/ rpc'[p] = "idle"
      BY DEF CreateNew, Write, RemoveFile, GoTo, Finish
    <3> QED
      BY <1>4, <1>5, <2>2, <3>1, <3>2 DEF Underway, At
  <2> QED
    BY <2>1, <2>2
<1>6. ASSUME NEW x \in Path, x = At(p)
      PROVE
      /\ dir'[x] # Absent => (dir'[x].config = Empty <=> x \in left' \/ Underway(x)')
      /\ x \in left' => dir'[x] # Absent /\ ~Underway(x)'
  <2>1. /\ dir[x] # Absent => (dir[x].config = Empty <=> x \in left \/ Underway(x))
        /\ x \in left => dir[x] # Absent /\ ~Underway(x)
    BY DEF EmptyIsUnderway
  <2>2. CASE CreateNew(p)
    <3>1. /\ dir[x] = Absent /\ dir'[x] = [by |-> p, config |-> Empty]
          /\ rpc'[p] = "write" /\ config' = config /\ left' = left
      BY <1>1, <1>6, <2>2 DEF CreateNew, GoTo, history
    <3>2. Underway(x)'
      BY <1>6, <3>1 DEF Underway, At
    <3> QED
      BY <2>1, <3>1, <3>2
  <2>3. CASE RemoveFile(p)
    BY <1>1, <1>6, <2>3 DEF RemoveFile
  <2>4. CASE Write(p)
    <3>1. rpc[p] = "write" /\ rpc'[p] = "idle" /\ left' = left /\ config[p] # Empty
      BY <1>1, <1>6, <2>4, MarkAssumption DEF Write, Finish, history
    <3>2. CASE dir[x] = [by |-> p, config |-> Empty]
      <4>1. dir'[x] = [by |-> p, config |-> config[p]] /\ dir[x] # Absent
        BY <1>1, <1>6, <2>4, <3>2, MarkAssumption DEF Write, File
      <4>2. Underway(x) /\ ~Underway(x)'
        BY <1>6, <3>1, <3>2, <4>1 DEF Underway
      <4> QED
        BY <2>1, <3>1, <4>1, <4>2
    <3>3. CASE dir[x] # [by |-> p, config |-> Empty]
      <4>1. dir' = dir
        BY <1>6, <2>4, <3>3 DEF Write
      <4>2. CASE dir[x] = Absent
        BY <2>1, <3>1, <4>1, <4>2
      <4>3. CASE dir[x] # Absent /\ dir[x].by = p
        <5>1. dir[x] = [by |-> p, config |-> dir[x].config]
          BY <1>1, <4>3 DEF File
        <5>2. Underway(x)
          BY <1>6, <3>1, <4>3 DEF Underway
        <5> QED
          BY <2>1, <3>3, <4>3, <5>1, <5>2
      <4>4. CASE dir[x] # Absent /\ dir[x].by # p
        <5>1. Underway(x)' <=> Underway(x)
          BY <1>1, <1>2, <1>3, <4>1, <4>4 DEF Underway, At
        <5> QED
          BY <2>1, <3>1, <4>1, <5>1
      <4> QED
        BY <4>2, <4>3, <4>4
    <3> QED
      BY <3>2, <3>3
  <2> QED
    BY <2>2, <2>3, <2>4
<1> SUFFICES ASSUME NEW x \in Path
             PROVE  /\ dir'[x] # Absent =>
                          (dir'[x].config = Empty <=> x \in left' \/ Underway(x)')
                    /\ x \in left' => dir'[x] # Absent /\ ~Underway(x)'
  BY DEF EmptyIsUnderway
<1>7. CASE x = At(p)
  BY <1>6, <1>7
<1>8. CASE x # At(p)
  BY <1>4, <1>5, <1>8 DEF EmptyIsUnderway
<1> QED
  BY <1>7, <1>8

(* A registry file does not parse exactly while its creator has still to write it, or once
   the creator has died or failed there, until somebody removes the file. *)
THEOREM EmptyFilesUnderway == RegistrySpec => []EmptyIsUnderway
<1>1. RegistryInit => EmptyIsUnderway
  BY DEF RegistryInit, EmptyIsUnderway
<1>2. RegistryInv /\ EmptyIsUnderway /\ [RegistryNext]_registryVars => EmptyIsUnderway'
  <2> SUFFICES ASSUME RegistryInv, EmptyIsUnderway, [RegistryNext]_registryVars
               PROVE  EmptyIsUnderway'
    OBVIOUS
  <2>1. RegistryTypeOK
    BY DEF RegistryInv
  <2>2. CASE UNCHANGED registryVars
    BY <2>2 DEF registryVars, process, history, EmptyIsUnderway, Underway, At
  <2>3. ASSUME NEW p \in Process, NEW c \in Config,
               Open(p, c) \/ OpenOrCreate(p, c) \/ CreateService(p, c) \/ Destroy(p, c)
        PROVE  EmptyIsUnderway'
    <3>1. UNCHANGED <<dir, left>> /\ rpc[p] # "write" /\ rpc'[p] # "write"
      BY <2>1, <2>3 DEF Open, OpenOrCreate, CreateService, Destroy, Start, RegistryTypeOK
    <3>2. \A q \in Process \ {p} : rpc'[q] = rpc[q] /\ config'[q] = config[q]
      BY <2>1, <2>3 DEF Open, OpenOrCreate, CreateService, Destroy, Start, RegistryTypeOK
    <3> QED
      BY <2>1, <3>1, <3>2, EmptyKept
  <2>4. ASSUME NEW p \in Process,
               \/ LookupNotFound(p) \/ LookupCorrupted(p) \/ LookupFound(p)
               \/ CreateExists(p) \/ Exists(p)
        PROVE  EmptyIsUnderway'
    <3>1. UNCHANGED <<dir, left>> /\ rpc[p] # "write" /\ rpc'[p] # "write"
      BY <2>1, <2>4 DEF LookupNotFound, LookupCorrupted, LookupFound, CreateExists, Exists,
                        Finish, GoTo, RegistryTypeOK, history
    <3>2. \A q \in Process \ {p} : rpc'[q] = rpc[q] /\ config'[q] = config[q]
      BY <2>1, <2>4 DEF LookupNotFound, LookupCorrupted, LookupFound, CreateExists, Exists,
                        Finish, GoTo, RegistryTypeOK
    <3> QED
      BY <2>1, <3>1, <3>2, EmptyKept
  <2>5. ASSUME NEW p \in Process, IoFails(p) \/ Crash(p) PROVE EmptyIsUnderway'
    <3>1. /\ UNCHANGED dir /\ left' = left \union Unwritten(p)
          /\ rpc' = [rpc EXCEPT ![p] = "idle"]
          /\ \A q \in Process \ {p} : config'[q] = config[q]
      BY <2>1, <2>5 DEF IoFails, Crash, Finish, RegistryTypeOK
    <3> QED
      BY <3>1, EmptyLeft
  <2> QED
    BY <2>2, <2>3, <2>4, <2>5, EmptyMade DEF RegistryNext
<1> QED
  BY <1>1, <1>2, RegistryInvariant, PTL DEF RegistrySpec

(* register creates exclusively and writes only what it created: no step of any process
   changes a configuration that has been written, or writes to another one's file. *)
THEOREM FilesWrittenOnce == RegistrySpec => WrittenOnce
<1> DEFINE Kept(x) == dir[x] # Absent /\ dir'[x] # Absent =>
                          /\ dir'[x].by = dir[x].by
                          /\ dir[x].config # Empty => dir'[x] = dir[x]
<1>1. RegistryInv /\ [RegistryNext]_registryVars => [\A x \in Path : Kept(x)]_registryVars
  <2> SUFFICES ASSUME RegistryInv, RegistryNext, NEW x \in Path PROVE Kept(x)
    OBVIOUS
  <2> PICK p \in Process :
          \/ \E c \in Config : Open(p, c) \/ OpenOrCreate(p, c)
              \/ CreateService(p, c) \/ Destroy(p, c)
          \/ LookupNotFound(p) \/ LookupCorrupted(p) \/ LookupFound(p)
          \/ CreateNew(p) \/ CreateExists(p) \/ Write(p)
          \/ Exists(p) \/ RemoveFile(p)
          \/ IoFails(p) \/ Crash(p)
    BY DEF RegistryNext
  <2>1. CASE dir' = dir
    BY <2>1
  <2>2. CASE CreateNew(p)
    BY <2>2 DEF CreateNew, RegistryInv, RegistryTypeOK
  <2>3. CASE Write(p)
    BY <2>3 DEF Write, RegistryInv, RegistryTypeOK
  <2>4. CASE RemoveFile(p)
    BY <2>4 DEF RemoveFile, RegistryInv, RegistryTypeOK
  <2> QED
    BY <2>1, <2>2, <2>3, <2>4
       DEF Open, OpenOrCreate, CreateService, Destroy,
           LookupNotFound, LookupCorrupted, LookupFound,
           CreateExists, Exists, IoFails, Crash
<1> QED
  BY <1>1, RegistryInvariant, PTL DEF RegistrySpec, WrittenOnce

-----------------------------------------------------------------------------
(* The process monitor, for any number of nodes and monitors: cleanup_dead_nodes never
   removes a live node that had its lock in time. *)

(* The inductive invariant holds when no node has registered. *)
LEMMA NodesInitInv == MonitorInit => MonitorInv
BY HolderAssumption, PollAssumption
   DEF MonitorInit, MonitorInv, MonitorTypeOK, LiveHoldsLock, MonitorsKnow, EstablishedNodesKept

(* Every step of a node (register, drop, deregister, crash) keeps the invariant. *)
LEMMA NodeInv ==
    ASSUME MonitorInv, NEW n \in Node,
           RegisterOpen(n) \/ NodeDrop(n) \/ DeregisterUnlock(n)
               \/ NodeCrash(n) \/ NodeStep(n)
    PROVE  MonitorInv'
<1> USE HolderAssumption, PollAssumption
    DEF MonitorInv, MonitorTypeOK, LiveHoldsLock, MonitorsKnow, EstablishedNodesKept,
        Become, Lock, Unlock, LocksOf, monitor
<1>1. CASE RegisterOpen(n)
  BY <1>1 DEF RegisterOpen
<1>2. CASE NodeDrop(n)
  BY <1>2 DEF NodeDrop
<1>3. CASE DeregisterUnlock(n)
  BY <1>3 DEF DeregisterUnlock
<1>4. CASE NodeCrash(n)
  BY <1>4 DEF NodeCrash
<1>5. CASE RegisterLock(n)
  BY <1>5 DEF RegisterLock
<1>6. CASE RegisterLocked(n)
  BY <1>6 DEF RegisterLocked
<1>7. CASE DeregisterRemove(n)
  BY <1>7 DEF DeregisterRemove
<1> QED
  BY <1>1, <1>2, <1>3, <1>4, <1>5, <1>6, <1>7 DEF NodeStep

(* Every step of a monitor (cleanup_dead_nodes, is_alive, its death) keeps it. *)
LEMMA MonitorCallsInv ==
    ASSUME MonitorInv, NEW m \in Monitor,
           \/ CleanupCall(m) \/ MonitorCrash(m) \/ MonitorStep(m)
           \/ \E n \in Node : IsAlive(m, n)
    PROVE  MonitorInv'
<1> USE HolderAssumption, PollAssumption
    DEF MonitorInv, MonitorTypeOK, LiveHoldsLock, MonitorsKnow, EstablishedNodesKept,
        Lock, Unlock, LocksOf, MonitorAt
<1>1. CASE CleanupCall(m)
  BY <1>1 DEF CleanupCall
<1>2. CASE MonitorCrash(m)
  BY <1>2 DEF MonitorCrash
<1>3. CASE \E n \in Node : IsAlive(m, n)
  BY <1>3 DEF IsAlive
<1>4. CASE CleanupNext(m)
  BY <1>4 DEF CleanupNext
<1>5. CASE CleanupReturn(m)
  BY <1>5 DEF CleanupReturn
<1>6. CASE ProbeOpen(m)
  \* Without a file, the node is not alive or was late.
  BY <1>6 DEF ProbeOpen, Verdict
<1>7. CASE ProbeLock(m)
  BY <1>7 DEF ProbeLock
<1>8. CASE ProbeLocked(m)
  BY <1>8 DEF ProbeLocked, Verdict
<1>9. CASE ProbeUnlock(m)
  \* The monitor had the lock, so the node had not: it does not live.
  BY <1>9 DEF ProbeUnlock, Verdict
<1>10. CASE RemoveNode(m)
  BY <1>10 DEF RemoveNode
<1> QED
  BY <1>1, <1>2, <1>3, <1>4, <1>5, <1>6, <1>7, <1>8, <1>9, <1>10 DEF MonitorStep

(* The inductive invariant of the process monitor: in every state of every behaviour of
   nodes that register, leave and die and of monitors that list, try, remove and die. *)
THEOREM MonitorInvariant == MonitorSafetySpec => []MonitorInv
<1>1. MonitorInv /\ [MonitorNext]_monitorVars => MonitorInv'
  <2> SUFFICES ASSUME MonitorInv, [MonitorNext]_monitorVars PROVE MonitorInv'
    OBVIOUS
  <2>1. CASE MonitorNext
    BY <2>1, NodeInv, MonitorCallsInv DEF MonitorNext
  <2>2. CASE UNCHANGED monitorVars
    BY <2>2 DEF monitorVars, monitor, MonitorInv, MonitorTypeOK, LiveHoldsLock,
                MonitorsKnow, EstablishedNodesKept
  <2> QED
    BY <2>1, <2>2
<1> QED
  BY <1>1, NodesInitInv, PTL DEF MonitorSafetySpec

(* cleanup_dead_nodes keeps the file of every live node that had its lock before a monitor
   found its file unlocked, and the node keeps its lock. *)
THEOREM LiveNodesKept == MonitorSafetySpec => []EstablishedNodesKept
BY MonitorInvariant, PTL DEF MonitorInv
=============================================================================
