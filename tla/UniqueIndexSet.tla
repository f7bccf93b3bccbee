--------------------------- MODULE UniqueIndexSet ---------------------------
(***************************************************************************)
(* The lock-free free list of entangle-lockfree/src/index_set.rs, one      *)
(* atomic access per step.  Any number of threads call `acquire` and       *)
(* `release` on the same set; the list is a stack threaded through `next`, *)
(* and its head is one 64-bit word [head_index:32][tag:32] changed only by *)
(* compare_exchange_weak, which may also fail for no reason.               *)
(*                                                                         *)
(* `owned` is what the callers hold: an index enters it when `acquire`     *)
(* returns Ok and leaves it when some thread, not necessarily the one that *)
(* acquired it, calls `release` (the caller's obligation stated at         *)
(* index_set.rs:112).  `lag` and `stack` are history variables: they are   *)
(* read by no guard but the bound on `lag`, and record how many successful *)
(* CASes overtook a thread since it loaded the head, and the free list as  *)
(* a sequence.                                                             *)
(***************************************************************************)
EXTENDS Integers, Sequences, FiniteSets

CONSTANTS
    Thread,        \* the threads that share the set
    Capacity,      \* number of indices
    TagMod,        \* number of tag values; 2^32 in the code
    MaxOvertake    \* bound: successful CASes during one load-to-CAS window

ASSUME ThreadAssumption == IsFiniteSet(Thread)
ASSUME CapacityAssumption == Capacity \in Nat \ {0}
ASSUME TagAssumption == TagMod \in Nat /\ MaxOvertake \in Nat /\ MaxOvertake < TagMod

VARIABLES
    head,      \* the packed head word
    next,      \* the next pointer of every slot
    borrowed,  \* the separate counter; negative stands for a wrapped u32
    pc,        \* where each thread is
    old,       \* its local copy of the head word
    nxt,       \* its local copy of the next pointer (acquire)
    slot,      \* the index it is about to return, or was asked to release
    owned,     \* indices in the callers' hands
    lag,       \* history: successful CASes since the thread loaded `old`
    stack      \* history: the free list, first free slot first

vars == <<head, next, borrowed, pc, old, nxt, slot, owned, lag, stack>>

Index == 0 .. Capacity - 1
\* 0xFFFF_FFFF in the code: a value that is no index.
SENTINEL == Capacity
Link == Index \union {SENTINEL}
Tag == 0 .. TagMod - 1
HeadWord == [idx : Link, tag : Tag]

\* Where a thread is between its load of the head and its CAS.
Window == {"aNext", "aCas", "rStore", "rCas"}
Acquiring == {"aLoad", "aNext", "aCas"}
Releasing == {"rLoad", "rStore", "rCas"}
Between == {"ready", "failed"}
PC == Between \union Acquiring \union Releasing \union {"aCount", "rCount"}

\* The value of `old` where it is not in scope.
NoHead == [idx |-> SENTINEL, tag |-> 0]

\* tag.wrapping_add(1), and the mutant that forgets it.
TagKept(tag) == tag
TagSucc(tag) == IF tag + 1 = TagMod THEN 0 ELSE tag + 1

Init ==
    /\ head = [idx |-> 0, tag |-> 0]
    /\ next = [i \in Index |-> i + 1]    \* the last one is SENTINEL
    /\ borrowed = 0
    /\ pc = [t \in Thread |-> "ready"]
    /\ old = [t \in Thread |-> NoHead]
    /\ nxt = [t \in Thread |-> SENTINEL]
    /\ slot = [t \in Thread |-> SENTINEL]
    /\ owned = {}
    /\ lag = [t \in Thread |-> 0]
    /\ stack = [k \in 1 .. Capacity |-> k - 1]

Goto(t, label) == pc' = [pc EXCEPT ![t] = label]

\* The thread takes the current head as `old`.
TakeHead(t) ==
    /\ old' = [old EXCEPT ![t] = head]
    /\ lag' = [lag EXCEPT ![t] = 0]

\* The CAS of t succeeds, installing `new`; everyone else in a window is overtaken.
CasSucceeds(t, new) ==
    /\ head = old[t]
    /\ \A u \in Thread \ {t} : pc[u] \in Window => lag[u] < MaxOvertake
    /\ head' = new
    /\ old' = [old EXCEPT ![t] = NoHead]
    /\ lag' = [u \in Thread |-> IF u # t /\ pc[u] \in Window THEN lag[u] + 1 ELSE 0]

-----------------------------------------------------------------------------
(* acquire() *)

AcquireCall(t) ==
    /\ pc[t] \in Between
    /\ Goto(t, "aLoad")
    /\ UNCHANGED <<head, next, borrowed, old, nxt, slot, owned, lag, stack>>

\* Top of the loop with `old` freshly taken: Err on an empty list.
LoopAcquire(t) ==
    \/ /\ head.idx = SENTINEL
       /\ old' = [old EXCEPT ![t] = NoHead]
       /\ lag' = [lag EXCEPT ![t] = 0]
       /\ Goto(t, "failed")
    \/ /\ head.idx # SENTINEL
       /\ TakeHead(t)
       /\ Goto(t, "aNext")

AcquireLoad(t) ==
    /\ pc[t] = "aLoad"
    /\ LoopAcquire(t)
    /\ UNCHANGED <<head, next, borrowed, nxt, slot, owned, stack>>

AcquireNext(t) ==
    /\ pc[t] = "aNext"
    /\ nxt' = [nxt EXCEPT ![t] = next[old[t].idx]]
    /\ Goto(t, "aCas")
    /\ UNCHANGED <<head, next, borrowed, old, slot, owned, lag, stack>>

AcquireCas(t) ==
    /\ pc[t] = "aCas"
    /\ CasSucceeds(t, [idx |-> nxt[t], tag |-> TagSucc(old[t].tag)])
    /\ slot' = [slot EXCEPT ![t] = old[t].idx]
    /\ nxt' = [nxt EXCEPT ![t] = SENTINEL]
    /\ stack' = (IF stack = <<>> THEN <<>> ELSE Tail(stack))
    /\ Goto(t, "aCount")
    /\ UNCHANGED <<next, borrowed, owned>>

\* A retry that forgets `old = current`.
AcquireRetryStale(t) ==
    /\ pc[t] = "aCas"
    /\ Goto(t, "aNext")
    /\ UNCHANGED <<head, next, borrowed, old, nxt, slot, owned, lag, stack>>

\* A CAS failure taken for an exhausted list.
AcquireGivesUp(t) ==
    /\ pc[t] = "aCas"
    /\ TakeHead(t)
    /\ Goto(t, "failed")
    /\ UNCHANGED <<head, next, borrowed, nxt, slot, owned, stack>>

AcquireRetry(t) ==
    /\ pc[t] = "aCas"
    /\ LoopAcquire(t)
    /\ nxt' = [nxt EXCEPT ![t] = SENTINEL]
    /\ UNCHANGED <<head, next, borrowed, slot, owned, stack>>

AcquireCount(t) ==
    /\ pc[t] = "aCount"
    /\ borrowed' = borrowed + 1
    /\ owned' = owned \union {slot[t]}
    /\ slot' = [slot EXCEPT ![t] = SENTINEL]
    /\ Goto(t, "ready")
    /\ UNCHANGED <<head, next, old, nxt, lag, stack>>

-----------------------------------------------------------------------------
(* release(index) *)

ReleaseCall(t, i) ==
    /\ pc[t] \in Between
    /\ i \in owned
    /\ owned' = owned \ {i}
    /\ slot' = [slot EXCEPT ![t] = i]
    /\ Goto(t, "rLoad")
    /\ UNCHANGED <<head, next, borrowed, old, nxt, lag, stack>>

ReleaseLoad(t) ==
    /\ pc[t] = "rLoad"
    /\ TakeHead(t)
    /\ Goto(t, "rStore")
    /\ UNCHANGED <<head, next, borrowed, nxt, slot, owned, stack>>

ReleaseStore(t) ==
    /\ pc[t] = "rStore"
    /\ next' = [next EXCEPT ![slot[t]] = old[t].idx]
    /\ Goto(t, "rCas")
    /\ UNCHANGED <<head, borrowed, old, nxt, slot, owned, lag, stack>>

ReleaseCas(t) ==
    /\ pc[t] = "rCas"
    /\ CasSucceeds(t, [idx |-> slot[t], tag |-> TagSucc(old[t].tag)])
    /\ slot' = [slot EXCEPT ![t] = SENTINEL]
    /\ stack' = <<slot[t]>> \o stack
    /\ Goto(t, "rCount")
    /\ UNCHANGED <<next, borrowed, nxt, owned>>

\* The retry that goes straight back to the CAS without relinking the slot.
ReleaseRetryKeepsLink(t) ==
    /\ pc[t] = "rCas"
    /\ TakeHead(t)
    /\ UNCHANGED <<head, next, borrowed, pc, nxt, slot, owned, stack>>

ReleaseRetry(t) ==
    /\ pc[t] = "rCas"
    /\ TakeHead(t)
    /\ Goto(t, "rStore")
    /\ UNCHANGED <<head, next, borrowed, nxt, slot, owned, stack>>

ReleaseCount(t) ==
    /\ pc[t] = "rCount"
    /\ borrowed' = borrowed - 1
    /\ Goto(t, "ready")
    /\ UNCHANGED <<head, next, old, nxt, slot, owned, lag, stack>>

-----------------------------------------------------------------------------
\* A step of a call in progress.
Step(t) ==
    \/ AcquireLoad(t) \/ AcquireNext(t) \/ AcquireCas(t) \/ AcquireRetry(t) \/ AcquireCount(t)
    \/ ReleaseLoad(t) \/ ReleaseStore(t) \/ ReleaseCas(t) \/ ReleaseRetry(t) \/ ReleaseCount(t)

Next ==
    \E t \in Thread :
        \/ AcquireCall(t)
        \/ \E i \in owned : ReleaseCall(t, i)
        \/ Step(t)

\* Every running thread is scheduled, and a weak CAS that could succeed again
\* and again is not refused for ever.
Fairness ==
    \A t \in Thread :
        /\ WF_vars(Step(t))
        /\ SF_vars(AcquireCas(t))
        /\ SF_vars(ReleaseCas(t))

SafetySpec == Init /\ [][Next]_vars
Spec == SafetySpec /\ Fairness

-----------------------------------------------------------------------------
(* Properties *)

\* Threads that alone hold the index in slot[t]: not yet returned to the caller,
\* or handed to release and not yet linked.
Holders == {t \in Thread : pc[t] \in Releasing \union {"aCount"}}
InFlight == {slot[t] : t \in Holders}
Free == {stack[k] : k \in 1 .. Len(stack)}

(* Type invariant of the free list and of the threads' locals; that `borrowed`
   is a natural number says the u32 counter never wraps below zero, although
   fetch_sub of one thread may run before fetch_add of another. *)
TypeOK ==
    /\ head \in HeadWord
    /\ next \in [Index -> Link]
    /\ borrowed \in Nat
    /\ pc \in [Thread -> PC]
    /\ old \in [Thread -> HeadWord]
    /\ nxt \in [Thread -> Link]
    /\ slot \in [Thread -> Link]
    /\ owned \in SUBSET Index
    /\ lag \in [Thread -> 0 .. MaxOvertake]
    /\ stack \in Seq(Index)

(* No index is handed out twice: what one thread is about to return from
   acquire, or is giving back, is in nobody else's hands (index_set.rs:14,
   "pool of unique indices").  The ABA problem breaks it. *)
UniqueIndices ==
    /\ \A t \in Holders : slot[t] \in Index \ owned
    /\ \A t, u \in Holders : slot[t] = slot[u] => t = u

(* Every index is free, owned or in flight, and only one of them: none is lost
   by a CAS that loses a race, none is both free and in use. *)
NoIndexLost ==
    /\ Free = Index \ (owned \union InFlight)
    /\ \A j, k \in 1 .. Len(stack) : stack[j] = stack[k] => j = k

(* The words in memory (head and next) are exactly the free list, in order and
   ended by SENTINEL, whatever the threads in the middle of a call have stored
   in the next pointers of the slots they hold. *)
FreeListIntact ==
    /\ head.idx = (IF stack = <<>> THEN SENTINEL ELSE stack[1])
    /\ \A k \in 1 .. Len(stack) :
          next[stack[k]] = (IF k = Len(stack) THEN SENTINEL ELSE stack[k + 1])

(* `borrowed` counts the indices that acquire has returned, minus those whose
   release has returned: exact whenever no call is in progress, although it is
   changed apart from the head word ("approximate counter", index_set.rs:100). *)
BorrowedAccounts ==
    borrowed = Cardinality(owned)
               + Cardinality({t \in Thread : pc[t] \in Releasing \union {"rCount"}})

\* What a thread between its load and its CAS knows.  Its copy of the head is
\* `lag` successful CASes old, each of which advanced the tag; when it is
\* current, so is what the thread read or wrote through it.
Windows ==
    \A t \in Thread : pc[t] \in Window =>
        /\ lag[t] = 0 => old[t] = head
        /\ head.tag = (IF old[t].tag + lag[t] < TagMod THEN old[t].tag + lag[t]
                       ELSE old[t].tag + lag[t] - TagMod)
        /\ pc[t] \in {"aNext", "aCas"} => old[t].idx # SENTINEL
        /\ pc[t] = "aCas" /\ lag[t] = 0 => nxt[t] = next[old[t].idx]
        /\ pc[t] = "rCas" => next[slot[t]] = old[t].idx

(* The inductive invariant of the free list: the four properties above hold only
   together, and only because of what the threads in a window know. *)
IndInv ==
    /\ TypeOK /\ UniqueIndices /\ NoIndexLost /\ FreeListIntact /\ BorrowedAccounts
    /\ Windows

\* What a caller sees of the words in memory.
AbstractOp(label) ==
    CASE label \in Acquiring -> "acquiring"
      [] label \in Releasing -> "releasing"
      [] label = "aCount" -> "granted"
      [] label = "rCount" -> "released"
      [] OTHER -> label

AbstractOps == [t \in Thread |-> AbstractOp(pc[t])]

Pool == INSTANCE IndexPool WITH
    op <- AbstractOps,
    arg <- slot,
    free <- Free,
    owned <- owned

(* Linearizability: acquire and release take effect at their CAS, and acquire
   fails only at an instant when every index is in use. *)
ImplementsPool == Pool!Spec

\* The steps that complete a call.
Returns(t) ==
    \/ AcquireCount(t)
    \/ ReleaseCount(t)
    \/ (AcquireLoad(t) \/ AcquireRetry(t)) /\ pc'[t] = "failed"

(* Lock freedom (index_set.rs:78): as long as some call is in progress, calls
   keep completing; a thread that loses its CAS lost it to one that won. *)
LockFree ==
    \/ <>[](\A t \in Thread : pc[t] \in Between)
    \/ []<><<\E t \in Thread : Returns(t)>>_vars

=============================================================================
