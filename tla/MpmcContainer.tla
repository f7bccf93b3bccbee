--------------------------- MODULE MpmcContainer ---------------------------
(***************************************************************************)
(* The container for dynamic registration of                               *)
(* entangle-lockfree/src/mpmc_container.rs and the bit set                 *)
(* (atomic_bitset.rs) that says which of its slots are occupied, one       *)
(* atomic access per step.  Any thread may add a value, remove or get what *)
(* is at any slot, iterate, or count.                                      *)
(*                                                                         *)
(* The bits of WordBits slots share a word, which set() and clear() change *)
(* by compare_exchange_weak: it fails when any bit of the word changed,    *)
(* and may fail for no reason.  A word is the set of the slots whose bits  *)
(* are set in it.                                                          *)
(*                                                                         *)
(* alloc_slot and free_slot are the loops of UniqueIndexSet::acquire and   *)
(* release without the counter.  UniqueIndexSet implements IndexPool, so   *)
(* they are one step here that takes a slot from `free` or gives it back.  *)
(*                                                                         *)
(* `entry`, `steady` and `ever` are history variables: what the add that   *)
(* has or had a slot was asked to store, and for a thread that iterates or *)
(* counts the slots occupied since it started all the time and at some     *)
(* time.                                                                   *)
(***************************************************************************)
EXTENDS Naturals, FiniteSets

CONSTANTS
    Thread,
    Capacity,  \* number of slots
    WordBits,  \* bits of a word, 64 in the code
    Value,
    NoValue    \* the 0 a slot holds before the first add

ASSUME CapacityAssumption == Capacity \in Nat \ {0} /\ WordBits \in Nat \ {0}
ASSUME ValueAssumption == NoValue \notin Value
ASSUME ThreadAssumption == IsFiniteSet(Thread)

VARIABLES
    data,      \* the value words
    occupied,  \* the bits that are set
    free,      \* slots in the free list
    pc,        \* where each thread is
    slot,      \* the slot its call is about, or the next one of its iteration
    val,       \* the value it adds, or has loaded
    old,       \* its copy of a word of the bit set
    seen,      \* the slots its iteration has passed to the callback, or it has counted
    entry, steady, ever

sweep == <<seen, steady, ever>>
vars == <<data, occupied, free, pc, slot, val, old, sweep, entry>>

Slot == 0 .. Capacity - 1

\* words[index / 64] of slot s, as it is now.
WordOf(s) == {i \in Slot : i \div WordBits = s \div WordBits}
Word(s) == occupied \intersect WordOf(s)

Sweeping == {"eTest", "eLoad", "count"}

Init ==
    /\ data = [s \in Slot |-> NoValue]
    /\ occupied = {} /\ free = Slot
    /\ pc = [t \in Thread |-> "idle"]
    /\ slot = [t \in Thread |-> 0]
    /\ val = [t \in Thread |-> NoValue]
    /\ old = [t \in Thread |-> {}]
    /\ seen = [t \in Thread |-> {}]
    /\ entry = [s \in Slot |-> NoValue]
    /\ steady = [t \in Thread |-> {}] /\ ever = [t \in Thread |-> {}]

Goto(t, label) == pc' = [pc EXCEPT ![t] = label]

\* The call returns and its locals are gone.
Return(t) ==
    /\ Goto(t, "idle")
    /\ slot' = [slot EXCEPT ![t] = 0]
    /\ val' = [val EXCEPT ![t] = NoValue]
    /\ old' = [old EXCEPT ![t] = {}]

-----------------------------------------------------------------------------
(* add *)

AllocSlot(t, s, v) ==
    /\ pc[t] = "idle" /\ s \in free
    /\ free' = free \ {s}
    /\ slot' = [slot EXCEPT ![t] = s]
    /\ val' = [val EXCEPT ![t] = v]
    /\ entry' = [entry EXCEPT ![s] = v]
    /\ Goto(t, "store")
    /\ UNCHANGED <<data, occupied, old, sweep>>

\* add returns None.
AllocFails(t) ==
    /\ pc[t] = "idle" /\ free = {}
    /\ Goto(t, "refused")
    /\ UNCHANGED <<data, occupied, free, slot, val, old, sweep, entry>>

Resume(t) ==
    /\ pc[t] = "refused"
    /\ Goto(t, "idle")
    /\ UNCHANGED <<data, occupied, free, slot, val, old, sweep, entry>>

\* An add that sets the bit without having stored the value.
StoreNothing(t) ==
    /\ pc[t] = "store"
    /\ Goto(t, "sLoad")
    /\ UNCHANGED <<data, occupied, free, slot, val, old, sweep, entry>>

Store(t) ==
    /\ pc[t] = "store"
    /\ data' = [data EXCEPT ![slot[t]] = val[t]]
    /\ Goto(t, "sLoad")
    /\ UNCHANGED <<occupied, free, slot, val, old, sweep, entry>>

\* set(): the first load of the word, or the one a failed CAS returns.
SetLoad(t) ==
    /\ pc[t] \in {"sLoad", "sCas"}
    /\ IF slot[t] \in occupied
       THEN Return(t)
       ELSE /\ old' = [old EXCEPT ![t] = Word(slot[t])]
            /\ Goto(t, "sCas")
            /\ UNCHANGED <<slot, val>>
    /\ UNCHANGED <<data, occupied, free, sweep, entry>>

\* A plain store of the new word.
SetStores(t) ==
    /\ pc[t] = "sCas"
    /\ occupied' = (occupied \ WordOf(slot[t])) \union old[t] \union {slot[t]}
    /\ ever' = [u \in Thread |-> IF pc[u] \in Sweeping THEN ever[u] \union {slot[t]} ELSE ever[u]]
    /\ Return(t)
    /\ UNCHANGED <<data, free, seen, steady, entry>>

SetCas(t) ==
    /\ pc[t] = "sCas" /\ Word(slot[t]) = old[t]
    /\ occupied' = (occupied \ WordOf(slot[t])) \union old[t] \union {slot[t]}
    /\ ever' = [u \in Thread |-> IF pc[u] \in Sweeping THEN ever[u] \union {slot[t]} ELSE ever[u]]
    /\ Return(t)
    /\ UNCHANGED <<data, free, seen, steady, entry>>

-----------------------------------------------------------------------------
(* remove: any slot, one that is not occupied too *)

RemoveCall(t, s) ==
    /\ pc[t] = "idle"
    /\ slot' = [slot EXCEPT ![t] = s]
    /\ Goto(t, "cLoad")
    /\ UNCHANGED <<data, occupied, free, val, old, sweep, entry>>

\* clear(): remove returns None when the bit is not set.
ClearLoad(t) ==
    /\ pc[t] \in {"cLoad", "cCas"}
    /\ IF slot[t] \notin occupied
       THEN Return(t)
       ELSE /\ old' = [old EXCEPT ![t] = Word(slot[t])]
            /\ Goto(t, "cCas")
            /\ UNCHANGED <<slot, val>>
    /\ UNCHANGED <<data, occupied, free, sweep, entry>>

ClearCas(t) ==
    /\ pc[t] = "cCas" /\ Word(slot[t]) = old[t]
    /\ occupied' = (occupied \ WordOf(slot[t])) \union (old[t] \ {slot[t]})
    /\ steady' = [u \in Thread |-> steady[u] \ {slot[t]}]
    /\ old' = [old EXCEPT ![t] = {}]
    /\ Goto(t, "take")
    /\ UNCHANGED <<data, free, slot, val, seen, ever, entry>>

Take(t) ==
    /\ pc[t] = "take"
    /\ val' = [val EXCEPT ![t] = data[slot[t]]]
    /\ Goto(t, "give")
    /\ UNCHANGED <<data, occupied, free, slot, old, sweep, entry>>

\* A remove that forgets free_slot.
FreeNothing(t) ==
    /\ pc[t] = "give"
    /\ Return(t)
    /\ UNCHANGED <<data, occupied, free, sweep, entry>>

FreeSlot(t) ==
    /\ pc[t] = "give"
    /\ free' = free \union {slot[t]}
    /\ Return(t)
    /\ UNCHANGED <<data, occupied, sweep, entry>>

-----------------------------------------------------------------------------
(* get: None when is_set says no, which changes nothing *)

GetTest(t, s) ==
    /\ pc[t] = "idle" /\ s \in occupied
    /\ slot' = [slot EXCEPT ![t] = s]
    /\ Goto(t, "gLoad")
    /\ UNCHANGED <<data, occupied, free, val, old, sweep, entry>>

GetLoad(t) ==
    /\ pc[t] = "gLoad"
    /\ val' = [val EXCEPT ![t] = data[slot[t]]]
    /\ Goto(t, "got")
    /\ UNCHANGED <<data, occupied, free, slot, old, sweep, entry>>

GetReturn(t) ==
    /\ pc[t] = "got"
    /\ Return(t)
    /\ UNCHANGED <<data, occupied, free, sweep, entry>>

-----------------------------------------------------------------------------
(* for_each, slot by slot, and len (count_set), word by word *)

StartSweep(t, label) ==
    /\ pc[t] = "idle"
    /\ Goto(t, label)
    /\ steady' = [steady EXCEPT ![t] = occupied]
    /\ ever' = [ever EXCEPT ![t] = occupied]
    /\ UNCHANGED <<data, occupied, free, slot, val, old, seen, entry>>

ForEach(t) == StartSweep(t, "eTest")
CountSet(t) == StartSweep(t, "count")

Continue(t, next) == slot' = [slot EXCEPT ![t] = next]

\* An iteration that ends at the first slot that is not occupied.
EachTestStops(t) ==
    /\ pc[t] = "eTest" /\ slot[t] < Capacity
    /\ IF slot[t] \in occupied
       THEN Goto(t, "eLoad") /\ UNCHANGED slot
       ELSE Continue(t, Capacity) /\ UNCHANGED pc
    /\ UNCHANGED <<data, occupied, free, val, old, sweep, entry>>

EachTest(t) ==
    /\ pc[t] = "eTest" /\ slot[t] < Capacity
    /\ IF slot[t] \in occupied
       THEN Goto(t, "eLoad") /\ UNCHANGED slot
       ELSE Continue(t, slot[t] + 1) /\ UNCHANGED pc
    /\ UNCHANGED <<data, occupied, free, val, old, sweep, entry>>

EachLoad(t) ==
    /\ pc[t] = "eLoad"
    /\ seen' = [seen EXCEPT ![t] = @ \union {slot[t]}]
    /\ Continue(t, slot[t] + 1)
    /\ Goto(t, "eTest")
    /\ UNCHANGED <<data, occupied, free, val, old, steady, ever, entry>>

CountWord(t) ==
    /\ pc[t] = "count" /\ slot[t] < Capacity
    /\ seen' = [seen EXCEPT ![t] = @ \union Word(slot[t])]
    /\ Continue(t, slot[t] + WordBits)
    /\ UNCHANGED <<data, occupied, free, pc, val, old, steady, ever, entry>>

SweepReturn(t) ==
    /\ pc[t] \in {"eTest", "count"} /\ slot[t] >= Capacity
    /\ Return(t)
    /\ seen' = [seen EXCEPT ![t] = {}]
    /\ steady' = [steady EXCEPT ![t] = {}] /\ ever' = [ever EXCEPT ![t] = {}]
    /\ UNCHANGED <<data, occupied, free, entry>>

-----------------------------------------------------------------------------
Next ==
    \E t \in Thread :
        \/ \E s \in Slot, v \in Value : AllocSlot(t, s, v)
        \/ AllocFails(t) \/ Resume(t) \/ Store(t) \/ SetLoad(t) \/ SetCas(t)
        \/ \E s \in Slot : RemoveCall(t, s) \/ GetTest(t, s)
        \/ ClearLoad(t) \/ ClearCas(t) \/ Take(t) \/ FreeSlot(t)
        \/ GetLoad(t) \/ GetReturn(t)
        \/ ForEach(t) \/ EachTest(t) \/ EachLoad(t)
        \/ CountSet(t) \/ CountWord(t) \/ SweepReturn(t)

Spec == Init /\ [][Next]_vars

-----------------------------------------------------------------------------
(* Properties *)

TypeOK ==
    /\ data \in [Slot -> Value \union {NoValue}]
    /\ occupied \in SUBSET Slot /\ free \in SUBSET Slot
    /\ pc \in [Thread -> {"idle", "refused", "store", "sLoad", "sCas", "cLoad", "cCas",
                          "take", "give", "gLoad", "got"} \union Sweeping]
    /\ slot \in [Thread -> Nat]
    /\ val \in [Thread -> Value \union {NoValue}]
    /\ old \in [Thread -> SUBSET Slot]
    /\ seen \in [Thread -> SUBSET Slot]
    /\ entry \in [Slot -> Value \union {NoValue}]
    /\ steady \in [Thread -> SUBSET Slot] /\ ever \in [Thread -> SUBSET Slot]

\* Threads that have a slot to themselves: an add up to its set(), a remove from its clear().
Adding == {t \in Thread : pc[t] \in {"store", "sLoad", "sCas"}}
Removing == {t \in Thread : pc[t] \in {"take", "give"}}
Having == Adding \union Removing

(* Every slot is in the free list, occupied, or one thread's, and only one of
   these: no CAS on a word shared with other slots drops or revives an entry, no
   two removes of one slot both get it, and none leaks (mpmc_container.rs:12). *)
SlotsAccounted ==
    /\ free \union occupied \union {slot[t] : t \in Having} = Slot
    /\ free \intersect occupied = {}
    /\ \A t \in Having : slot[t] \notin free \union occupied
    /\ \A t, u \in Having : slot[t] = slot[u] => t = u

(* Whoever sees a slot occupied finds the value its add was given (the Release
   store of mpmc_container.rs:64), remove returns that value although it loads it
   after the bit is cleared, and get returns a value some add gave, not the 0
   the slot started with, even when the entry it saw is gone by then. *)
EntriesIntact ==
    /\ \A s \in occupied : data[s] = entry[s] /\ entry[s] \in Value
    /\ \A t \in Removing : data[slot[t]] = entry[slot[t]]
    /\ \A t \in Thread : pc[t] = "give" => val[t] = entry[slot[t]]
    /\ \A t \in Thread : pc[t] \in {"gLoad", "eLoad"} => data[slot[t]] \in Value

(* for_each and len are no snapshots, but entries that are there all the time are
   never missed, and what was there at no time is never reported: an is_empty()
   that returns true has no entry that stayed to answer for. *)
SweepsSound ==
    \A t \in Thread : pc[t] \in Sweeping =>
        /\ seen[t] \subseteq ever[t]
        /\ \A s \in steady[t] : s < slot[t] => s \in seen[t]

\* What a call in progress knows: its slot and its value, whose store precedes the set();
\* the bit its clear() found set; that a sweep has what it is at and started at the first
\* slot, and that len() is at the beginning of a word.
CallsKnow ==
    \A t \in Thread :
        /\ pc[t] \in {"idle", "refused"} => slot[t] = 0
        /\ pc[t] \notin {"idle", "refused", "eTest", "count"} => slot[t] \in Slot
        /\ t \in Adding => val[t] \in Value /\ entry[slot[t]] = val[t]
        /\ pc[t] \in {"sLoad", "sCas"} => data[slot[t]] = val[t]
        /\ pc[t] = "cCas" => slot[t] \in old[t]
        /\ t \in Removing => entry[slot[t]] \in Value
        /\ pc[t] = "eLoad" => slot[t] \in ever[t]
        /\ pc[t] = "count" => \E k \in Nat : slot[t] = k * WordBits

\* A sweep counts what is occupied from its start.
SweepsKnow ==
    \A t \in Thread :
        /\ steady[t] \subseteq occupied
        /\ pc[t] \in Sweeping => occupied \subseteq ever[t]
        /\ pc[t] \notin Sweeping => seen[t] = {} /\ steady[t] = {}

(* The inductive invariant behind SlotsAccounted, EntriesIntact and SweepsSound. *)
IndInv ==
    TypeOK /\ SlotsAccounted /\ EntriesIntact /\ SweepsSound /\ CallsKnow /\ SweepsKnow

\* The container as its callers see it.
Entries == [s \in Slot |-> IF s \in occupied THEN data[s] ELSE NoValue]
Op == [t \in Thread |->
          CASE t \in Adding -> "adding"
            [] t \in Removing -> "removed"
            [] pc[t] = "refused" -> "refused"
            [] OTHER -> "idle"]
Arg == [t \in Thread |->
          CASE t \in Adding -> val[t]
            [] t \in Removing -> entry[slot[t]]
            [] OTHER -> NoValue]

Map == INSTANCE SlotMap WITH map <- Entries, op <- Op, arg <- Arg

(* Linearizability of add and remove: an add takes effect at the CAS of set(), a
   remove at the CAS of clear(), and add is refused only at an instant when every
   slot has a value or a call in progress. *)
ImplementsSlotMap == Map!Spec
=============================================================================
