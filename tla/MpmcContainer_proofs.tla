------------------------ MODULE MpmcContainer_proofs ------------------------
(***************************************************************************)
(* Proofs about the container for dynamic registration, for any number of  *)
(* threads, slots, bits in a word and values.                              *)
(***************************************************************************)
EXTENDS MpmcContainer, FiniteSetTheorems, TLAPS

-----------------------------------------------------------------------------
(* Words *)

(* The bit of a slot is in the slot's own word. *)
LEMMA OwnWord == ASSUME NEW s \in Slot PROVE s \in WordOf(s)
BY DEF WordOf

(* A number within WordBits of a multiple of WordBits belongs to the word that starts
   there. *)
LEMMA WordStart ==
    ASSUME NEW k \in Nat, NEW s \in Nat, k * WordBits <= s, s < k * WordBits + WordBits
    PROVE  s \div WordBits = (k * WordBits) \div WordBits
<1>1. s \div WordBits = k
  BY CapacityAssumption
<1>2. (k * WordBits) \div WordBits = k
  BY CapacityAssumption
<1> QED
  BY <1>1, <1>2

(* The CAS of set() changes the bit of its slot and no other. *)
LEMMA SetCasAdds ==
    ASSUME IndInv, NEW t \in Thread, SetCas(t)
    PROVE  occupied' = occupied \union {slot[t]}
BY DEF SetCas, Word

(* So does the CAS of clear(), and the bit was set until then. *)
LEMMA ClearCasRemoves ==
    ASSUME IndInv, NEW t \in Thread, ClearCas(t)
    PROVE  slot[t] \in occupied /\ occupied' = occupied \ {slot[t]}
<1>1. slot[t] \in old[t] /\ slot[t] \in Slot
  BY DEF IndInv, CallsKnow, ClearCas
<1> QED
  BY <1>1, OwnWord DEF ClearCas, Word

-----------------------------------------------------------------------------
(* Every step keeps the invariant *)

(* The invariant holds of the empty container. *)
LEMMA InitInv == Init => IndInv
<1> SUFFICES ASSUME Init PROVE IndInv
  OBVIOUS
<1> USE DEF Init
<1>1. TypeOK
  BY DEF TypeOK, Sweeping
<1>2. SlotsAccounted
  BY DEF SlotsAccounted, Having, Adding, Removing
<1>3. EntriesIntact
  BY DEF EntriesIntact, Removing
<1>4. SweepsSound /\ CallsKnow /\ SweepsKnow
  BY DEF SweepsSound, CallsKnow, SweepsKnow, Sweeping, Adding, Removing
<1> QED
  BY <1>1, <1>2, <1>3, <1>4 DEF IndInv

(* add takes a slot from the free list. *)
LEMMA AllocSlotInv ==
    ASSUME IndInv, NEW t \in Thread, NEW s \in Slot, NEW v \in Value, AllocSlot(t, s, v) PROVE IndInv'
<1> USE DEF IndInv, AllocSlot, Goto, sweep
<1>1. TypeOK'
  BY CapacityAssumption DEF TypeOK, Sweeping, CallsKnow, Slot
<1>2. SlotsAccounted'
  BY DEF TypeOK, SlotsAccounted, Adding, Removing, Having, CallsKnow
<1>3. EntriesIntact'
  BY DEF TypeOK, EntriesIntact, SlotsAccounted, CallsKnow, Adding, Removing, Having
<1>4. SweepsSound'
  BY DEF TypeOK, SweepsSound, CallsKnow, SweepsKnow, Sweeping, Slot
<1>5. CallsKnow'
  BY DEF TypeOK, CallsKnow, SlotsAccounted, EntriesIntact, SweepsKnow, Adding, Removing, Having, Sweeping
<1>6. SweepsKnow'
  BY DEF TypeOK, SweepsKnow, Sweeping
<1> QED
  BY <1>1, <1>2, <1>3, <1>4, <1>5, <1>6

(* add finds the free list empty. *)
LEMMA AllocFailsInv ==
    ASSUME IndInv, NEW t \in Thread, AllocFails(t) PROVE IndInv'
<1> USE DEF IndInv, AllocFails, Goto, sweep
<1>1. TypeOK'
  BY DEF TypeOK, Sweeping, CallsKnow
<1>2. SlotsAccounted'
  BY DEF TypeOK, SlotsAccounted, Adding, Removing, Having, CallsKnow
<1>3. EntriesIntact'
  BY DEF TypeOK, EntriesIntact, SlotsAccounted, CallsKnow, Adding, Removing, Having
<1>4. SweepsSound'
  BY DEF TypeOK, SweepsSound, CallsKnow, SweepsKnow, Sweeping, Slot
<1>5. CallsKnow'
  BY DEF TypeOK, CallsKnow, SlotsAccounted, EntriesIntact, SweepsKnow, Adding, Removing, Having, Sweeping
<1>6. SweepsKnow'
  BY DEF TypeOK, SweepsKnow, Sweeping
<1> QED
  BY <1>1, <1>2, <1>3, <1>4, <1>5, <1>6

(* An add that was refused returns. *)
LEMMA ResumeInv ==
    ASSUME IndInv, NEW t \in Thread, Resume(t) PROVE IndInv'
<1> USE DEF IndInv, Resume, Goto, sweep
<1>1. TypeOK'
  BY DEF TypeOK, Sweeping, CallsKnow
<1>2. SlotsAccounted'
  BY DEF TypeOK, SlotsAccounted, Adding, Removing, Having, CallsKnow
<1>3. EntriesIntact'
  BY DEF TypeOK, EntriesIntact, SlotsAccounted, CallsKnow, Adding, Removing, Having
<1>4. SweepsSound'
  BY DEF TypeOK, SweepsSound, CallsKnow, SweepsKnow, Sweeping, Slot
<1>5. CallsKnow'
  BY DEF TypeOK, CallsKnow, SlotsAccounted, EntriesIntact, SweepsKnow, Adding, Removing, Having, Sweeping
<1>6. SweepsKnow'
  BY DEF TypeOK, SweepsKnow, Sweeping
<1> QED
  BY <1>1, <1>2, <1>3, <1>4, <1>5, <1>6

(* add stores its value. *)
LEMMA StoreInv ==
    ASSUME IndInv, NEW t \in Thread, Store(t) PROVE IndInv'
<1> USE DEF IndInv, Store, Goto, sweep
<1>1. TypeOK'
  BY DEF TypeOK, Sweeping, CallsKnow
<1>2. SlotsAccounted'
  BY DEF TypeOK, SlotsAccounted, Adding, Removing, Having, CallsKnow
<1>3. EntriesIntact'
  BY DEF TypeOK, EntriesIntact, SlotsAccounted, CallsKnow, Adding, Removing, Having
<1>4. SweepsSound'
  BY DEF TypeOK, SweepsSound, CallsKnow, SweepsKnow, Sweeping, Slot
<1>5. CallsKnow'
  BY DEF TypeOK, CallsKnow, SlotsAccounted, EntriesIntact, SweepsKnow, Adding, Removing, Having, Sweeping
<1>6. SweepsKnow'
  BY DEF TypeOK, SweepsKnow, Sweeping
<1> QED
  BY <1>1, <1>2, <1>3, <1>4, <1>5, <1>6

(* set() loads the word. *)
LEMMA SetLoadInv ==
    ASSUME IndInv, NEW t \in Thread, SetLoad(t) PROVE IndInv'
<1> USE DEF IndInv, SetLoad, Goto, Return, Word, sweep
<1>1. TypeOK'
  BY DEF TypeOK, Sweeping, CallsKnow
<1>2. SlotsAccounted'
  BY DEF TypeOK, SlotsAccounted, Adding, Removing, Having, CallsKnow
<1>3. EntriesIntact'
  BY DEF TypeOK, EntriesIntact, SlotsAccounted, CallsKnow, Adding, Removing, Having
<1>4. SweepsSound'
  BY DEF TypeOK, SweepsSound, CallsKnow, SweepsKnow, Sweeping, Slot
<1>5. CallsKnow'
  BY DEF TypeOK, CallsKnow, SlotsAccounted, EntriesIntact, SweepsKnow, Adding, Removing, Having, Sweeping
<1>6. SweepsKnow'
  BY DEF TypeOK, SweepsKnow, Sweeping
<1> QED
  BY <1>1, <1>2, <1>3, <1>4, <1>5, <1>6

(* set() succeeds: the slot is occupied and no longer the caller's. *)
LEMMA SetCasInv ==
    ASSUME IndInv, NEW t \in Thread, SetCas(t) PROVE IndInv'
<1> USE DEF IndInv, SetCas, Goto, Return, sweep
<1>0. occupied' = occupied \union {slot[t]}
  BY SetCasAdds
<1>1. TypeOK'
  BY <1>0 DEF TypeOK, Sweeping, CallsKnow
<1>2. SlotsAccounted'
  BY <1>0 DEF TypeOK, SlotsAccounted, Adding, Removing, Having, CallsKnow
<1>3. EntriesIntact'
  BY <1>0 DEF TypeOK, EntriesIntact, SlotsAccounted, CallsKnow, Adding, Removing, Having
<1>4. SweepsSound'
  BY <1>0 DEF TypeOK, SweepsSound, CallsKnow, SweepsKnow, Sweeping, Slot
<1>5. CallsKnow'
  BY <1>0 DEF TypeOK, CallsKnow, SlotsAccounted, EntriesIntact, SweepsKnow, Adding, Removing, Having, Sweeping
<1>6. SweepsKnow'
  BY <1>0 DEF TypeOK, SweepsKnow, Sweeping
<1> QED
  BY <1>1, <1>2, <1>3, <1>4, <1>5, <1>6

(* remove is called. *)
LEMMA RemoveCallInv ==
    ASSUME IndInv, NEW t \in Thread, NEW s \in Slot, RemoveCall(t, s) PROVE IndInv'
<1> USE DEF IndInv, RemoveCall, Goto, sweep
<1>1. TypeOK'
  BY CapacityAssumption DEF TypeOK, Sweeping, CallsKnow, Slot
<1>2. SlotsAccounted'
  BY DEF TypeOK, SlotsAccounted, Adding, Removing, Having, CallsKnow
<1>3. EntriesIntact'
  BY DEF TypeOK, EntriesIntact, SlotsAccounted, CallsKnow, Adding, Removing, Having
<1>4. SweepsSound'
  BY DEF TypeOK, SweepsSound, CallsKnow, SweepsKnow, Sweeping, Slot
<1>5. CallsKnow'
  BY DEF TypeOK, CallsKnow, SlotsAccounted, EntriesIntact, SweepsKnow, Adding, Removing, Having, Sweeping
<1>6. SweepsKnow'
  BY DEF TypeOK, SweepsKnow, Sweeping
<1> QED
  BY <1>1, <1>2, <1>3, <1>4, <1>5, <1>6

(* get finds the slot occupied. *)
LEMMA GetTestInv ==
    ASSUME IndInv, NEW t \in Thread, NEW s \in Slot, GetTest(t, s) PROVE IndInv'
<1> USE DEF IndInv, GetTest, Goto, sweep
<1>1. TypeOK'
  BY CapacityAssumption DEF TypeOK, Sweeping, CallsKnow, Slot
<1>2. SlotsAccounted'
  BY DEF TypeOK, SlotsAccounted, Adding, Removing, Having, CallsKnow
<1>3. EntriesIntact'
  BY DEF TypeOK, EntriesIntact, SlotsAccounted, CallsKnow, Adding, Removing, Having
<1>4. SweepsSound'
  BY DEF TypeOK, SweepsSound, CallsKnow, SweepsKnow, Sweeping, Slot
<1>5. CallsKnow'
  BY DEF TypeOK, CallsKnow, SlotsAccounted, EntriesIntact, SweepsKnow, Adding, Removing, Having, Sweeping
<1>6. SweepsKnow'
  BY DEF TypeOK, SweepsKnow, Sweeping
<1> QED
  BY <1>1, <1>2, <1>3, <1>4, <1>5, <1>6

(* clear() loads the word. *)
LEMMA ClearLoadInv ==
    ASSUME IndInv, NEW t \in Thread, ClearLoad(t) PROVE IndInv'
<1> USE DEF IndInv, ClearLoad, Goto, Return, Word, sweep
<1>1. TypeOK'
  BY DEF TypeOK, Sweeping, CallsKnow
<1>2. SlotsAccounted'
  BY DEF TypeOK, SlotsAccounted, Adding, Removing, Having, CallsKnow
<1>3. EntriesIntact'
  BY DEF TypeOK, EntriesIntact, SlotsAccounted, CallsKnow, Adding, Removing, Having
<1>4. SweepsSound'
  BY DEF TypeOK, SweepsSound, CallsKnow, SweepsKnow, Sweeping, Slot
<1>5. CallsKnow'
  BY OwnWord DEF TypeOK, CallsKnow, SlotsAccounted, EntriesIntact, SweepsKnow, Adding, Removing, Having, Sweeping
<1>6. SweepsKnow'
  BY DEF TypeOK, SweepsKnow, Sweeping
<1> QED
  BY <1>1, <1>2, <1>3, <1>4, <1>5, <1>6

(* clear() succeeds: the slot is the caller's, and its bit was set until now. *)
LEMMA ClearCasInv ==
    ASSUME IndInv, NEW t \in Thread, ClearCas(t) PROVE IndInv'
<1> USE DEF IndInv, ClearCas, Goto, sweep
<1>0. slot[t] \in occupied /\ occupied' = occupied \ {slot[t]}
  BY ClearCasRemoves
<1>1. TypeOK'
  BY <1>0 DEF TypeOK, Sweeping, CallsKnow
<1>2. SlotsAccounted'
  BY <1>0 DEF TypeOK, SlotsAccounted, Adding, Removing, Having, CallsKnow
<1>3. EntriesIntact'
  BY <1>0 DEF TypeOK, EntriesIntact, SlotsAccounted, CallsKnow, Adding, Removing, Having
<1>4. SweepsSound'
  BY <1>0 DEF TypeOK, SweepsSound, CallsKnow, SweepsKnow, Sweeping, Slot
<1>5. CallsKnow'
  BY <1>0 DEF TypeOK, CallsKnow, SlotsAccounted, EntriesIntact, SweepsKnow, Adding, Removing, Having, Sweeping
<1>6. SweepsKnow'
  BY <1>0 DEF TypeOK, SweepsKnow, Sweeping
<1> QED
  BY <1>1, <1>2, <1>3, <1>4, <1>5, <1>6

(* remove loads the value of the slot it has. *)
LEMMA TakeInv ==
    ASSUME IndInv, NEW t \in Thread, Take(t) PROVE IndInv'
<1> USE DEF IndInv, Take, Goto, sweep
<1>1. TypeOK'
  BY DEF TypeOK, Sweeping, CallsKnow
<1>2. SlotsAccounted'
  BY DEF TypeOK, SlotsAccounted, Adding, Removing, Having, CallsKnow
<1>3. EntriesIntact'
  BY DEF TypeOK, EntriesIntact, SlotsAccounted, CallsKnow, Adding, Removing, Having
<1>4. SweepsSound'
  BY DEF TypeOK, SweepsSound, CallsKnow, SweepsKnow, Sweeping, Slot
<1>5. CallsKnow'
  BY DEF TypeOK, CallsKnow, SlotsAccounted, EntriesIntact, SweepsKnow, Adding, Removing, Having, Sweeping
<1>6. SweepsKnow'
  BY DEF TypeOK, SweepsKnow, Sweeping
<1> QED
  BY <1>1, <1>2, <1>3, <1>4, <1>5, <1>6

(* remove gives its slot back. *)
LEMMA FreeSlotInv ==
    ASSUME IndInv, NEW t \in Thread, FreeSlot(t) PROVE IndInv'
<1> USE DEF IndInv, FreeSlot, Goto, Return, sweep
<1>1. TypeOK'
  BY DEF TypeOK, Sweeping, CallsKnow
<1>2. SlotsAccounted'
  BY DEF TypeOK, SlotsAccounted, Adding, Removing, Having, CallsKnow
<1>3. EntriesIntact'
  BY DEF TypeOK, EntriesIntact, SlotsAccounted, CallsKnow, Adding, Removing, Having
<1>4. SweepsSound'
  BY DEF TypeOK, SweepsSound, CallsKnow, SweepsKnow, Sweeping, Slot
<1>5. CallsKnow'
  BY DEF TypeOK, CallsKnow, SlotsAccounted, EntriesIntact, SweepsKnow, Adding, Removing, Having, Sweeping
<1>6. SweepsKnow'
  BY DEF TypeOK, SweepsKnow, Sweeping
<1> QED
  BY <1>1, <1>2, <1>3, <1>4, <1>5, <1>6

(* get loads the value. *)
LEMMA GetLoadInv ==
    ASSUME IndInv, NEW t \in Thread, GetLoad(t) PROVE IndInv'
<1> USE DEF IndInv, GetLoad, Goto, sweep
<1>1. TypeOK'
  BY DEF TypeOK, Sweeping, CallsKnow
<1>2. SlotsAccounted'
  BY DEF TypeOK, SlotsAccounted, Adding, Removing, Having, CallsKnow
<1>3. EntriesIntact'
  BY DEF TypeOK, EntriesIntact, SlotsAccounted, CallsKnow, Adding, Removing, Having
<1>4. SweepsSound'
  BY DEF TypeOK, SweepsSound, CallsKnow, SweepsKnow, Sweeping, Slot
<1>5. CallsKnow'
  BY DEF TypeOK, CallsKnow, SlotsAccounted, EntriesIntact, SweepsKnow, Adding, Removing, Having, Sweeping
<1>6. SweepsKnow'
  BY DEF TypeOK, SweepsKnow, Sweeping
<1> QED
  BY <1>1, <1>2, <1>3, <1>4, <1>5, <1>6

(* get returns. *)
LEMMA GetReturnInv ==
    ASSUME IndInv, NEW t \in Thread, GetReturn(t) PROVE IndInv'
<1> USE DEF IndInv, GetReturn, Goto, Return, sweep
<1>1. TypeOK'
  BY DEF TypeOK, Sweeping, CallsKnow
<1>2. SlotsAccounted'
  BY DEF TypeOK, SlotsAccounted, Adding, Removing, Having, CallsKnow
<1>3. EntriesIntact'
  BY DEF TypeOK, EntriesIntact, SlotsAccounted, CallsKnow, Adding, Removing, Having
<1>4. SweepsSound'
  BY DEF TypeOK, SweepsSound, CallsKnow, SweepsKnow, Sweeping, Slot
<1>5. CallsKnow'
  BY DEF TypeOK, CallsKnow, SlotsAccounted, EntriesIntact, SweepsKnow, Adding, Removing, Having, Sweeping
<1>6. SweepsKnow'
  BY DEF TypeOK, SweepsKnow, Sweeping
<1> QED
  BY <1>1, <1>2, <1>3, <1>4, <1>5, <1>6

(* for_each starts. *)
LEMMA ForEachInv ==
    ASSUME IndInv, NEW t \in Thread, ForEach(t) PROVE IndInv'
<1> USE DEF IndInv, ForEach, StartSweep, Goto, sweep
<1>1. TypeOK'
  BY DEF TypeOK, Sweeping, CallsKnow
<1>2. SlotsAccounted'
  BY DEF TypeOK, SlotsAccounted, Adding, Removing, Having, CallsKnow
<1>3. EntriesIntact'
  BY DEF TypeOK, EntriesIntact, SlotsAccounted, CallsKnow, Adding, Removing, Having
<1>4. SweepsSound'
  BY DEF TypeOK, SweepsSound, CallsKnow, SweepsKnow, Sweeping, Slot
<1>5. CallsKnow'
  BY DEF TypeOK, CallsKnow, SlotsAccounted, EntriesIntact, SweepsKnow, Adding, Removing, Having, Sweeping
<1>6. SweepsKnow'
  BY DEF TypeOK, SweepsKnow, Sweeping
<1> QED
  BY <1>1, <1>2, <1>3, <1>4, <1>5, <1>6

(* for_each tests a bit. *)
LEMMA EachTestInv ==
    ASSUME IndInv, NEW t \in Thread, EachTest(t) PROVE IndInv'
<1> USE DEF IndInv, EachTest, Continue, Goto, sweep
<1>1. TypeOK'
  BY DEF TypeOK, Sweeping, CallsKnow
<1>2. SlotsAccounted'
  BY DEF TypeOK, SlotsAccounted, Adding, Removing, Having, CallsKnow
<1>3. EntriesIntact'
  BY DEF TypeOK, EntriesIntact, SlotsAccounted, CallsKnow, Adding, Removing, Having
<1>4. SweepsSound'
  <2> SUFFICES ASSUME NEW u \in Thread, pc[u] \in Sweeping
               PROVE  /\ seen[u] \subseteq ever[u]
                      /\ \A s \in steady[u] : s < slot'[u] => s \in seen[u]
    BY DEF TypeOK, SweepsSound, Sweeping
  <2>1. CASE u # t \/ slot[t] \in occupied
    BY <2>1 DEF TypeOK, SweepsSound
  <2>2. CASE u = t /\ slot[t] \notin occupied
    <3>1. slot'[t] = slot[t] + 1 /\ slot[t] \notin steady[t]
      BY <2>2 DEF TypeOK, SweepsKnow
    <3>2. ASSUME NEW s \in steady[t], s < slot'[t] PROVE s < slot[t]
      <4>1. s \in Nat /\ slot[t] \in Nat /\ s # slot[t]
        BY <3>1, CapacityAssumption DEF TypeOK, Slot
      <4> QED
        BY <3>1, <3>2, <4>1
    <3> QED
      BY <2>2, <3>2 DEF SweepsSound
  <2> QED
    BY <2>1, <2>2
<1>5. CallsKnow'
  BY DEF TypeOK, CallsKnow, SlotsAccounted, EntriesIntact, SweepsKnow, Adding, Removing, Having, Sweeping
<1>6. SweepsKnow'
  BY DEF TypeOK, SweepsKnow, Sweeping
<1> QED
  BY <1>1, <1>2, <1>3, <1>4, <1>5, <1>6

(* for_each passes a slot to its callback. *)
LEMMA EachLoadInv ==
    ASSUME IndInv, NEW t \in Thread, EachLoad(t) PROVE IndInv'
<1> USE DEF IndInv, EachLoad, Continue, Goto, sweep
<1>1. TypeOK'
  BY DEF TypeOK, Sweeping, CallsKnow
<1>2. SlotsAccounted'
  BY DEF TypeOK, SlotsAccounted, Adding, Removing, Having, CallsKnow
<1>3. EntriesIntact'
  BY DEF TypeOK, EntriesIntact, SlotsAccounted, CallsKnow, Adding, Removing, Having
<1>4. SweepsSound'
  BY DEF TypeOK, SweepsSound, CallsKnow, SweepsKnow, Sweeping, Slot
<1>5. CallsKnow'
  BY DEF TypeOK, CallsKnow, SlotsAccounted, EntriesIntact, SweepsKnow, Adding, Removing, Having, Sweeping
<1>6. SweepsKnow'
  BY DEF TypeOK, SweepsKnow, Sweeping
<1> QED
  BY <1>1, <1>2, <1>3, <1>4, <1>5, <1>6

(* len starts. *)
LEMMA CountSetInv ==
    ASSUME IndInv, NEW t \in Thread, CountSet(t) PROVE IndInv'
<1> USE DEF IndInv, CountSet, StartSweep, Goto, sweep
<1>1. TypeOK'
  BY DEF TypeOK, Sweeping, CallsKnow
<1>2. SlotsAccounted'
  BY DEF TypeOK, SlotsAccounted, Adding, Removing, Having, CallsKnow
<1>3. EntriesIntact'
  BY DEF TypeOK, EntriesIntact, SlotsAccounted, CallsKnow, Adding, Removing, Having
<1>4. SweepsSound'
  BY DEF TypeOK, SweepsSound, CallsKnow, SweepsKnow, Sweeping, Slot
<1>5. CallsKnow'
  BY CapacityAssumption, 0 = 0 * WordBits DEF TypeOK, CallsKnow, SlotsAccounted, EntriesIntact, SweepsKnow, Adding, Removing, Having, Sweeping
<1>6. SweepsKnow'
  BY DEF TypeOK, SweepsKnow, Sweeping
<1> QED
  BY <1>1, <1>2, <1>3, <1>4, <1>5, <1>6

(* len counts a word. *)
LEMMA CountWordInv ==
    ASSUME IndInv, NEW t \in Thread, CountWord(t) PROVE IndInv'
<1> USE DEF IndInv, CountWord, Continue, Goto, Word, sweep
<1>1. TypeOK'
  BY CapacityAssumption DEF TypeOK, Sweeping, CallsKnow
<1>2. SlotsAccounted'
  BY DEF TypeOK, SlotsAccounted, Adding, Removing, Having, CallsKnow
<1>3. EntriesIntact'
  BY DEF TypeOK, EntriesIntact, SlotsAccounted, CallsKnow, Adding, Removing, Having
<1>4. SweepsSound'
  \* What stays occupied in the word is counted with it.
  <2> SUFFICES ASSUME NEW u \in Thread, pc[u] \in Sweeping
               PROVE  /\ seen'[u] \subseteq ever[u]
                      /\ \A s \in steady[u] : s < slot'[u] => s \in seen'[u]
    BY DEF TypeOK, SweepsSound, Sweeping
  <2>1. CASE u # t
    BY <2>1 DEF TypeOK, SweepsSound
  <2>2. CASE u = t
    <3>1. seen'[t] = seen[t] \union Word(slot[t]) /\ slot'[t] = slot[t] + WordBits
      BY DEF TypeOK
    <3>2. PICK k \in Nat : slot[t] = k * WordBits
      BY DEF CallsKnow
    <3>3. ASSUME NEW s \in steady[t], s < slot'[t] PROVE s \in seen'[t]
      <4>1. s \in Slot /\ s \in Nat /\ s \in occupied /\ slot[t] \in Nat
        BY CapacityAssumption DEF TypeOK, SweepsKnow, Slot
      <4>2. CASE s < slot[t]
        BY <2>2, <3>1, <4>2 DEF SweepsSound
      <4>3. CASE s >= slot[t]
        <5>1. s \div WordBits = slot[t] \div WordBits
          BY <3>1, <3>2, <3>3, <4>1, <4>3, WordStart
        <5> QED
          BY <3>1, <4>1, <5>1 DEF WordOf
      <4> QED
        BY <4>1, <4>2, <4>3
    <3> QED
      BY <2>2, <3>1, <3>3 DEF SweepsSound, SweepsKnow
  <2> QED
    BY <2>1, <2>2
<1>5. CallsKnow'
  <2>1. \E k \in Nat : slot'[t] = k * WordBits
    <3>1. PICK k \in Nat : slot[t] = k * WordBits
      BY DEF CallsKnow
    <3>2. slot'[t] = (k + 1) * WordBits /\ k + 1 \in Nat
      BY <3>1, CapacityAssumption DEF TypeOK
    <3> QED
      BY <3>2
  <2> QED
    BY <2>1 DEF TypeOK, CallsKnow, SlotsAccounted, EntriesIntact, SweepsKnow, Adding, Removing, Having, Sweeping
<1>6. SweepsKnow'
  BY DEF TypeOK, SweepsKnow, Sweeping
<1> QED
  BY <1>1, <1>2, <1>3, <1>4, <1>5, <1>6

(* for_each or len returns. *)
LEMMA SweepReturnInv ==
    ASSUME IndInv, NEW t \in Thread, SweepReturn(t) PROVE IndInv'
<1> USE DEF IndInv, SweepReturn, Goto, Return, sweep
<1>1. TypeOK'
  BY DEF TypeOK, Sweeping, CallsKnow
<1>2. SlotsAccounted'
  BY DEF TypeOK, SlotsAccounted, Adding, Removing, Having, CallsKnow
<1>3. EntriesIntact'
  BY DEF TypeOK, EntriesIntact, SlotsAccounted, CallsKnow, Adding, Removing, Having
<1>4. SweepsSound'
  BY DEF TypeOK, SweepsSound, CallsKnow, SweepsKnow, Sweeping, Slot
<1>5. CallsKnow'
  BY DEF TypeOK, CallsKnow, SlotsAccounted, EntriesIntact, SweepsKnow, Adding, Removing, Having, Sweeping
<1>6. SweepsKnow'
  BY DEF TypeOK, SweepsKnow, Sweeping
<1> QED
  BY <1>1, <1>2, <1>3, <1>4, <1>5, <1>6

-----------------------------------------------------------------------------
(* The inductive invariant of the container. *)
THEOREM ContainerInvariant == Spec => []IndInv
<1>1. IndInv /\ [Next]_vars => IndInv'
  <2> SUFFICES ASSUME IndInv, [Next]_vars PROVE IndInv'
    OBVIOUS
  <2>1. CASE UNCHANGED vars
    BY <2>1 DEF vars, sweep, IndInv, TypeOK, SlotsAccounted, EntriesIntact, SweepsSound, CallsKnow,
                SweepsKnow, Having, Adding, Removing, Sweeping
  <2>2. CASE Next
    BY <2>2, AllocSlotInv, AllocFailsInv, ResumeInv, StoreInv, SetLoadInv, SetCasInv, RemoveCallInv, GetTestInv, ClearLoadInv, ClearCasInv, TakeInv, FreeSlotInv, GetLoadInv, GetReturnInv, ForEachInv, EachTestInv, EachLoadInv, CountSetInv, CountWordInv, SweepReturnInv DEF Next
  <2> QED
    BY <2>1, <2>2
<1> QED
  BY <1>1, InitInv, PTL DEF Spec

(* add and remove never share a slot, lose one or leak one: no compare-exchange on a word of
   the bit set touches the bits of other slots, for any word size. *)
THEOREM SlotsAlwaysAccounted == Spec => []SlotsAccounted
BY ContainerInvariant, PTL DEF IndInv

(* Whoever sees a slot occupied finds the value that was added there, and remove returns it. *)
THEOREM EntriesAlwaysIntact == Spec => []EntriesIntact
BY ContainerInvariant, PTL DEF IndInv

(* for_each and len miss nothing that stays and report nothing that was never there. *)
THEOREM SweepsAlwaysSound == Spec => []SweepsSound
BY ContainerInvariant, PTL DEF IndInv

-----------------------------------------------------------------------------
(* The container implements SlotMap *)

(* What a thread is doing, as its caller sees it. *)
LEMMA OpOf ==
    ASSUME NEW t \in Thread
    PROVE  /\ t \in Adding => Op[t] = "adding" /\ Arg[t] = val[t]
           /\ t \in Removing => Op[t] = "removed" /\ Arg[t] = entry[slot[t]]
           /\ pc[t] = "refused" => Op[t] = "refused" /\ Arg[t] = NoValue
           /\ t \notin Having /\ pc[t] # "refused" => Op[t] = "idle" /\ Arg[t] = NoValue
BY DEF Op, Arg, Adding, Removing, Having

(* The same after a step. *)
LEMMA OpOfNext ==
    ASSUME NEW t \in Thread
    PROVE  /\ t \in Adding' => Op'[t] = "adding" /\ Arg'[t] = val'[t]
           /\ t \in Removing' => Op'[t] = "removed" /\ Arg'[t] = entry'[slot'[t]]
           /\ pc'[t] = "refused" => Op'[t] = "refused" /\ Arg'[t] = NoValue
           /\ t \notin Having' /\ pc'[t] # "refused" => Op'[t] = "idle" /\ Arg'[t] = NoValue
BY DEF Op, Arg, Adding, Removing, Having

(* A step of t that leaves the other threads where they are changes what t is doing. *)
LEMMA OpsAfter ==
    ASSUME NEW t \in Thread, NEW o, NEW v,
           \A u \in Thread \ {t} : pc'[u] = pc[u] /\ slot'[u] = slot[u] /\ val'[u] = val[u],
           \A u \in Removing \ {t} : entry'[slot[u]] = entry[slot[u]],
           Op'[t] = o, Arg'[t] = v
    PROVE  Map!Becomes(t, o, v)
<1>1. \A u \in Thread \ {t} : Op'[u] = Op[u] /\ Arg'[u] = Arg[u]
  <2> SUFFICES ASSUME NEW u \in Thread \ {t} PROVE Op'[u] = Op[u] /\ Arg'[u] = Arg[u]
    OBVIOUS
  <2>1. /\ u \in Adding <=> u \in Adding'
        /\ u \in Removing <=> u \in Removing'
    BY DEF Adding, Removing
  <2> QED
    BY <2>1, OpOf, OpOfNext DEF Having
<1>2. Op' = [Op EXCEPT ![t] = o]
  <2>1. Op = [u \in Thread |-> Op[u]] /\ Op' = [u \in Thread |-> Op'[u]]
    BY DEF Op
  <2> QED
    BY <1>1, <2>1
<1>3. Arg' = [Arg EXCEPT ![t] = v]
  <2>1. Arg = [u \in Thread |-> Arg[u]] /\ Arg' = [u \in Thread |-> Arg'[u]]
    BY DEF Arg
  <2> QED
    BY <1>1, <2>1
<1> QED
  BY <1>2, <1>3 DEF Map!Becomes

(* SlotMap counts as FiniteSets does. *)
LEMMA SameCount == ASSUME NEW S PROVE Map!Cardinality(S) = Cardinality(S)
BY Zenon DEF Map!Cardinality, Cardinality

(* The slots that are not free are counted by the entries and the calls in progress. *)
LEMMA SlotsCounted ==
    ASSUME IndInv
    PROVE  /\ Map!Used = occupied /\ Map!Busy = Having
           /\ Cardinality(free) \in Nat
           /\ Cardinality(occupied) + Cardinality(Having) = Capacity - Cardinality(free)
<1>1. Map!Used = occupied
  <2>1. \A s \in Slot : Entries[s] # NoValue <=> s \in occupied
    BY ValueAssumption DEF IndInv, EntriesIntact, Entries
  <2>2. Map!Used = {s \in Slot : Entries[s] # NoValue}
    BY DEF Map!Used, Map!Slot, Slot
  <2>3. occupied \subseteq Slot
    BY DEF IndInv, TypeOK
  <2> QED
    BY <2>1, <2>2, <2>3
<1>2. Map!Busy = Having
  <2> SUFFICES ASSUME NEW t \in Thread
               PROVE  Op[t] \in {"adding", "removed"} <=> t \in Having
    BY DEF Map!Busy, Having, Adding, Removing
  <2> QED
    BY OpOf DEF Having
<1>3. IsFiniteSet(Slot) /\ Cardinality(Slot) = Capacity
  BY FS_Interval, CapacityAssumption DEF Slot
<1>4. IsFiniteSet(Having)
  BY FS_Subset, ThreadAssumption DEF Having, Adding, Removing
<1> DEFINE H == {slot[t] : t \in Having}
<1>5. H \subseteq Slot
  BY DEF IndInv, CallsKnow, Having, Adding, Removing
<1>6. IsFiniteSet(H) /\ Cardinality(H) = Cardinality(Having)
  <2> DEFINE f == [t \in Having |-> slot[t]]
  <2>1. f \in Bijection(Having, H)
    BY DEF IndInv, SlotsAccounted, Bijection, Injection, Surjection, IsInjective
  <2>2. ExistsBijection(Having, H)
    BY <2>1 DEF ExistsBijection
  <2> QED
    BY <1>4, <2>2, FS_Bijection
<1>7. IsFiniteSet(free) /\ IsFiniteSet(occupied)
  BY <1>3, FS_Subset DEF IndInv, TypeOK
<1>8. /\ free \union (occupied \union H) = Slot
      /\ free \intersect (occupied \union H) = {}
      /\ occupied \intersect H = {}
  BY DEF IndInv, SlotsAccounted
<1> HIDE DEF H
<1>9. IsFiniteSet(occupied \union H)
      /\ Cardinality(occupied \union H) = Cardinality(occupied) + Cardinality(H) - Cardinality(occupied \intersect H)
  BY <1>6, <1>7, FS_Union
<1>10. Cardinality(Slot) = Cardinality(free) + Cardinality(occupied \union H) - Cardinality(free \intersect (occupied \union H))
  BY <1>7, <1>8, <1>9, FS_Union
<1>11. Cardinality(occupied \intersect H) = 0 /\ Cardinality(free \intersect (occupied \union H)) = 0
  BY <1>8, FS_EmptySet
<1>12. Cardinality(free) \in Nat /\ Cardinality(occupied) \in Nat /\ Cardinality(H) \in Nat
  BY <1>6, <1>7, FS_CardinalityType
<1>13. Cardinality(occupied \union H) = Cardinality(occupied) + Cardinality(H)
  BY <1>9, <1>11, <1>12
<1>14. Capacity = Cardinality(free) + (Cardinality(occupied) + Cardinality(H))
  BY <1>3, <1>10, <1>11, <1>12, <1>13
<1> QED
  BY <1>1, <1>2, <1>6, <1>12, <1>14

(* The steps at which a caller sees something happen. *)
LEMMA VisibleSteps ==
    ASSUME IndInv, IndInv', NEW t \in Thread,
           \/ \E s \in Slot, v \in Value : AllocSlot(t, s, v)
           \/ AllocFails(t) \/ Resume(t) \/ SetCas(t) \/ ClearCas(t) \/ FreeSlot(t)
    PROVE  Map!Next
<1> USE DEF IndInv
<1>1. ASSUME NEW s \in Slot, NEW v \in Value, AllocSlot(t, s, v) PROVE Map!Next
  <2>1. t \notin Having /\ t \in Adding' /\ val'[t] = v /\ pc[t] # "refused"
    BY <1>1 DEF AllocSlot, Goto, Having, Adding, Removing, TypeOK
  <2>2. \A u \in Removing \ {t} : entry'[slot[u]] = entry[slot[u]]
    BY <1>1 DEF AllocSlot, SlotsAccounted, Having, CallsKnow, Removing, TypeOK
  <2>3. Op[t] = "idle" /\ Op'[t] = "adding" /\ Arg'[t] = v
    BY <2>1, OpOf, OpOfNext
  <2>4. Map!Becomes(t, "adding", v)
    BY <1>1, <2>2, <2>3, OpsAfter DEF AllocSlot, Goto, TypeOK
  <2>5. Cardinality(free) # 0
    <3>1. IsFiniteSet(free) /\ free # {}
      <4>1. IsFiniteSet(Slot) /\ free \subseteq Slot
        BY FS_Interval, CapacityAssumption DEF TypeOK, Slot
      <4> QED
        BY <1>1, <4>1, FS_Subset DEF AllocSlot
    <3> QED
      BY <3>1, FS_EmptySet
  <2>6. Cardinality(Map!Used) + Cardinality(Map!Busy) < Capacity
    BY <2>5, SlotsCounted, CapacityAssumption
  <2>7. UNCHANGED Entries
    BY <1>1 DEF AllocSlot, Entries
  <2> QED
    BY <2>3, <2>4, <2>6, <2>7, SameCount DEF Map!Next, Map!AddBegins
<1>2. CASE AllocFails(t)
  <2>1. t \notin Having /\ pc'[t] = "refused" /\ pc[t] # "refused" /\ UNCHANGED Entries
    BY <1>2 DEF AllocFails, Goto, Having, Adding, Removing, TypeOK, Entries
  <2>2. Op[t] = "idle" /\ Op'[t] = "refused" /\ Arg'[t] = NoValue
    BY <2>1, OpOf, OpOfNext
  <2>3. Map!Becomes(t, "refused", NoValue)
    BY <1>2, <2>2, OpsAfter DEF AllocFails, Goto, TypeOK
  <2>4. Cardinality(free) = 0
    BY <1>2, FS_EmptySet DEF AllocFails
  <2>5. Cardinality(Map!Used) + Cardinality(Map!Busy) >= Capacity
    BY <2>4, SlotsCounted, CapacityAssumption
  <2> QED
    BY <2>1, <2>2, <2>3, <2>5, SameCount DEF Map!Next, Map!AddRefused
<1>3. CASE Resume(t)
  <2>1. t \notin Having' /\ pc[t] = "refused" /\ pc'[t] # "refused" /\ UNCHANGED Entries
    BY <1>3 DEF Resume, Goto, Having, Adding, Removing, TypeOK, Entries
  <2>2. Op[t] = "refused" /\ Op'[t] = "idle" /\ Arg'[t] = NoValue
    BY <2>1, OpOf, OpOfNext
  <2>3. Map!Becomes(t, "idle", NoValue)
    BY <1>3, <2>2, OpsAfter DEF Resume, Goto, TypeOK
  <2> QED
    BY <2>1, <2>2, <2>3 DEF Map!Next, Map!Resumes
<1>4. CASE SetCas(t)
  <2>1. t \notin Having' /\ t \in Adding /\ pc'[t] # "refused"
    BY <1>4 DEF SetCas, Return, Goto, Having, Adding, Removing, TypeOK
  <2>2. Op[t] = "adding" /\ Arg[t] = val[t] /\ Op'[t] = "idle" /\ Arg'[t] = NoValue
    BY <2>1, OpOf, OpOfNext
  <2>3. Map!Becomes(t, "idle", NoValue)
    BY <1>4, <2>2, OpsAfter DEF SetCas, Return, Goto, TypeOK
  <2>4. slot[t] \in Slot /\ slot[t] \notin occupied /\ data[slot[t]] = val[t]
    BY <1>4, <2>1 DEF SetCas, CallsKnow, SlotsAccounted, Having
  <2>5. occupied' = occupied \union {slot[t]} /\ data' = data
    BY <1>4, SetCasAdds DEF SetCas
  <2>6. Entries' = [Entries EXCEPT ![slot[t]] = Arg[t]]
    BY <2>2, <2>4, <2>5 DEF Entries
  <2>7. Entries[slot[t]] = NoValue
    BY <2>4 DEF Entries
  <2> QED
    BY <2>2, <2>3, <2>4, <2>6, <2>7 DEF Map!Next, Map!AddTakesEffect, Map!Slot, Slot
<1>5. CASE ClearCas(t)
  <2>1. t \in Removing' /\ t \notin Having /\ pc[t] # "refused"
    BY <1>5 DEF ClearCas, Goto, Having, Adding, Removing, TypeOK
  <2>2. slot[t] \in Slot /\ slot[t] \in occupied /\ occupied' = occupied \ {slot[t]} /\ data' = data
    BY <1>5, ClearCasRemoves DEF ClearCas, CallsKnow
  <2>3. data[slot[t]] = entry[slot[t]] /\ entry[slot[t]] \in Value
    BY <2>2 DEF EntriesIntact
  <2>4. Op[t] = "idle" /\ Op'[t] = "removed" /\ Arg'[t] = entry[slot[t]]
    BY <1>5, <2>1, OpOf, OpOfNext DEF ClearCas
  <2>5. Map!Becomes(t, "removed", entry[slot[t]])
    BY <1>5, <2>4, OpsAfter DEF ClearCas, Goto, TypeOK
  <2>6. Entries' = [Entries EXCEPT ![slot[t]] = NoValue]
    BY <2>2 DEF Entries
  <2>7. Entries[slot[t]] = entry[slot[t]] /\ entry[slot[t]] # NoValue
    BY <2>2, <2>3, ValueAssumption DEF Entries
  <2> QED
    BY <2>2, <2>4, <2>5, <2>6, <2>7 DEF Map!Next, Map!RemoveTakesEffect, Map!Slot, Slot
<1>6. CASE FreeSlot(t)
  <2>1. t \in Removing /\ t \notin Having' /\ pc'[t] # "refused" /\ UNCHANGED Entries
    BY <1>6 DEF FreeSlot, Return, Goto, Having, Adding, Removing, TypeOK, Entries
  <2>2. Op[t] = "removed" /\ Op'[t] = "idle" /\ Arg'[t] = NoValue
    BY <2>1, OpOf, OpOfNext
  <2>3. Map!Becomes(t, "idle", NoValue)
    BY <1>6, <2>2, OpsAfter DEF FreeSlot, Return, Goto, TypeOK
  <2> QED
    BY <2>1, <2>2, <2>3 DEF Map!Next, Map!RemoveReturns
<1> QED
  BY <1>1, <1>2, <1>3, <1>4, <1>5, <1>6

(* The steps a caller does not see. *)
LEMMA InvisibleSteps ==
    ASSUME IndInv, NEW t \in Thread,
           \/ Store(t) \/ SetLoad(t) \/ ClearLoad(t) \/ Take(t) \/ GetLoad(t) \/ GetReturn(t)
           \/ \E s \in Slot : RemoveCall(t, s) \/ GetTest(t, s)
           \/ ForEach(t) \/ EachTest(t) \/ EachLoad(t)
           \/ CountSet(t) \/ CountWord(t) \/ SweepReturn(t)
    PROVE  UNCHANGED <<Entries, Op, Arg>>
<1> USE DEF IndInv
<1>1. /\ UNCHANGED <<occupied, entry>>
      /\ \A s \in occupied : data'[s] = data[s]
  BY DEF Store, SetLoad, ClearLoad, Take, GetLoad, GetReturn, RemoveCall, GetTest, ForEach, EachTest,
         EachLoad, CountSet, CountWord, SweepReturn, StartSweep, TypeOK, SlotsAccounted, Having, Adding
<1>2. \A u \in Thread \ {t} : pc'[u] = pc[u] /\ slot'[u] = slot[u] /\ val'[u] = val[u]
  BY DEF Store, SetLoad, ClearLoad, Take, GetLoad, GetReturn, RemoveCall, GetTest, ForEach, EachTest,
         EachLoad, CountSet, CountWord, SweepReturn, StartSweep, TypeOK, Goto, Return, Continue
<1>3. Op'[t] = Op[t] /\ Arg'[t] = Arg[t]
  <2>1. CASE t \in Adding
    <3>1. t \in Adding' /\ val'[t] = val[t]
      BY <2>1 DEF Adding, Store, SetLoad, ClearLoad, Take, GetLoad, GetReturn, RemoveCall, GetTest,
              ForEach, EachTest, EachLoad, CountSet, CountWord, SweepReturn, StartSweep, TypeOK, Goto,
              SlotsAccounted, Having
    <3> QED
      BY <2>1, <3>1, OpOf, OpOfNext
  <2>2. CASE t \in Removing
    <3>1. t \in Removing' /\ slot'[t] = slot[t]
      BY <2>2 DEF Removing, Store, SetLoad, ClearLoad, Take, GetLoad, GetReturn, RemoveCall, GetTest,
              ForEach, EachTest, EachLoad, CountSet, CountWord, SweepReturn, StartSweep, TypeOK, Goto
    <3> QED
      BY <1>1, <2>2, <3>1, OpOf, OpOfNext
  <2>3. CASE t \notin Having
    <3>1. t \notin Having' /\ pc[t] # "refused" /\ pc'[t] # "refused"
      BY <2>3 DEF Having, Adding, Removing, Store, SetLoad, ClearLoad, Take, GetLoad, GetReturn,
              RemoveCall, GetTest, ForEach, EachTest, EachLoad, CountSet, CountWord, SweepReturn,
              StartSweep, TypeOK, Goto, Return
    <3> QED
      BY <2>3, <3>1, OpOf, OpOfNext
  <2> QED
    BY <2>1, <2>2, <2>3 DEF Having
<1>4. Map!Becomes(t, Op[t], Arg[t])
  BY <1>1, <1>2, <1>3, OpsAfter
<1>5. Entries' = Entries
  BY <1>1 DEF Entries
<1> QED
  BY <1>4, <1>5 DEF Map!Becomes, Op, Arg

(* add and remove are linearizable: the bit set, the value words and the free list together
   implement the map from slots to values. *)
THEOREM ContainerImplementsSlotMap == Spec => ImplementsSlotMap
<1>1. Init => Map!Init
  <2> SUFFICES ASSUME Init PROVE Map!Init
    OBVIOUS
  <2>1. \A t \in Thread : Op[t] = "idle" /\ Arg[t] = NoValue
    BY OpOf DEF Init, Having, Adding, Removing
  <2>2. Entries = [s \in Map!Slot |-> NoValue]
    BY DEF Init, Entries, Slot, Map!Slot
  <2>3. Op = [t \in Thread |-> "idle"] /\ Arg = [t \in Thread |-> NoValue]
    BY <2>1 DEF Op, Arg
  <2> QED
    BY <2>2, <2>3 DEF Map!Init
<1>2. IndInv /\ IndInv' /\ [Next]_vars => [Map!Next]_(Map!vars)
  <2> SUFFICES ASSUME IndInv, IndInv', [Next]_vars
               PROVE  Map!Next \/ UNCHANGED <<Entries, Op, Arg>>
    BY DEF Map!vars
  <2>1. CASE UNCHANGED vars
    BY <2>1 DEF vars, Entries, Op, Arg, Adding, Removing
  <2>2. CASE Next
    BY <2>2, VisibleSteps, InvisibleSteps DEF Next
  <2> QED
    BY <2>1, <2>2
<1> QED
  BY <1>1, <1>2, ContainerInvariant, PTL DEF Spec, ImplementsSlotMap, Map!Spec
=============================================================================
