----------------------- MODULE UniqueIndexSet_proofs -----------------------
(***************************************************************************)
(* Safety of the free list for every set of threads, capacity and tag      *)
(* width, provided no thread is overtaken by TagMod successful CASes       *)
(* between its load of the head and its CAS (TagAssumption).               *)
(***************************************************************************)
EXTENDS UniqueIndexSet, FiniteSetTheorems, TLAPS

(* What popping the first element does to a sequence. *)
LEMMA PopFacts ==
    ASSUME NEW S, NEW s \in Seq(S), s # <<>>
    PROVE  /\ Tail(s) \in Seq(S)
           /\ Len(Tail(s)) = Len(s) - 1
           /\ \A k \in 1 .. Len(s) - 1 : Tail(s)[k] = s[k + 1]
  OBVIOUS

(* What pushing an element in front does to a sequence. *)
LEMMA PushFacts ==
    ASSUME NEW S, NEW s \in Seq(S), NEW e \in S
    PROVE  /\ <<e>> \o s \in Seq(S)
           /\ Len(<<e>> \o s) = Len(s) + 1
           /\ (<<e>> \o s)[1] = e
           /\ \A k \in 1 .. Len(s) : (<<e>> \o s)[k + 1] = s[k]
  OBVIOUS

(* Popping the first free slot takes it, and nothing else, out of the free ones. *)
LEMMA FreeAfterPop ==
    ASSUME IndInv, stack # <<>>, stack' = Tail(stack)
    PROVE  stack[1] \in Index /\ stack[1] \in Free /\ Free' = Free \ {stack[1]}
<1>1. /\ Len(stack) \in Nat /\ Len(stack) > 0
      /\ \A k \in 1 .. Len(stack) : stack[k] \in Index
  BY DEF IndInv, TypeOK
<1>2. /\ Len(stack') = Len(stack) - 1
      /\ \A k \in 1 .. Len(stack) - 1 : stack'[k] = stack[k + 1]
  BY PopFacts DEF IndInv, TypeOK
<1>3. \A k \in 2 .. Len(stack) : stack[k] # stack[1]
  BY <1>1 DEF IndInv, NoIndexLost
<1>4. \A k \in 2 .. Len(stack) : k - 1 \in 1 .. Len(stack) - 1 /\ stack'[k - 1] = stack[k]
  BY <1>1, <1>2
<1>5. Free' = Free \ {stack[1]}
  BY <1>1, <1>2, <1>3, <1>4 DEF Free
<1>6. QED
  BY <1>1, <1>5 DEF Free

(* Pushing a slot adds it, and nothing else, to the free ones. *)
LEMMA FreeAfterPush ==
    ASSUME IndInv, NEW e \in Index, stack' = <<e>> \o stack
    PROVE  Free' = Free \union {e}
<1>1. /\ Len(stack) \in Nat /\ Len(stack') = Len(stack) + 1
      /\ stack' \in Seq(Index) /\ stack'[1] = e
      /\ \A k \in 1 .. Len(stack) : stack'[k + 1] = stack[k]
  BY PushFacts DEF IndInv, TypeOK
<1>2. \A k \in 2 .. Len(stack') : k - 1 \in 1 .. Len(stack) /\ stack'[k] = stack[k - 1]
  BY <1>1
<1>3. QED
  BY <1>1, <1>2 DEF Free

(* A thread whose CAS finds the head word unchanged was overtaken by nobody:
   the tag tells the difference as long as lag < TagMod. *)
LEMMA CasMeansCurrent ==
    ASSUME IndInv, NEW t \in Thread, pc[t] \in Window, head = old[t]
    PROVE  lag[t] = 0
  BY TagAssumption DEF IndInv, TypeOK, Windows, HeadWord, Tag

(* The values the locals take when they go out of scope, and the tag's successor,
   are well typed. *)
LEMMA WellTyped ==
    /\ NoHead \in HeadWord
    /\ SENTINEL \in Link /\ SENTINEL \notin Index
    /\ 0 \in 0 .. MaxOvertake
    /\ \A x \in Tag : TagSucc(x) \in Tag
  BY CapacityAssumption, TagAssumption
     DEF NoHead, HeadWord, Link, Index, SENTINEL, Tag, TagSucc

(* A step that moves no index keeps the account of the indices. *)
LEMMA SameHoldings ==
    ASSUME NoIndexLost, Holders' = Holders, UNCHANGED <<slot, owned, stack>>
    PROVE  NoIndexLost'
<1>1. InFlight' = InFlight
  BY DEF InFlight
<1>2. Free' = Free
  BY DEF Free
<1>3. QED
  BY <1>1, <1>2 DEF NoIndexLost

(* A step that neither counts nor moves an owned index keeps the counter exact. *)
LEMMA SameCount ==
    ASSUME BorrowedAccounts, UNCHANGED <<borrowed, owned>>,
           \A t \in Thread : pc'[t] \in Releasing \union {"rCount"}
                             <=> pc[t] \in Releasing \union {"rCount"}
    PROVE  BorrowedAccounts'
  BY DEF BorrowedAccounts

(* The threads that are releasing are finitely many, and so are the owned indices. *)
LEMMA FiniteCounts ==
    ASSUME TypeOK
    PROVE  /\ IsFiniteSet(owned) /\ Cardinality(owned) \in Nat
           /\ IsFiniteSet({t \in Thread : pc[t] \in Releasing \union {"rCount"}})
           /\ Cardinality({t \in Thread : pc[t] \in Releasing \union {"rCount"}}) \in Nat
<1>1. IsFiniteSet(Index)
  BY FS_Interval, CapacityAssumption DEF Index
<1>2. IsFiniteSet(owned) /\ Cardinality(owned) \in Nat
  BY <1>1, FS_Subset, FS_CardinalityType DEF TypeOK
<1> DEFINE R == {t \in Thread : pc[t] \in Releasing \union {"rCount"}}
<1>3. R \in SUBSET Thread
  OBVIOUS
<1>4. IsFiniteSet(R) /\ Cardinality(R) \in Nat
  BY <1>3, ThreadAssumption, FS_Subset, FS_CardinalityType
<1>5. QED
  BY <1>2, <1>4

(* AcquireCall keeps the invariant. *)
LEMMA AcquireCallInv ==
    ASSUME IndInv, NEW t \in Thread, AcquireCall(t)
    PROVE  IndInv'
<1>1. TypeOK'
  BY WellTyped, CapacityAssumption DEF IndInv, TypeOK, AcquireCall, Goto, HeadWord, Link, PC, Between, Acquiring, Releasing, Window
<1>2. UniqueIndices'
  BY DEF IndInv, TypeOK, UniqueIndices, Holders, AcquireCall, Goto, PC, Between, Acquiring, Releasing, Window
<1>3. NoIndexLost'
  <2>1. Holders' = Holders
    BY DEF IndInv, TypeOK, Holders, AcquireCall, Goto, PC, Between, Acquiring, Releasing, Window
  <2>2. QED
    BY <2>1, SameHoldings DEF IndInv, AcquireCall
<1>4. FreeListIntact'
  BY DEF IndInv, TypeOK, FreeListIntact, AcquireCall, Goto
<1>5. BorrowedAccounts'
  BY SameCount DEF IndInv, TypeOK, AcquireCall, Goto, PC, Between, Acquiring, Releasing, Window
<1>6. Windows'
  BY TagAssumption DEF IndInv, TypeOK, Windows, AcquireCall, Goto, HeadWord, Tag, PC, Between, Acquiring, Releasing, Window
<1>7. QED
  BY <1>1, <1>2, <1>3, <1>4, <1>5, <1>6 DEF IndInv

(* AcquireLoad keeps the invariant. *)
LEMMA AcquireLoadInv ==
    ASSUME IndInv, NEW t \in Thread, AcquireLoad(t)
    PROVE  IndInv'
<1>1. TypeOK'
  <2>1. pc' \in [Thread -> PC]
    BY DEF IndInv, TypeOK, AcquireLoad, Goto, LoopAcquire, TakeHead, PC, Between, Acquiring, Releasing, Window
  <2>2. old' \in [Thread -> HeadWord]
    BY WellTyped DEF IndInv, TypeOK, AcquireLoad, Goto, LoopAcquire, TakeHead
  <2>3. lag' \in [Thread -> 0 .. MaxOvertake] /\ nxt' \in [Thread -> Link]
    BY WellTyped, TagAssumption DEF IndInv, TypeOK, AcquireLoad, Goto, LoopAcquire, TakeHead
  <2>4. QED
    BY <2>1, <2>2, <2>3 DEF IndInv, TypeOK, AcquireLoad
<1>2. UniqueIndices'
  BY DEF IndInv, TypeOK, UniqueIndices, Holders, AcquireLoad, Goto, LoopAcquire, TakeHead, PC, Between, Acquiring, Releasing, Window
<1>3. NoIndexLost'
  <2>1. Holders' = Holders
    BY DEF IndInv, TypeOK, Holders, AcquireLoad, Goto, LoopAcquire, TakeHead, PC, Between, Acquiring, Releasing, Window
  <2>2. QED
    BY <2>1, SameHoldings DEF IndInv, AcquireLoad
<1>4. FreeListIntact'
  BY DEF IndInv, TypeOK, FreeListIntact, AcquireLoad, Goto, LoopAcquire, TakeHead
<1>5. BorrowedAccounts'
  BY SameCount DEF IndInv, TypeOK, AcquireLoad, Goto, LoopAcquire, TakeHead, PC, Between, Acquiring, Releasing, Window
<1>6. Windows'
  <2>1. CASE head.idx = SENTINEL
    <3>1. pc'[t] = "failed" /\ UNCHANGED <<head, next, slot>>
      BY <2>1 DEF IndInv, TypeOK, AcquireLoad, Goto, LoopAcquire, TakeHead
    <3>2. \A u \in Thread \ {t} : UNCHANGED <<pc[u], old[u], lag[u], nxt[u]>>
      BY <2>1 DEF IndInv, TypeOK, AcquireLoad, Goto, LoopAcquire, TakeHead
    <3>3. QED
      BY <3>1, <3>2 DEF IndInv, Windows, Window
  <2>2. CASE head.idx # SENTINEL
    <3>1. pc'[t] = "aNext" /\ old'[t] = head /\ lag'[t] = 0 /\ UNCHANGED <<head, next, slot>>
      BY <2>2 DEF IndInv, TypeOK, AcquireLoad, Goto, LoopAcquire, TakeHead
    <3>2. \A u \in Thread \ {t} : UNCHANGED <<pc[u], old[u], lag[u], nxt[u]>>
      BY <2>2 DEF IndInv, TypeOK, AcquireLoad, Goto, LoopAcquire, TakeHead
    <3>3. head.tag \in Tag
      BY DEF IndInv, TypeOK, HeadWord
    <3>4. QED
      BY <2>2, <3>1, <3>2, <3>3, TagAssumption DEF IndInv, Windows, Window, Tag
  <2>3. QED
    BY <2>1, <2>2
<1>7. QED
  BY <1>1, <1>2, <1>3, <1>4, <1>5, <1>6 DEF IndInv

(* AcquireNext keeps the invariant. *)
LEMMA AcquireNextInv ==
    ASSUME IndInv, NEW t \in Thread, AcquireNext(t)
    PROVE  IndInv'
<1>1. TypeOK'
  BY WellTyped, CapacityAssumption DEF IndInv, TypeOK, Windows, AcquireNext, Goto, HeadWord, Link, PC, Between, Acquiring, Releasing, Window
<1>2. UniqueIndices'
  BY DEF IndInv, TypeOK, UniqueIndices, Holders, AcquireNext, Goto, PC, Between, Acquiring, Releasing, Window
<1>3. NoIndexLost'
  <2>1. Holders' = Holders
    BY DEF IndInv, TypeOK, Holders, AcquireNext, Goto, PC, Between, Acquiring, Releasing, Window
  <2>2. QED
    BY <2>1, SameHoldings DEF IndInv, AcquireNext
<1>4. FreeListIntact'
  BY DEF IndInv, TypeOK, FreeListIntact, AcquireNext, Goto
<1>5. BorrowedAccounts'
  BY SameCount DEF IndInv, TypeOK, AcquireNext, Goto, PC, Between, Acquiring, Releasing, Window
<1>6. Windows'
  BY TagAssumption DEF IndInv, TypeOK, Windows, AcquireNext, Goto, HeadWord, Tag, PC, Between, Acquiring, Releasing, Window
<1>7. QED
  BY <1>1, <1>2, <1>3, <1>4, <1>5, <1>6 DEF IndInv

(* AcquireRetry keeps the invariant. *)
LEMMA AcquireRetryInv ==
    ASSUME IndInv, NEW t \in Thread, AcquireRetry(t)
    PROVE  IndInv'
<1>1. TypeOK'
  <2>1. pc' \in [Thread -> PC]
    BY DEF IndInv, TypeOK, AcquireRetry, Goto, LoopAcquire, TakeHead, PC, Between, Acquiring, Releasing, Window
  <2>2. old' \in [Thread -> HeadWord]
    BY WellTyped DEF IndInv, TypeOK, AcquireRetry, Goto, LoopAcquire, TakeHead
  <2>3. lag' \in [Thread -> 0 .. MaxOvertake] /\ nxt' \in [Thread -> Link]
    BY WellTyped, TagAssumption DEF IndInv, TypeOK, AcquireRetry, Goto, LoopAcquire, TakeHead
  <2>4. QED
    BY <2>1, <2>2, <2>3 DEF IndInv, TypeOK, AcquireRetry
<1>2. UniqueIndices'
  BY DEF IndInv, TypeOK, UniqueIndices, Holders, AcquireRetry, Goto, LoopAcquire, TakeHead, PC, Between, Acquiring, Releasing, Window
<1>3. NoIndexLost'
  <2>1. Holders' = Holders
    BY DEF IndInv, TypeOK, Holders, AcquireRetry, Goto, LoopAcquire, TakeHead, PC, Between, Acquiring, Releasing, Window
  <2>2. QED
    BY <2>1, SameHoldings DEF IndInv, AcquireRetry
<1>4. FreeListIntact'
  BY DEF IndInv, TypeOK, FreeListIntact, AcquireRetry, Goto, LoopAcquire, TakeHead
<1>5. BorrowedAccounts'
  BY SameCount DEF IndInv, TypeOK, AcquireRetry, Goto, LoopAcquire, TakeHead, PC, Between, Acquiring, Releasing, Window
<1>6. Windows'
  <2>1. CASE head.idx = SENTINEL
    <3>1. pc'[t] = "failed" /\ UNCHANGED <<head, next, slot>>
      BY <2>1 DEF IndInv, TypeOK, AcquireRetry, Goto, LoopAcquire, TakeHead
    <3>2. \A u \in Thread \ {t} : UNCHANGED <<pc[u], old[u], lag[u], nxt[u]>>
      BY <2>1 DEF IndInv, TypeOK, AcquireRetry, Goto, LoopAcquire, TakeHead
    <3>3. QED
      BY <3>1, <3>2 DEF IndInv, Windows, Window
  <2>2. CASE head.idx # SENTINEL
    <3>1. pc'[t] = "aNext" /\ old'[t] = head /\ lag'[t] = 0 /\ UNCHANGED <<head, next, slot>>
      BY <2>2 DEF IndInv, TypeOK, AcquireRetry, Goto, LoopAcquire, TakeHead
    <3>2. \A u \in Thread \ {t} : UNCHANGED <<pc[u], old[u], lag[u], nxt[u]>>
      BY <2>2 DEF IndInv, TypeOK, AcquireRetry, Goto, LoopAcquire, TakeHead
    <3>3. head.tag \in Tag
      BY DEF IndInv, TypeOK, HeadWord
    <3>4. QED
      BY <2>2, <3>1, <3>2, <3>3, TagAssumption DEF IndInv, Windows, Window, Tag
  <2>3. QED
    BY <2>1, <2>2
<1>7. QED
  BY <1>1, <1>2, <1>3, <1>4, <1>5, <1>6 DEF IndInv

(* ReleaseLoad keeps the invariant. *)
LEMMA ReleaseLoadInv ==
    ASSUME IndInv, NEW t \in Thread, ReleaseLoad(t)
    PROVE  IndInv'
<1>1. TypeOK'
  BY WellTyped, CapacityAssumption DEF IndInv, TypeOK, ReleaseLoad, Goto, TakeHead, HeadWord, Link, PC, Between, Acquiring, Releasing, Window
<1>2. UniqueIndices'
  BY DEF IndInv, TypeOK, UniqueIndices, Holders, ReleaseLoad, Goto, TakeHead, PC, Between, Acquiring, Releasing, Window
<1>3. NoIndexLost'
  <2>1. Holders' = Holders
    BY DEF IndInv, TypeOK, Holders, ReleaseLoad, Goto, TakeHead, PC, Between, Acquiring, Releasing, Window
  <2>2. QED
    BY <2>1, SameHoldings DEF IndInv, ReleaseLoad
<1>4. FreeListIntact'
  BY DEF IndInv, TypeOK, FreeListIntact, ReleaseLoad, Goto, TakeHead
<1>5. BorrowedAccounts'
  BY SameCount DEF IndInv, TypeOK, ReleaseLoad, Goto, TakeHead, PC, Between, Acquiring, Releasing, Window
<1>6. Windows'
  BY TagAssumption DEF IndInv, TypeOK, Windows, ReleaseLoad, Goto, TakeHead, HeadWord, Tag, PC, Between, Acquiring, Releasing, Window
<1>7. QED
  BY <1>1, <1>2, <1>3, <1>4, <1>5, <1>6 DEF IndInv

(* ReleaseStore keeps the invariant. *)
LEMMA ReleaseStoreInv ==
    ASSUME IndInv, NEW t \in Thread, ReleaseStore(t)
    PROVE  IndInv'
<1>1. TypeOK'
  BY WellTyped, CapacityAssumption DEF IndInv, TypeOK, UniqueIndices, Holders, ReleaseStore, Goto, HeadWord, Link, PC, Between, Acquiring, Releasing, Window
<1>2. UniqueIndices'
  BY DEF IndInv, TypeOK, UniqueIndices, Holders, ReleaseStore, Goto, PC, Between, Acquiring, Releasing, Window
<1>3. NoIndexLost'
  <2>1. Holders' = Holders
    BY DEF IndInv, TypeOK, Holders, ReleaseStore, Goto, PC, Between, Acquiring, Releasing, Window
  <2>2. QED
    BY <2>1, SameHoldings DEF IndInv, ReleaseStore
<1>4. FreeListIntact'
  <2>1. t \in Holders /\ slot[t] \in InFlight /\ slot[t] \in Index
    BY DEF IndInv, UniqueIndices, Holders, InFlight, ReleaseStore, Releasing
  <2>2. \A k \in 1 .. Len(stack) : stack[k] # slot[t]
    BY <2>1 DEF IndInv, NoIndexLost, Free
  <2>3. UNCHANGED <<head, stack>> /\ next' = [next EXCEPT ![slot[t]] = old[t].idx]
    BY DEF ReleaseStore
  <2>4. \A k \in 1 .. Len(stack) : stack[k] \in Index
    BY DEF IndInv, TypeOK
  <2>5. \A k \in 1 .. Len(stack) : next'[stack[k]] = next[stack[k]]
    BY <2>2, <2>3, <2>4 DEF IndInv, TypeOK
  <2>6. QED
    BY <2>3, <2>5 DEF IndInv, FreeListIntact
<1>5. BorrowedAccounts'
  BY SameCount DEF IndInv, TypeOK, ReleaseStore, Goto, PC, Between, Acquiring, Releasing, Window
<1>6. Windows'
  <2>1. t \in Holders /\ slot[t] \in InFlight /\ slot[t] \in Index
    BY DEF IndInv, UniqueIndices, Holders, InFlight, ReleaseStore, Releasing
  <2>2. head.idx # slot[t]
    BY <2>1, WellTyped DEF IndInv, TypeOK, NoIndexLost, FreeListIntact, Free
  <2>3. \A u \in Thread \ {t} : pc[u] = "rCas" => slot[u] # slot[t]
    BY <2>1 DEF IndInv, UniqueIndices, Holders, Releasing
  <2>4. /\ \A i \in Index : next'[i] = (IF i = slot[t] THEN old[t].idx ELSE next[i])
        /\ \A u \in Thread : pc'[u] = (IF u = t THEN "rCas" ELSE pc[u])
        /\ pc[t] = "rStore" /\ UNCHANGED <<head, old, nxt, lag, slot>>
    BY DEF IndInv, TypeOK, ReleaseStore, Goto
  <2>5. \A u \in Thread : old[u].idx \in Link /\ slot[u] \in Link
    BY DEF IndInv, TypeOK, HeadWord
  <2>6. \A u \in Thread : pc[u] \in Window /\ pc[u] = "rCas" => slot[u] \in Index
    BY DEF IndInv, UniqueIndices, Holders, Releasing
  <2>7. QED
    BY <2>1, <2>2, <2>3, <2>4, <2>5, <2>6 DEF IndInv, Windows, Window, Link
<1>7. QED
  BY <1>1, <1>2, <1>3, <1>4, <1>5, <1>6 DEF IndInv

(* ReleaseRetry keeps the invariant. *)
LEMMA ReleaseRetryInv ==
    ASSUME IndInv, NEW t \in Thread, ReleaseRetry(t)
    PROVE  IndInv'
<1>1. TypeOK'
  BY WellTyped, CapacityAssumption DEF IndInv, TypeOK, ReleaseRetry, Goto, TakeHead, HeadWord, Link, PC, Between, Acquiring, Releasing, Window
<1>2. UniqueIndices'
  BY DEF IndInv, TypeOK, UniqueIndices, Holders, ReleaseRetry, Goto, TakeHead, PC, Between, Acquiring, Releasing, Window
<1>3. NoIndexLost'
  <2>1. Holders' = Holders
    BY DEF IndInv, TypeOK, Holders, ReleaseRetry, Goto, TakeHead, PC, Between, Acquiring, Releasing, Window
  <2>2. QED
    BY <2>1, SameHoldings DEF IndInv, ReleaseRetry
<1>4. FreeListIntact'
  BY DEF IndInv, TypeOK, FreeListIntact, ReleaseRetry, Goto, TakeHead
<1>5. BorrowedAccounts'
  BY SameCount DEF IndInv, TypeOK, ReleaseRetry, Goto, TakeHead, PC, Between, Acquiring, Releasing, Window
<1>6. Windows'
  BY TagAssumption DEF IndInv, TypeOK, Windows, ReleaseRetry, Goto, TakeHead, HeadWord, Tag, PC, Between, Acquiring, Releasing, Window
<1>7. QED
  BY <1>1, <1>2, <1>3, <1>4, <1>5, <1>6 DEF IndInv

(* ReleaseCount keeps the invariant. *)
LEMMA ReleaseCountInv ==
    ASSUME IndInv, NEW t \in Thread, ReleaseCount(t)
    PROVE  IndInv'
<1> DEFINE R == {u \in Thread : pc[u] \in Releasing \union {"rCount"}}
<1>1. t \in R /\ R' = R \ {t}
  BY DEF IndInv, TypeOK, ReleaseCount, Goto, Releasing
<1>2. Cardinality(R') = Cardinality(R) - 1 /\ Cardinality(R') \in Nat
  <2>1. IsFiniteSet(R)
    BY FiniteCounts DEF IndInv
  <2>2. QED
    BY <1>1, <2>1, FS_RemoveElement, FS_CardinalityType
<1>3. BorrowedAccounts' /\ borrowed' \in Nat
  BY <1>1, <1>2, FiniteCounts DEF IndInv, BorrowedAccounts, ReleaseCount
<1>4. TypeOK'
  BY <1>3 DEF IndInv, TypeOK, ReleaseCount, Goto, PC, Between
<1>5. UniqueIndices'
  BY DEF IndInv, TypeOK, UniqueIndices, Holders, ReleaseCount, Goto, Releasing
<1>6. NoIndexLost'
  <2>1. Holders' = Holders
    BY DEF IndInv, TypeOK, Holders, ReleaseCount, Goto, Releasing
  <2>2. QED
    BY <2>1, SameHoldings DEF IndInv, ReleaseCount
<1>7. FreeListIntact'
  BY DEF IndInv, FreeListIntact, ReleaseCount
<1>8. Windows'
  BY DEF IndInv, TypeOK, Windows, ReleaseCount, Goto, Window
<1>9. QED
  BY <1>3, <1>4, <1>5, <1>6, <1>7, <1>8 DEF IndInv

(* ReleaseCall keeps the invariant. *)
LEMMA ReleaseCallInv ==
    ASSUME IndInv, NEW t \in Thread, NEW i \in owned, ReleaseCall(t, i)
    PROVE  IndInv'
<1> DEFINE R == {u \in Thread : pc[u] \in Releasing \union {"rCount"}}
<1>1. /\ t \notin R /\ R' = R \union {t}
      /\ t \notin Holders /\ Holders' = Holders \union {t}
  BY DEF IndInv, TypeOK, Holders, ReleaseCall, Goto, Releasing, Between
<1>2. slot' = [slot EXCEPT ![t] = i] /\ owned' = owned \ {i} /\ i \in Index
  BY DEF IndInv, TypeOK, ReleaseCall
<1>3. BorrowedAccounts'
  <2>1. Cardinality(R') = Cardinality(R) + 1
    BY <1>1, FiniteCounts, FS_AddElement DEF IndInv
  <2>2. Cardinality(owned') = Cardinality(owned) - 1
    BY <1>2, FiniteCounts, FS_RemoveElement DEF IndInv
  <2>3. QED
    BY <2>1, <2>2, FiniteCounts DEF IndInv, BorrowedAccounts, ReleaseCall
<1>4. TypeOK'
  BY DEF IndInv, TypeOK, ReleaseCall, Goto, PC, Releasing, Link
<1>5. UniqueIndices'
  BY <1>1, <1>2 DEF IndInv, TypeOK, UniqueIndices
<1>6. NoIndexLost'
  <2>1. \A u \in Holders : slot'[u] = slot[u]
    BY <1>1, <1>2 DEF IndInv, TypeOK, Holders
  <2>2. slot'[t] = i
    BY <1>2 DEF IndInv, TypeOK
  <2>3. InFlight' = InFlight \union {i}
    BY <1>1, <2>1, <2>2 DEF InFlight
  <2>4. stack' = stack /\ Free' = Free
    BY DEF ReleaseCall, Free
  <2>5. QED
    BY <1>2, <2>3, <2>4 DEF IndInv, NoIndexLost
<1>7. FreeListIntact'
  BY DEF IndInv, FreeListIntact, ReleaseCall
<1>8. Windows'
  BY DEF IndInv, TypeOK, Windows, ReleaseCall, Goto, Window, Between
<1>9. QED
  BY <1>3, <1>4, <1>5, <1>6, <1>7, <1>8 DEF IndInv

(* AcquireCount keeps the invariant. *)
LEMMA AcquireCountInv ==
    ASSUME IndInv, NEW t \in Thread, AcquireCount(t)
    PROVE  IndInv'
<1>1. t \in Holders /\ Holders' = Holders \ {t}
  BY DEF IndInv, TypeOK, Holders, AcquireCount, Goto, Releasing
<1>2. /\ slot[t] \in Index \ owned
      /\ slot' = [slot EXCEPT ![t] = SENTINEL] /\ owned' = owned \union {slot[t]}
  BY <1>1 DEF IndInv, UniqueIndices, AcquireCount
<1>3. BorrowedAccounts' /\ borrowed' \in Nat
  <2> DEFINE R == {u \in Thread : pc[u] \in Releasing \union {"rCount"}}
  <2>1. R' = R
    BY DEF IndInv, TypeOK, AcquireCount, Goto, Releasing
  <2>2. Cardinality(owned') = Cardinality(owned) + 1
    BY <1>2, FiniteCounts, FS_AddElement DEF IndInv
  <2>3. Cardinality(R') = Cardinality(R) /\ Cardinality(R) \in Nat /\ Cardinality(owned) \in Nat
    BY <2>1, FiniteCounts DEF IndInv
  <2>4. borrowed = Cardinality(owned) + Cardinality(R) /\ borrowed' = borrowed + 1
    BY DEF IndInv, BorrowedAccounts, AcquireCount
  <2>5. QED
    BY <2>2, <2>3, <2>4 DEF BorrowedAccounts
<1>4. TypeOK'
  BY <1>2, <1>3, WellTyped DEF IndInv, TypeOK, AcquireCount, Goto, PC, Between
<1>5. UniqueIndices'
  BY <1>1, <1>2 DEF IndInv, TypeOK, UniqueIndices, Holders
<1>6. NoIndexLost'
  <2>1. \A u \in Holders \ {t} : slot'[u] = slot[u] /\ slot[u] # slot[t]
    BY <1>1, <1>2 DEF IndInv, TypeOK, UniqueIndices, Holders
  <2>2. InFlight' = InFlight \ {slot[t]} /\ slot[t] \in InFlight
    BY <1>1, <2>1 DEF InFlight
  <2>3. stack' = stack /\ Free' = Free
    BY DEF AcquireCount, Free
  <2>4. QED
    BY <1>2, <2>2, <2>3 DEF IndInv, NoIndexLost
<1>7. FreeListIntact'
  BY DEF IndInv, FreeListIntact, AcquireCount
<1>8. Windows'
  BY DEF IndInv, TypeOK, Windows, AcquireCount, Goto, Window
<1>9. QED
  BY <1>3, <1>4, <1>5, <1>6, <1>7, <1>8 DEF IndInv

(* What every thread other than t knows in its window survives a CAS of t: it has
   been overtaken once more, and the tag has advanced by one. *)
LEMMA OvertakenWindows ==
    ASSUME IndInv, NEW t \in Thread, NEW new, CasSucceeds(t, new),
           new.tag = TagSucc(head.tag), pc'[t] \notin Window,
           next' = next,
           \A u \in Thread \ {t} : pc'[u] = pc[u] /\ nxt'[u] = nxt[u] /\ slot'[u] = slot[u]
    PROVE  Windows'
<1> SUFFICES ASSUME NEW u \in Thread, pc'[u] \in Window
             PROVE  /\ lag'[u] = 0 => old'[u] = head'
                    /\ head'.tag = (IF old'[u].tag + lag'[u] < TagMod THEN old'[u].tag + lag'[u]
                                    ELSE old'[u].tag + lag'[u] - TagMod)
                    /\ pc'[u] \in {"aNext", "aCas"} => old'[u].idx # SENTINEL
                    /\ pc'[u] = "aCas" /\ lag'[u] = 0 => nxt'[u] = next'[old'[u].idx]
                    /\ pc'[u] = "rCas" => next'[slot'[u]] = old'[u].idx
  BY DEF Windows
<1>1. u # t /\ pc[u] \in Window
  OBVIOUS
<1>2. old'[u] = old[u] /\ lag'[u] = lag[u] + 1 /\ head' = new /\ lag[u] \in Nat
  BY <1>1 DEF CasSucceeds, IndInv, TypeOK
<1>3. old[u].tag \in Nat /\ old[u].tag < TagMod /\ lag[u] < MaxOvertake
  BY <1>1, TagAssumption DEF IndInv, TypeOK, HeadWord, Tag, CasSucceeds
<1>4. head.tag = (IF old[u].tag + lag[u] < TagMod THEN old[u].tag + lag[u]
                  ELSE old[u].tag + lag[u] - TagMod)
  BY <1>1 DEF IndInv, Windows
<1>5. head'.tag = (IF old'[u].tag + lag'[u] < TagMod THEN old'[u].tag + lag'[u]
                   ELSE old'[u].tag + lag'[u] - TagMod)
  BY <1>2, <1>3, <1>4, TagAssumption DEF TagSucc
<1>6. QED
  BY <1>1, <1>2, <1>5 DEF IndInv, Windows

(* AcquireCas keeps the invariant: the thread pops the slot that is first now. *)
LEMMA AcquireCasInv ==
    ASSUME IndInv, NEW t \in Thread, AcquireCas(t)
    PROVE  IndInv'
<1>1. /\ pc[t] = "aCas" /\ head = old[t] /\ lag[t] = 0
      /\ head.idx # SENTINEL /\ nxt[t] = next[head.idx]
  BY CasMeansCurrent DEF IndInv, Windows, AcquireCas, CasSucceeds, Window
<1>2. stack # <<>> /\ head.idx = stack[1] /\ Len(stack) \in Nat /\ Len(stack) > 0
  BY <1>1 DEF IndInv, TypeOK, FreeListIntact
<1>3. nxt[t] = (IF 1 = Len(stack) THEN SENTINEL ELSE stack[2])
  <2>1. 1 \in 1 .. Len(stack)
    BY <1>2
  <2>2. next[stack[1]] = (IF 1 = Len(stack) THEN SENTINEL ELSE stack[1 + 1])
    BY <2>1 DEF IndInv, FreeListIntact
  <2>3. QED
    BY <1>1, <1>2, <2>2
<1>4. /\ head' = [idx |-> nxt[t], tag |-> TagSucc(head.tag)]
      /\ slot' = [slot EXCEPT ![t] = stack[1]]
      /\ stack' = Tail(stack)
      /\ pc' = [pc EXCEPT ![t] = "aCount"]
      /\ UNCHANGED <<next, borrowed, owned>>
  BY <1>1, <1>2 DEF AcquireCas, CasSucceeds, Goto
<1>5. /\ stack' \in Seq(Index)
      /\ Len(stack') = Len(stack) - 1
      /\ \A k \in 1 .. Len(stack) - 1 : stack'[k] = stack[k + 1]
      /\ \A k \in 1 .. Len(stack) : stack[k] \in Index
  BY <1>2, <1>4, PopFacts DEF IndInv, TypeOK
<1>6. TypeOK'
  <2>1. head' \in HeadWord
    BY <1>4, WellTyped DEF IndInv, TypeOK, HeadWord
  <2>2. lag' \in [Thread -> 0 .. MaxOvertake]
    BY TagAssumption DEF IndInv, TypeOK, AcquireCas, CasSucceeds
  <2>3. old' \in [Thread -> HeadWord] /\ nxt' \in [Thread -> Link]
    BY WellTyped DEF IndInv, TypeOK, AcquireCas, CasSucceeds
  <2>4. slot' \in [Thread -> Link] /\ pc' \in [Thread -> PC]
    BY <1>2, <1>4, <1>5 DEF IndInv, TypeOK, Link, PC
  <2>5. QED
    BY <1>4, <1>5, <2>1, <2>2, <2>3, <2>4 DEF IndInv, TypeOK
<1>7. t \notin Holders /\ Holders' = Holders \union {t}
  BY <1>1, <1>4 DEF IndInv, TypeOK, Holders, Releasing
<1>8. stack[1] \in Index /\ stack[1] \notin owned /\ stack[1] \notin InFlight
  BY <1>2, <1>5 DEF IndInv, NoIndexLost, Free
<1>9. slot'[t] = stack[1] /\ \A u \in Holders : slot'[u] = slot[u] /\ slot[u] # stack[1]
  BY <1>4, <1>7, <1>8 DEF IndInv, TypeOK, InFlight, Holders
<1>10. UniqueIndices'
  BY <1>4, <1>7, <1>8, <1>9 DEF IndInv, UniqueIndices
<1>11. NoIndexLost'
  <2>1. InFlight' = InFlight \union {stack[1]}
    BY <1>7, <1>9 DEF InFlight
  <2>2. Free' = Free \ {stack[1]}
    BY <1>2, <1>4, FreeAfterPop
  <2>3. \A j, k \in 1 .. Len(stack') : stack'[j] = stack'[k] => j = k
    BY <1>2, <1>5 DEF IndInv, NoIndexLost
  <2>4. QED
    BY <1>4, <1>8, <2>1, <2>2, <2>3 DEF IndInv, NoIndexLost
<1>12. FreeListIntact'
  <2>1. head'.idx = (IF stack' = <<>> THEN SENTINEL ELSE stack'[1])
    <3>1. stack' = <<>> <=> Len(stack) = 1
      BY <1>2, <1>5
    <3>2. Len(stack) # 1 => stack'[1] = stack[2]
      BY <1>2, <1>5
    <3>3. QED
      BY <1>3, <1>4, <3>1, <3>2
  <2>2. \A k \in 1 .. Len(stack') :
          next[stack'[k]] = (IF k = Len(stack') THEN SENTINEL ELSE stack'[k + 1])
    BY <1>2, <1>5 DEF IndInv, FreeListIntact
  <2>3. QED
    BY <1>4, <2>1, <2>2 DEF FreeListIntact
<1>13. BorrowedAccounts'
  BY <1>1, <1>4, SameCount DEF IndInv, TypeOK, Releasing
<1>14. Windows'
  <2>1. CasSucceeds(t, [idx |-> nxt[t], tag |-> TagSucc(old[t].tag)])
    BY DEF AcquireCas
  <2>2. \A u \in Thread \ {t} : pc'[u] = pc[u] /\ nxt'[u] = nxt[u] /\ slot'[u] = slot[u]
    BY <1>4 DEF IndInv, TypeOK, AcquireCas
  <2>3. pc'[t] = "aCount"
    BY <1>4 DEF IndInv, TypeOK
  <2>4. QED
    BY <1>1, <1>4, <2>1, <2>2, <2>3, OvertakenWindows DEF Window
<1>15. QED
  BY <1>6, <1>10, <1>11, <1>12, <1>13, <1>14 DEF IndInv

(* ReleaseCas keeps the invariant: the slot, already linked to the first one, becomes
   the first. *)
LEMMA ReleaseCasInv ==
    ASSUME IndInv, NEW t \in Thread, ReleaseCas(t)
    PROVE  IndInv'
<1>1. pc[t] = "rCas" /\ head = old[t] /\ next[slot[t]] = head.idx
  BY DEF IndInv, Windows, ReleaseCas, CasSucceeds, Window
<1>2. /\ head' = [idx |-> slot[t], tag |-> TagSucc(head.tag)]
      /\ slot' = [slot EXCEPT ![t] = SENTINEL]
      /\ stack' = <<slot[t]>> \o stack
      /\ pc' = [pc EXCEPT ![t] = "rCount"]
      /\ UNCHANGED <<next, borrowed, nxt, owned>>
  BY <1>1 DEF ReleaseCas, CasSucceeds, Goto
<1>3. t \in Holders /\ Holders' = Holders \ {t}
  BY <1>1, <1>2 DEF IndInv, TypeOK, Holders, Releasing
<1>4. slot[t] \in Index /\ slot[t] \notin owned /\ slot[t] \in InFlight
  BY <1>3 DEF IndInv, UniqueIndices, InFlight
<1>5. \A k \in 1 .. Len(stack) : stack[k] \in Index /\ stack[k] # slot[t]
  BY <1>4 DEF IndInv, TypeOK, NoIndexLost, Free
<1>6. /\ stack' \in Seq(Index) /\ Len(stack) \in Nat
      /\ Len(stack') = Len(stack) + 1
      /\ stack'[1] = slot[t]
      /\ \A k \in 1 .. Len(stack) : stack'[k + 1] = stack[k]
  BY <1>2, <1>4, PushFacts DEF IndInv, TypeOK
<1>7. TypeOK'
  <2>1. head' \in HeadWord
    BY <1>2, <1>4, WellTyped DEF IndInv, TypeOK, HeadWord, Link
  <2>2. lag' \in [Thread -> 0 .. MaxOvertake]
    BY TagAssumption DEF IndInv, TypeOK, ReleaseCas, CasSucceeds
  <2>3. old' \in [Thread -> HeadWord]
    BY WellTyped DEF IndInv, TypeOK, ReleaseCas, CasSucceeds
  <2>4. slot' \in [Thread -> Link] /\ pc' \in [Thread -> PC]
    BY <1>2, WellTyped DEF IndInv, TypeOK, PC
  <2>5. QED
    BY <1>2, <1>6, <2>1, <2>2, <2>3, <2>4 DEF IndInv, TypeOK
<1>8. \A u \in Holders \ {t} : slot'[u] = slot[u] /\ slot[u] # slot[t]
  BY <1>2, <1>3 DEF IndInv, TypeOK, UniqueIndices, Holders
<1>9. UniqueIndices'
  BY <1>2, <1>3, <1>8 DEF IndInv, UniqueIndices
<1>10. NoIndexLost'
  <2>1. InFlight' = InFlight \ {slot[t]}
    BY <1>3, <1>8 DEF InFlight
  <2>2. Free' = Free \union {slot[t]}
    BY <1>2, <1>4, FreeAfterPush
  <2>3. \A j, k \in 1 .. Len(stack') : stack'[j] = stack'[k] => j = k
    <3>1. \A k \in 2 .. Len(stack') : k - 1 \in 1 .. Len(stack) /\ stack'[k] = stack[k - 1]
      BY <1>6
    <3>2. \A j, k \in 1 .. Len(stack) : stack[j] = stack[k] => j = k
      BY DEF IndInv, NoIndexLost
    <3>3. QED
      BY <1>5, <1>6, <3>1, <3>2
  <2>4. QED
    BY <1>2, <1>4, <2>1, <2>2, <2>3 DEF IndInv, NoIndexLost
<1>11. FreeListIntact'
  <2>1. head'.idx = (IF stack' = <<>> THEN SENTINEL ELSE stack'[1])
    BY <1>2, <1>6
  <2>2. next[stack'[1]] = (IF 1 = Len(stack') THEN SENTINEL ELSE stack'[2])
    BY <1>1, <1>6 DEF IndInv, TypeOK, FreeListIntact
  <2>3. \A k \in 1 .. Len(stack) :
          next[stack'[k + 1]] = (IF k + 1 = Len(stack') THEN SENTINEL ELSE stack'[k + 2])
    BY <1>6 DEF IndInv, FreeListIntact
  <2>4. \A k \in 1 .. Len(stack') : k = 1 \/ k - 1 \in 1 .. Len(stack)
    BY <1>6
  <2>5. \A k \in 1 .. Len(stack') :
          next[stack'[k]] = (IF k = Len(stack') THEN SENTINEL ELSE stack'[k + 1])
    <3>1. SUFFICES ASSUME NEW k \in 1 .. Len(stack')
                   PROVE  next[stack'[k]] = (IF k = Len(stack') THEN SENTINEL ELSE stack'[k + 1])
      OBVIOUS
    <3>2. CASE k = 1
      BY <2>2, <3>2
    <3>3. CASE k # 1
      <4>1. k - 1 \in 1 .. Len(stack) /\ (k - 1) + 1 = k /\ (k - 1) + 2 = k + 1
        BY <1>6, <2>4, <3>3
      <4>2. next[stack'[(k - 1) + 1]] = (IF (k - 1) + 1 = Len(stack') THEN SENTINEL ELSE stack'[(k - 1) + 2])
        BY <2>3, <4>1
      <4>3. QED
        BY <4>1, <4>2
    <3>4. QED
      BY <3>2, <3>3
  <2>6. QED
    BY <1>2, <2>1, <2>5 DEF FreeListIntact
<1>12. BorrowedAccounts'
  BY <1>1, <1>2, SameCount DEF IndInv, TypeOK, Releasing
<1>13. Windows'
  <2>1. CasSucceeds(t, [idx |-> slot[t], tag |-> TagSucc(old[t].tag)])
    BY DEF ReleaseCas
  <2>2. \A u \in Thread \ {t} : pc'[u] = pc[u] /\ nxt'[u] = nxt[u] /\ slot'[u] = slot[u]
    BY <1>2 DEF IndInv, TypeOK
  <2>3. pc'[t] = "rCount"
    BY <1>2 DEF IndInv, TypeOK
  <2>4. QED
    BY <1>1, <1>2, <2>1, <2>2, <2>3, OvertakenWindows DEF Window
<1>14. QED
  BY <1>7, <1>9, <1>10, <1>11, <1>12, <1>13 DEF IndInv

(* The new set, with every index linked to the next one, satisfies the invariant. *)
LEMMA InitInv == Init => IndInv
<1> SUFFICES ASSUME Init PROVE IndInv
  OBVIOUS
<1>1. stack \in Seq(Index) /\ Len(stack) = Capacity /\ \A k \in 1 .. Capacity : stack[k] = k - 1
  BY CapacityAssumption DEF Init, Index
<1>2. TypeOK
  BY <1>1, WellTyped, CapacityAssumption, TagAssumption
     DEF Init, TypeOK, Index, Link, SENTINEL, HeadWord, Tag, PC, Between
<1>3. Holders = {}
  BY DEF Init, Holders, Releasing
<1>4. UniqueIndices
  BY <1>3 DEF UniqueIndices
<1>5. NoIndexLost
  <2>1. Free = Index
    <3>1. \A i \in Index : i + 1 \in 1 .. Capacity /\ stack[i + 1] = i
      BY <1>1, CapacityAssumption DEF Index
    <3>2. QED
      BY <1>1, <3>1, CapacityAssumption DEF Free, Index
  <2>2. InFlight = {}
    BY <1>3 DEF InFlight
  <2>3. QED
    BY <1>1, <2>1, <2>2, CapacityAssumption DEF NoIndexLost, Init
<1>6. FreeListIntact
  BY <1>1, CapacityAssumption DEF FreeListIntact, Init, SENTINEL, Index
<1>7. BorrowedAccounts
  <2>1. {t \in Thread : pc[t] \in Releasing \union {"rCount"}} = {}
    BY DEF Init, Releasing
  <2>2. owned = {} /\ borrowed = 0 /\ Cardinality({}) = 0
    BY FS_EmptySet DEF Init
  <2>3. QED
    BY <2>1, <2>2 DEF BorrowedAccounts
<1>8. Windows
  BY DEF Windows, Init, Window
<1>9. QED
  BY <1>2, <1>4, <1>5, <1>6, <1>7, <1>8 DEF IndInv

(* IndInv is an invariant of the free list. *)
THEOREM FreeListInvariant == SafetySpec => []IndInv
<1>1. Init => IndInv
  BY InitInv
<1>2. IndInv /\ [Next]_vars => IndInv'
  <2> SUFFICES ASSUME IndInv, [Next]_vars PROVE IndInv'
    OBVIOUS
  <2>1. CASE UNCHANGED vars
    <3>1. Holders' = Holders
      BY <2>1 DEF vars, Holders
    <3>2. TypeOK' /\ FreeListIntact' /\ Windows'
      BY <2>1 DEF vars, IndInv, TypeOK, FreeListIntact, Windows
    <3>3. UniqueIndices'
      BY <2>1, <3>1 DEF vars, IndInv, UniqueIndices
    <3>4. NoIndexLost' /\ BorrowedAccounts'
      BY <2>1, <3>1, SameHoldings, SameCount DEF vars, IndInv
    <3>5. QED
      BY <3>2, <3>3, <3>4 DEF IndInv
  <2>2. ASSUME NEW t \in Thread, AcquireCall(t) PROVE IndInv'
    BY <2>2, AcquireCallInv
  <2>3. ASSUME NEW t \in Thread, NEW i \in owned, ReleaseCall(t, i) PROVE IndInv'
    BY <2>3, ReleaseCallInv
  <2>4. ASSUME NEW t \in Thread, Step(t) PROVE IndInv'
    BY <2>4, AcquireLoadInv, AcquireNextInv, AcquireCasInv, AcquireRetryInv, AcquireCountInv,
       ReleaseLoadInv, ReleaseStoreInv, ReleaseCasInv, ReleaseRetryInv, ReleaseCountInv
       DEF Step
  <2>5. QED
    BY <2>1, <2>2, <2>3, <2>4 DEF Next
<1>3. QED
  BY <1>1, <1>2, PTL DEF SafetySpec

(* No index is ever in two hands, none is lost, the words in memory are the list, and the
   counter of acquire and release is exact, however the calls of the threads interleave. *)
THEOREM FreeListSafety ==
    SafetySpec => [](TypeOK /\ UniqueIndices /\ NoIndexLost /\ FreeListIntact /\ BorrowedAccounts)
<1>1. IndInv => TypeOK /\ UniqueIndices /\ NoIndexLost /\ FreeListIntact /\ BorrowedAccounts
  BY DEF IndInv
<1>2. QED
  BY <1>1, FreeListInvariant, PTL

(* What is free is exactly what nobody has, once each: release and a lost race of acquire
   leave no index behind. *)
THEOREM IndicesNotLost == SafetySpec => []NoIndexLost
<1>1. IndInv => NoIndexLost
  BY DEF IndInv
<1>2. QED
  BY <1>1, FreeListInvariant, PTL

(* The head word and the next pointers are the free list in every state, so a thread that
   has been overtaken never makes the list skip or repeat a slot. *)
THEOREM FreeListStaysIntact == SafetySpec => []FreeListIntact
<1>1. IndInv => FreeListIntact
  BY DEF IndInv
<1>2. QED
  BY <1>1, FreeListInvariant, PTL

-----------------------------------------------------------------------------
(* Refinement of IndexPool *)

\* A thread's slot is set only while it alone holds the index.
Scoped == \A t \in Thread \ Holders : slot[t] = SENTINEL

(* Scoped is an invariant; together with IndInv it gives the argument of a call. *)
THEOREM ScopedInvariant == SafetySpec => []Scoped
<1>1. Init => Scoped
  BY DEF Init, Scoped
<1>2. TypeOK /\ Scoped /\ [Next]_vars => Scoped'
  BY DEF Next, Step, vars, TypeOK, Scoped, Holders, Goto, Releasing, Between, AcquireCall,
         ReleaseCall, AcquireLoad, AcquireNext, AcquireCas, AcquireRetry, AcquireCount,
         ReleaseLoad, ReleaseStore, ReleaseCas, ReleaseRetry, ReleaseCount, LoopAcquire
<1>3. QED
  BY <1>1, <1>2, FreeListSafety, PTL DEF SafetySpec

(* What a step of one thread does to the caller's view. *)
LEMMA OpsAfter ==
    ASSUME IndInv, NEW t \in Thread, NEW label \in PC, pc' = [pc EXCEPT ![t] = label]
    PROVE  AbstractOps' = [AbstractOps EXCEPT ![t] = AbstractOp(label)]
  BY DEF IndInv, TypeOK, AbstractOps

(* The caller's view of the labels. *)
LEMMA OpOfLabel ==
    /\ \A l \in Acquiring : AbstractOp(l) = "acquiring"
    /\ \A l \in Releasing : AbstractOp(l) = "releasing"
    /\ AbstractOp("aCount") = "granted" /\ AbstractOp("rCount") = "released"
    /\ AbstractOp("ready") = "ready" /\ AbstractOp("failed") = "failed"
    /\ {"ready", "failed", "aCount", "rCount"} \subseteq PC
  BY DEF AbstractOp, Acquiring, Releasing, PC, Between

(* A step within a call, before or after the instant it takes effect, is invisible. *)
LEMMA InvisibleStep ==
    ASSUME IndInv, NEW t \in Thread, NEW label \in PC, pc' = [pc EXCEPT ![t] = label],
           AbstractOp(label) = AbstractOp(pc[t]), UNCHANGED <<slot, owned, stack>>
    PROVE  UNCHANGED <<AbstractOps, slot, Free, owned>>
<1>1. AbstractOps' = AbstractOps
  BY OpsAfter DEF IndInv, TypeOK, AbstractOps
<1>2. Free' = Free
  BY DEF Free
<1>3. QED
  BY <1>1, <1>2

(* The steps of acquire, seen by a caller. *)
LEMMA AcquireRefines ==
    ASSUME IndInv, Scoped, NEW t \in Thread,
           \/ AcquireCall(t) \/ AcquireLoad(t) \/ AcquireNext(t)
           \/ AcquireCas(t) \/ AcquireRetry(t) \/ AcquireCount(t)
    PROVE  Pool!Next \/ UNCHANGED <<AbstractOps, slot, Free, owned>>
<1>0. AbstractOps[t] = AbstractOp(pc[t]) /\ pc[t] \in PC
  BY DEF AbstractOps, IndInv, TypeOK
<1>1. CASE AcquireCall(t)
  <2>1. pc' = [pc EXCEPT ![t] = "aLoad"] /\ pc[t] \in Between /\ UNCHANGED <<slot, owned, stack>>
    BY <1>1 DEF AcquireCall, Goto
  <2>2. AbstractOp("aLoad") = "acquiring" /\ "aLoad" \in PC
    BY OpOfLabel DEF PC, Acquiring
  <2>3. AbstractOps' = [AbstractOps EXCEPT ![t] = "acquiring"]
    BY <2>1, <2>2, OpsAfter
  <2>4. slot' = [slot EXCEPT ![t] = SENTINEL] /\ Free' = Free
    BY <2>1 DEF IndInv, TypeOK, Scoped, Holders, Between, Releasing, Free
  <2>5. AbstractOps[t] \in {"ready", "failed"}
    BY <1>0, <2>1, OpOfLabel DEF Between
  <2>6. Pool!Invoke(t)
    BY <2>1, <2>3, <2>4, <2>5 DEF Pool!Invoke, Pool!Set, Pool!NoIndex, SENTINEL
  <2>7. QED
    BY <2>6 DEF Pool!Next
<1>2. CASE AcquireNext(t)
  <2>1. pc' = [pc EXCEPT ![t] = "aCas"] /\ pc[t] = "aNext" /\ UNCHANGED <<slot, owned, stack>>
    BY <1>2 DEF AcquireNext, Goto
  <2>2. AbstractOp("aCas") = AbstractOp("aNext") /\ "aCas" \in PC
    BY OpOfLabel DEF PC, Acquiring
  <2>3. QED
    BY <2>1, <2>2, InvisibleStep
<1>3. CASE AcquireLoad(t) \/ AcquireRetry(t)
  <2>1. pc[t] \in Acquiring /\ LoopAcquire(t) /\ UNCHANGED <<slot, owned, stack>>
    BY <1>3 DEF AcquireLoad, AcquireRetry, Acquiring
  <2>2. AbstractOps[t] = "acquiring"
    BY <1>0, <2>1, OpOfLabel
  <2>3. CASE head.idx = SENTINEL
    <3>1. pc' = [pc EXCEPT ![t] = "failed"] /\ Free' = Free
      BY <2>1, <2>3 DEF LoopAcquire, Goto, Free
    <3>2. AbstractOps' = [AbstractOps EXCEPT ![t] = "failed"]
      BY <3>1, OpsAfter, OpOfLabel DEF PC, Between
    <3>3. stack = <<>>
      BY <2>3, WellTyped DEF IndInv, TypeOK, FreeListIntact
    <3>4. Free = {}
      BY <3>3 DEF Free
    <3>5. slot' = [slot EXCEPT ![t] = SENTINEL]
      BY <2>1 DEF IndInv, TypeOK, Scoped, Holders, Acquiring, Releasing
    <3>6. Pool!Fail(t)
      BY <2>1, <2>2, <3>1, <3>2, <3>4, <3>5 DEF Pool!Fail, Pool!Set, Pool!NoIndex, SENTINEL
    <3>7. QED
      BY <3>6 DEF Pool!Next
  <2>4. CASE head.idx # SENTINEL
    <3>1. pc' = [pc EXCEPT ![t] = "aNext"]
      BY <2>1, <2>4 DEF LoopAcquire, Goto
    <3>2. AbstractOp("aNext") = AbstractOp(pc[t]) /\ "aNext" \in PC
      BY <2>1, OpOfLabel DEF PC, Acquiring
    <3>3. QED
      BY <2>1, <3>1, <3>2, InvisibleStep
  <2>5. QED
    BY <2>3, <2>4
<1>4. CASE AcquireCas(t)
  <2>1. /\ pc[t] = "aCas" /\ head = old[t] /\ lag[t] = 0 /\ head.idx # SENTINEL
    BY <1>4, CasMeansCurrent DEF IndInv, Windows, AcquireCas, CasSucceeds, Window
  <2>2. stack # <<>> /\ head.idx = stack[1] /\ Len(stack) \in Nat /\ Len(stack) > 0
    BY <2>1 DEF IndInv, TypeOK, FreeListIntact
  <2>3. /\ slot' = [slot EXCEPT ![t] = stack[1]]
        /\ stack' = Tail(stack) /\ owned' = owned
        /\ pc' = [pc EXCEPT ![t] = "aCount"]
    BY <1>4, <2>1, <2>2 DEF AcquireCas, Goto
  <2>4. stack[1] \in Free /\ Free' = Free \ {stack[1]} /\ stack[1] \in Index
    BY <2>2, <2>3, FreeAfterPop
  <2>5. AbstractOps' = [AbstractOps EXCEPT ![t] = "granted"]
    BY <2>3, OpsAfter, OpOfLabel DEF PC
  <2>6. AbstractOps[t] = "acquiring"
    BY <1>0, <2>1, OpOfLabel DEF Acquiring
  <2>7. Pool!Take(t, stack[1])
    BY <2>3, <2>4, <2>5, <2>6 DEF Pool!Take, Pool!Set
  <2>8. QED
    BY <2>4, <2>7 DEF Pool!Next, Pool!Index, Index
<1>5. CASE AcquireCount(t)
  <2>1. /\ pc' = [pc EXCEPT ![t] = "ready"] /\ pc[t] = "aCount" /\ UNCHANGED stack
        /\ owned' = owned \union {slot[t]} /\ slot' = [slot EXCEPT ![t] = SENTINEL]
    BY <1>5 DEF AcquireCount, Goto
  <2>2. AbstractOps' = [AbstractOps EXCEPT ![t] = "ready"]
    BY <2>1, OpsAfter, OpOfLabel
  <2>3. AbstractOps[t] = "granted" /\ Free' = Free
    BY <1>0, <2>1, OpOfLabel DEF Free
  <2>4. Pool!ReturnOk(t)
    BY <2>1, <2>2, <2>3 DEF Pool!ReturnOk, Pool!Set, Pool!NoIndex, SENTINEL
  <2>5. QED
    BY <2>4 DEF Pool!Next
<1>6. QED
  BY <1>1, <1>2, <1>3, <1>4, <1>5

(* The steps of release, seen by a caller. *)
LEMMA ReleaseRefines ==
    ASSUME IndInv, Scoped, NEW t \in Thread,
           \/ \E i \in owned : ReleaseCall(t, i)
           \/ ReleaseLoad(t) \/ ReleaseStore(t)
           \/ ReleaseCas(t) \/ ReleaseRetry(t) \/ ReleaseCount(t)
    PROVE  Pool!Next \/ UNCHANGED <<AbstractOps, slot, Free, owned>>
<1>0. AbstractOps[t] = AbstractOp(pc[t]) /\ pc[t] \in PC
  BY DEF AbstractOps, IndInv, TypeOK
<1>1. ASSUME NEW i \in owned, ReleaseCall(t, i) PROVE Pool!Next
  <2>1. /\ pc' = [pc EXCEPT ![t] = "rLoad"] /\ pc[t] \in Between /\ UNCHANGED stack
        /\ owned' = owned \ {i} /\ slot' = [slot EXCEPT ![t] = i] /\ i \in Index
    BY <1>1 DEF ReleaseCall, Goto, IndInv, TypeOK
  <2>2. AbstractOp("rLoad") = "releasing" /\ "rLoad" \in PC
    BY OpOfLabel DEF PC, Releasing
  <2>3. AbstractOps' = [AbstractOps EXCEPT ![t] = "releasing"]
    BY <2>1, <2>2, OpsAfter
  <2>4. AbstractOps[t] \in {"ready", "failed"} /\ Free' = Free
    BY <1>0, <2>1, OpOfLabel DEF Between, Free
  <2>5. Pool!InvokeRelease(t, i)
    BY <2>1, <2>3, <2>4 DEF Pool!InvokeRelease, Pool!Set
  <2>6. QED
    BY <2>1, <2>5 DEF Pool!Next, Pool!Index, Index
<1>2. CASE ReleaseLoad(t) \/ ReleaseStore(t) \/ ReleaseRetry(t)
  <2>1. pc[t] \in Releasing /\ UNCHANGED <<slot, owned, stack>>
    BY <1>2 DEF ReleaseLoad, ReleaseStore, ReleaseRetry, Releasing
  <2>2. \E l \in Releasing : pc' = [pc EXCEPT ![t] = l]
    BY <1>2 DEF ReleaseLoad, ReleaseStore, ReleaseRetry, Goto, Releasing
  <2>3. PICK l \in Releasing : pc' = [pc EXCEPT ![t] = l]
    BY <2>2
  <2>4. AbstractOp(l) = AbstractOp(pc[t]) /\ l \in PC
    BY <2>1, OpOfLabel DEF PC
  <2>5. QED
    BY <2>1, <2>3, <2>4, InvisibleStep
<1>3. CASE ReleaseCas(t)
  <2>1. /\ pc[t] = "rCas" /\ slot' = [slot EXCEPT ![t] = SENTINEL]
        /\ stack' = <<slot[t]>> \o stack /\ owned' = owned
        /\ pc' = [pc EXCEPT ![t] = "rCount"]
    BY <1>3 DEF ReleaseCas, Goto
  <2>2. slot[t] \in Index
    BY <2>1 DEF IndInv, UniqueIndices, Holders, Releasing
  <2>3. Free' = Free \union {slot[t]}
    BY <2>1, <2>2, FreeAfterPush
  <2>4. AbstractOps' = [AbstractOps EXCEPT ![t] = "released"]
    BY <2>1, OpsAfter, OpOfLabel
  <2>5. AbstractOps[t] = "releasing"
    BY <1>0, <2>1, OpOfLabel DEF Releasing
  <2>6. Pool!Give(t)
    BY <2>1, <2>3, <2>4, <2>5 DEF Pool!Give, Pool!Set, Pool!NoIndex, SENTINEL
  <2>7. QED
    BY <2>6 DEF Pool!Next
<1>4. CASE ReleaseCount(t)
  <2>1. /\ pc' = [pc EXCEPT ![t] = "ready"] /\ pc[t] = "rCount" /\ UNCHANGED <<slot, owned, stack>>
    BY <1>4 DEF ReleaseCount, Goto
  <2>2. AbstractOps' = [AbstractOps EXCEPT ![t] = "ready"]
    BY <2>1, OpsAfter, OpOfLabel
  <2>3. AbstractOps[t] = "released" /\ Free' = Free /\ slot' = [slot EXCEPT ![t] = SENTINEL]
    BY <1>0, <2>1, OpOfLabel DEF Free, IndInv, TypeOK, Scoped, Holders, Releasing
  <2>4. Pool!ReturnReleased(t)
    BY <2>1, <2>2, <2>3 DEF Pool!ReturnReleased, Pool!Set, Pool!NoIndex, SENTINEL
  <2>5. QED
    BY <2>4 DEF Pool!Next
<1>5. QED
  BY <1>1, <1>2, <1>3, <1>4

(* acquire and release are linearizable: the free list in memory implements IndexPool. *)
THEOREM FreeListImplementsPool == SafetySpec => ImplementsPool
<1>1. Init => Pool!Init
  <2> SUFFICES ASSUME Init PROVE Pool!Init
    OBVIOUS
  <2>1. AbstractOps = [t \in Thread |-> "ready"]
    BY OpOfLabel DEF Init, AbstractOps
  <2>2. Holders = {}
    BY DEF Init, Holders, Releasing
  <2>3. InFlight = {}
    BY <2>2 DEF InFlight
  <2>4. owned = {} /\ slot = [t \in Thread |-> SENTINEL]
    BY DEF Init
  <2>5. Free = Index
    BY <2>3, <2>4, InitInv DEF IndInv, NoIndexLost
  <2>6. QED
    BY <2>1, <2>4, <2>5 DEF Pool!Init, Pool!NoIndex, Pool!Index, SENTINEL, Index
<1>2. IndInv /\ Scoped /\ [Next]_vars => [Pool!Next]_(Pool!poolVars)
  <2> SUFFICES ASSUME IndInv, Scoped, [Next]_vars
               PROVE  Pool!Next \/ UNCHANGED <<AbstractOps, slot, Free, owned>>
    BY DEF Pool!poolVars
  <2>1. CASE UNCHANGED vars
    BY <2>1 DEF vars, AbstractOps, Free
  <2>2. CASE Next
    BY <2>2, AcquireRefines, ReleaseRefines DEF Next, Step
  <2>3. QED
    BY <2>1, <2>2
<1>3. QED
  BY <1>1, <1>2, FreeListInvariant, ScopedInvariant, PTL DEF SafetySpec, ImplementsPool, Pool!Spec

=============================================================================
