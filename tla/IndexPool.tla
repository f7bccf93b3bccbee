----------------------------- MODULE IndexPool -----------------------------
(***************************************************************************)
(* What a pool of unique indices promises its callers, with every call     *)
(* taking effect at one instant between its invocation and its return:     *)
(* `acquire` hands out an index that was free, or fails at an instant when *)
(* none was; `release` makes the index free again.  UniqueIndexSet         *)
(* implements it.                                                          *)
(***************************************************************************)
EXTENDS Naturals

CONSTANTS Thread, Capacity

VARIABLES
    op,      \* the state of each thread's call
    arg,     \* the index its call is about (Capacity when there is none)
    free,    \* indices nobody has
    owned    \* indices returned to a caller and not yet given back

poolVars == <<op, arg, free, owned>>

Index == 0 .. Capacity - 1
NoIndex == Capacity

Init ==
    /\ op = [t \in Thread |-> "ready"]
    /\ arg = [t \in Thread |-> NoIndex]
    /\ free = Index
    /\ owned = {}

Set(t, o, i) ==
    /\ op' = [op EXCEPT ![t] = o]
    /\ arg' = [arg EXCEPT ![t] = i]

Invoke(t) ==
    /\ op[t] \in {"ready", "failed"}
    /\ Set(t, "acquiring", NoIndex)
    /\ UNCHANGED <<free, owned>>

\* The instant an acquire takes effect.
Take(t, i) ==
    /\ op[t] = "acquiring"
    /\ i \in free
    /\ free' = free \ {i}
    /\ Set(t, "granted", i)
    /\ UNCHANGED owned

\* An acquire may fail only at an instant when the pool is exhausted.
Fail(t) ==
    /\ op[t] = "acquiring"
    /\ free = {}
    /\ Set(t, "failed", NoIndex)
    /\ UNCHANGED <<free, owned>>

ReturnOk(t) ==
    /\ op[t] = "granted"
    /\ owned' = owned \union {arg[t]}
    /\ Set(t, "ready", NoIndex)
    /\ UNCHANGED free

InvokeRelease(t, i) ==
    /\ op[t] \in {"ready", "failed"}
    /\ i \in owned
    /\ owned' = owned \ {i}
    /\ Set(t, "releasing", i)
    /\ UNCHANGED free

\* The instant a release takes effect.
Give(t) ==
    /\ op[t] = "releasing"
    /\ free' = free \union {arg[t]}
    /\ Set(t, "released", NoIndex)
    /\ UNCHANGED owned

ReturnReleased(t) ==
    /\ op[t] = "released"
    /\ Set(t, "ready", NoIndex)
    /\ UNCHANGED <<free, owned>>

Next ==
    \E t \in Thread :
        \/ Invoke(t) \/ Fail(t) \/ ReturnOk(t) \/ Give(t) \/ ReturnReleased(t)
        \/ \E i \in Index : Take(t, i) \/ InvokeRelease(t, i)

Spec == Init /\ [][Next]_poolVars

=============================================================================
