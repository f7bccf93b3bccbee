------------------------------ MODULE SlotMap ------------------------------
(***************************************************************************)
(* What MpmcContainer promises its callers (mpmc_container.rs:10-17): a    *)
(* map from slots to values in which `add` puts its value at a slot nobody *)
(* else uses and `remove` takes a value out, each at one instant.          *)
(*                                                                         *)
(* A call that has started may keep a slot busy before its value is in the *)
(* map and after it has left it, so `add` may be refused when fewer than   *)
(* Capacity values are in the map, but only by that many calls.            *)
(***************************************************************************)
EXTENDS Naturals, FiniteSets

CONSTANTS Thread, Capacity, Value, NoValue

VARIABLES
    map,   \* the value at every slot, NoValue where there is none
    op,    \* what each thread is doing
    arg    \* the value it adds, or has taken out

vars == <<map, op, arg>>

Slot == 0 .. Capacity - 1
Used == {s \in Slot : map[s] # NoValue}
Busy == {t \in Thread : op[t] \in {"adding", "removed"}}

Init ==
    /\ map = [s \in Slot |-> NoValue]
    /\ op = [t \in Thread |-> "idle"]
    /\ arg = [t \in Thread |-> NoValue]

Becomes(t, o, v) ==
    /\ op' = [op EXCEPT ![t] = o]
    /\ arg' = [arg EXCEPT ![t] = v]

AddBegins(t, v) ==
    /\ op[t] = "idle"
    /\ Cardinality(Used) + Cardinality(Busy) < Capacity
    /\ Becomes(t, "adding", v)
    /\ UNCHANGED map

AddRefused(t) ==
    /\ op[t] = "idle"
    /\ Cardinality(Used) + Cardinality(Busy) >= Capacity
    /\ Becomes(t, "refused", NoValue)
    /\ UNCHANGED map

AddTakesEffect(t, s) ==
    /\ op[t] = "adding" /\ map[s] = NoValue
    /\ map' = [map EXCEPT ![s] = arg[t]]
    /\ Becomes(t, "idle", NoValue)

RemoveTakesEffect(t, s) ==
    /\ op[t] = "idle" /\ map[s] # NoValue
    /\ map' = [map EXCEPT ![s] = NoValue]
    /\ Becomes(t, "removed", map[s])

RemoveReturns(t) ==
    /\ op[t] = "removed"
    /\ Becomes(t, "idle", NoValue)
    /\ UNCHANGED map

Resumes(t) ==
    /\ op[t] = "refused"
    /\ Becomes(t, "idle", NoValue)
    /\ UNCHANGED map

Next ==
    \E t \in Thread :
        \/ \E v \in Value : AddBegins(t, v)
        \/ AddRefused(t) \/ Resumes(t) \/ RemoveReturns(t)
        \/ \E s \in Slot : AddTakesEffect(t, s) \/ RemoveTakesEffect(t, s)

Spec == Init /\ [][Next]_vars
=============================================================================
