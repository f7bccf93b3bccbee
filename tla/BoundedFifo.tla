---------------------------- MODULE BoundedFifo ----------------------------
(***************************************************************************)
(* What a bounded queue with one producer and one consumer promises, with  *)
(* every call taking effect at one instant between its invocation and its  *)
(* return.  SpscQueue implements it.                                       *)
(***************************************************************************)
EXTENDS Naturals, Sequences

CONSTANTS Value, Capacity, Nothing

VARIABLES
    fifo,      \* the elements, oldest first
    pushing,   \* the value the producer's call in progress brings, or Nothing
    pushed,    \* result of its last call
    popping,   \* whether the consumer is in a call
    popped     \* result of its last call

fifoVars == <<fifo, pushing, pushed, popping, popped>>

Init ==
    /\ fifo = <<>>
    /\ pushing = Nothing
    /\ pushed = FALSE
    /\ popping = FALSE
    /\ popped = Nothing

InvokePush(v) ==
    /\ pushing = Nothing
    /\ pushing' = v
    /\ UNCHANGED <<fifo, pushed, popping, popped>>

Enqueue ==
    /\ pushing # Nothing
    /\ Len(fifo) < Capacity
    /\ fifo' = Append(fifo, pushing)
    /\ pushed' = TRUE
    /\ pushing' = Nothing
    /\ UNCHANGED <<popping, popped>>

\* A push may be refused only at an instant when the queue is full.
Refuse ==
    /\ pushing # Nothing
    /\ Len(fifo) = Capacity
    /\ pushed' = FALSE
    /\ pushing' = Nothing
    /\ UNCHANGED <<fifo, popping, popped>>

InvokePop ==
    /\ ~popping
    /\ popping' = TRUE
    /\ UNCHANGED <<fifo, pushing, pushed, popped>>

Dequeue ==
    /\ popping
    /\ fifo # <<>>
    /\ popped' = Head(fifo)
    /\ fifo' = Tail(fifo)
    /\ popping' = FALSE
    /\ UNCHANGED <<pushing, pushed>>

\* A pop may come back empty-handed only at an instant when the queue is empty.
FindEmpty ==
    /\ popping
    /\ fifo = <<>>
    /\ popped' = Nothing
    /\ popping' = FALSE
    /\ UNCHANGED <<fifo, pushing, pushed>>

Next ==
    \/ \E v \in Value : InvokePush(v)
    \/ Enqueue \/ Refuse
    \/ InvokePop \/ Dequeue \/ FindEmpty

Spec == Init /\ [][Next]_fifoVars

=============================================================================
