-------------------------- MODULE AtomicRegister --------------------------
(***************************************************************************)
(* What the blackboard promises: one value, replaced as a whole by the     *)
(* writer and read as a whole by each reader, every call taking effect at  *)
(* one instant.  Blackboard implements it.                                 *)
(***************************************************************************)
CONSTANTS Reader, Value, None

VARIABLES
    latest,  \* the value on the board, None before the first write
    seen     \* what each reader's last read returned

registerVars == <<latest, seen>>

Init ==
    /\ latest = None
    /\ seen = [r \in Reader |-> None]

Write ==
    /\ latest' \in Value
    /\ UNCHANGED seen

Read(r) ==
    /\ seen' = [seen EXCEPT ![r] = latest]
    /\ UNCHANGED latest

Next == Write \/ \E r \in Reader : Read(r)

Spec == Init /\ [][Next]_registerVars
=============================================================================
