\* One publisher, two subscribers.
CONSTANTS
    Pub = {p1}
    Sub = {s1, s2}
    NoSub = nosub
    BufferSize = 2
    MaxLoaned = 2
    LoanMod = 8
SPECIFICATION SafetySpec
INVARIANTS HeldSamplesStable
CHECK_DEADLOCK FALSE
