CONSTANTS
    Reader = {r1, r2}
    Word = {lo, hi}
    None = none
    InOrder = TRUE
    SeqMod = 6
    MaxWrites = 2
SPECIFICATION Spec
INVARIANTS ConsistentReads
PROPERTIES ImplementsRegister ReadReturns
