CONSTANTS
    Reader = {r1}
    Word = {lo, hi}
    None = none
    InOrder = FALSE
    SeqMod = 6
    MaxWrites = 2
SPECIFICATION SafetySpec
INVARIANTS ConsistentReads
