CONSTANTS
    Value = {a, b}
    Nothing = none
    Capacity = 2
    PosMod = 8
    MaxOvertake = 5
SPECIFICATION Spec
INVARIANTS RingHoldsQueue NeverUnderReports
PROPERTIES ImplementsFifo
