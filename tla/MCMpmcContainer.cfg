CONSTANTS
    Thread = {t1, t2}
    Capacity = 3
    WordBits = 2
    Value = {v1, v2}
    NoValue = zero
SPECIFICATION Spec
INVARIANTS SlotsAccounted EntriesIntact SweepsSound
PROPERTIES ImplementsSlotMap
SYMMETRY Interchangeable
