CONSTANTS
    Thread = {t1, t2, t3}
    Capacity = 2
    TagMod = 4
    MaxOvertake = 3
SPECIFICATION Spec
INVARIANTS UniqueIndices NoIndexLost FreeListIntact
PROPERTIES ImplementsPool LockFree
