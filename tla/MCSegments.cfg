CONSTANTS
    Process = {p1, p2}
    Object = {o1, o2, o3}
    NoObject = none
    ChunkSize = 5
    ChunkCount = 2
    SegMod = 2
    OffMod = 128
    HEADER_SIZE = 64
SPECIFICATION Spec
INVARIANTS TypeOK OffsetsResolve LinkedIsOwned OwnedIsLinked
SYMMETRY Interchangeable
