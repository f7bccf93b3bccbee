CONSTANTS
    Client = {c1, c2}
    NoClient = none
    Chunk = {k1, k2, k3}
    NoChunk = nochunk
    MaxPending = 1
    MinChunks = 3
    MaxHandles = 1
    MaxKept = 1
    MaxNumber = 3
    MaxActive = 1
SPECIFICATION Spec
INVARIANTS TypeOK ExclusiveChunks AnswersDelivered SizedForPending OwnAnswerInTurn
SYMMETRY Interchangeable
CHECK_DEADLOCK FALSE
