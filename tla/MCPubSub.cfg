\* One publisher, one subscriber; one loan more allowed than there are chunks, so that
\* the pool runs dry, and the limit bites while drops are not counted yet.
CONSTANTS
    Pub = {p1}
    Sub = {s1}
    NoSub = nosub
    BufferSize = 3
    MaxLoaned = 4
    LoanMod = 8
SPECIFICATION Spec
INVARIANTS TypeOK ExclusiveChunks LoansAccount QueuesHaveRoom
PROPERTIES SentChunksRecycled
CHECK_DEADLOCK FALSE
