SPECIFICATION FairSpec
CONSTANTS
    b1 = b1
    b2 = b2
    b3 = b3
    b4 = b4
    b5 = b5
    Buffer = {b1, b2, b3, b4, b5}
    Limit = 3
    MaxFrame = 6
    NULL = NULL
INVARIANTS
    TypeOK
    QueueInOrder
PROPERTY
    Recovers
