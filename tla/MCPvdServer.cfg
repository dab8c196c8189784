SPECIFICATION FairSpec
CONSTANTS
    Session = {1, 2}
    BUF_SIZE = 2
    MaxSend = 2
    NULL = NULL
INVARIANTS
    TypeOK
    NoUseAfterFree
    CommandsFramed
    LoadsWhole
PROPERTY
    SessionEnds
CHECK_DEADLOCK FALSE
