SPECIFICATION FairSpec
CONSTANTS
    Senders = {s1}
    Closers = {k1, k2}
    MaxReads = 3
    QCap = 1
INVARIANTS
    TypeOK
    OncePlaced
    MessagesInOrder
    ClosedIsQuiet
PROPERTIES
    CloseEnds
    EndsTogether
CHECK_DEADLOCK FALSE
