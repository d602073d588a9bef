SPECIFICATION FairSpec
CONSTANTS
    Senders = {s1}
    Closers = {k1}
    Peers = {p1}
    Totals = {1}
    Lens = {3, 4, 9}
    FragmentSize = 2
    Word = 4
    QCap = 1
INVARIANTS
    TypeOK
    SentWhole
PROPERTIES
    CloseEnds
    SendersEnd
    ProcessorEnds
CHECK_DEADLOCK FALSE
