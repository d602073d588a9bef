SPECIFICATION Spec
CONSTANTS
    Senders = {s1}
    Closers = {k1}
    Peers = {p1}
    Totals = {1, 2}
    Lens = {3, 4, 9}
    FragmentSize = 2
    Word = 4
    QCap = 1
INVARIANTS
    OneTotal
CHECK_DEADLOCK FALSE
