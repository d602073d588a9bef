SPECIFICATION Spec
CONSTANTS
    Senders = {s1}
    Setters = {}
    PacketSizes = {0, 2}
    MaxPackets = 1
    MaxBatches = 2
    BatchSize = 2
    QCap = 1
INVARIANTS
    TypeOK
    NotifierNeverPanics
    ReadBufferFree
    LeaveIsLast
    BatchInOrder
    SendBufferAccounted
PROPERTY NeverReopened
CHECK_DEADLOCK FALSE
