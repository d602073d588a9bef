SPECIFICATION FairSpec
CONSTANTS
    Senders = {}
    Setters = {}
    PacketSizes = {1}
    MaxPackets = 0
    MaxBatches = 2
    BatchSize = 1
    QCap = 1
PROPERTIES
    UnidentifiedIsClosed
    GoroutinesEnd
    ImplementsSession
CHECK_DEADLOCK FALSE
