SPECIFICATION FairSpec
CONSTANTS
    Senders = {s1}
    Setters = {}
    PacketSizes = {1}
    MaxPackets = 1
    MaxBatches = 0
    BatchSize = 1
    QCap = 1
PROPERTY SendReturns
CHECK_DEADLOCK FALSE
