SPECIFICATION Spec
CONSTANTS
    Senders = {s1}
    Setters = {u1}
    PacketSizes = {1}
    MaxPackets = 0
    MaxBatches = 1
    BatchSize = 1
    QCap = 1
INVARIANTS
    LeaveIsLast
CHECK_DEADLOCK FALSE
