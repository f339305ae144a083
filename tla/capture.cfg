\* Two controllers racing on one capture, and sniff may end by itself
SPECIFICATION FairSpec
CONSTANTS
    Controllers = {c1, c2}
    QueueSize = 1
    SniffEnds = {"raises", "returns"}
    MaxPackets = 2
    MaxThreads = 2
INVARIANTS
    TypeOK
    EachPacketOnce
PROPERTIES
    StopEndsWorkers
    QueueDrains
CHECK_DEADLOCK FALSE
