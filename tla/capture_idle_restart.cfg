\* One controller, an interface that may stay silent, sniff never ends.
SPECIFICATION Spec
CONSTANTS
    Controllers = {c1}
    QueueSize = 1
    SniffEnds = {}
    MaxPackets = 1
    MaxThreads = 2
INVARIANTS
    RefusalMeansCapturing
CHECK_DEADLOCK FALSE
