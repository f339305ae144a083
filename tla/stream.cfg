\* Two ingesting threads, another process, a websocket with a short queue.
SPECIFICATION StreamFairSpec
CONSTANTS
    a1 = a1
    a2 = a2
    a3 = a3
    AlertIds = {a1, a2, a3}
    Time <- MCTime
    Publishers = {t1, t2}
    Clients = {c1}
    QueueSize = 1
    Numbers <- MCNumbers
INVARIANTS
    StreamTypeOK
    NothingVanishes
    InOrderBySource
PROPERTIES
    ForeignAlertsArrive
CHECK_DEADLOCK FALSE
