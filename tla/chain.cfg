\* Two ingesting threads, together or one after the other, and every fault
SPECIFICATION Spec
CONSTANTS
    Threads = {t1, t2}
    WindowAlerts = {w1, w2}
    PacketAlerts = {p1}
    NoAlert = NoAlert
    Faults = {"read", "insert", "evidence", "incident", "crash"}
    MaxHealth = 1
SYMMETRY Symmetry
INVARIANTS
    TypeOK
    NoBreakWhileCalm
    WindowRowsVerify
    DurableInOrder
    LinksNameStoredDigest
PROPERTIES
    ImplementsLedger
CHECK_DEADLOCK FALSE
