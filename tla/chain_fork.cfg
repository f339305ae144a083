\* Two ingesting threads and no fault at all.
SPECIFICATION Spec
CONSTANTS
    Threads = {t1, t2}
    WindowAlerts = {w1, w2}
    PacketAlerts = {}
    NoAlert = NoAlert
    Faults = {}
    MaxHealth = 0
INVARIANTS
    ChainLinked
CHECK_DEADLOCK FALSE
