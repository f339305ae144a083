\* Two threads, signals of two layers about one pair of hosts
SPECIFICATION Spec
CONSTANTS
    Threads = {t1, t2}
    Sources = {s1}
    Targets = {d1}
    Categories = {"RECONNAISSANCE", "PORT_SCAN"}
    Window = 2
    CleanupPeriod = 2
    Retention = 3
    MaxDelay = 1
    MaxTime = 6
    MaxBatch = 2
    MaxCalls = 3
 Free = Free
INVARIANTS
    AlertsSpaced
    PublishedInOrder
    SeverityHighest
PROPERTIES
    ImplementsFilter
CHECK_DEADLOCK FALSE
