\* Two threads call add, out of order, with jumps and duplicates
SPECIFICATION Spec
CONSTANTS
    Threads = {t1, t2}
    Times = {0, 4, 16}
    Tags = {x}
    Size = 8
    Slide = 3
    SeenMax = 2
    SeenKeep = 1
    None = None
    MaxCalls = 3
INVARIANTS
    WindowsComplete
    WindowsInOrder
    EveryEventAnalysed
    NoWindowSkipped
    AcceptedOnce
CHECK_DEADLOCK FALSE
