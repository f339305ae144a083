\* Two threads, one source, a clock up to four; calls of observe take up to one tick.
SPECIFICATION Spec
CONSTANTS
    Keys = {k1}
    Threads = {t1, t2}
    Required = 2
    Cooldown = 3
    MaxDelay = 1
    MaxWindows = 4
    Horizon = 4
SYMMETRY MCSymmetry
INVARIANTS
    AlertsSustained
    SustainedAnnounced
    CooldownKept
CHECK_DEADLOCK FALSE
