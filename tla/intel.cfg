\* Two threads, one address, a clock up to seven, with a key up to five (MCBound);
\* calls take up to one tick.  Answers live for at most TTL + Refresh + MaxDelay = 6.
SPECIFICATION Spec
CONSTANTS
    Addresses = {x, y}
    IPs = {x}
    Lists = {{}, {x}, {y}}
    Threads = {t1, t2}
    TTL = 3
    CleanTTL = 2
    Refresh = 2
    Minute = 3
    MaxRequests = 1
    MaxDelay = 1
    Horizon = 7
SYMMETRY MCSymmetry
CONSTRAINT MCBound
INVARIANTS
    RateKept
PROPERTIES
    ListingSurfaces
    ListingExpires
