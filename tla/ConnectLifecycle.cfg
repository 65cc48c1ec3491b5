SPECIFICATION FairSpec
CONSTANTS
    Attempts = {a1, a2}
    Stops = {s1, s2}
    None = None
    ConcurrentStarts = FALSE
    CloseMayFail = FALSE
    Recovery = FALSE
INVARIANTS NothingOutOfReach RestIsSettled
PROPERTIES StopStops
