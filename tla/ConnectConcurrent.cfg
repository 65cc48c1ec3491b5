SPECIFICATION Spec
CONSTANTS
    Attempts = {a1, a2}
    Stops = {s1}
    None = None
    ConcurrentStarts = TRUE
    CloseMayFail = TRUE
    Recovery = TRUE
SYMMETRY MCSymmetry
PROPERTIES StoppedStaysStopped
