SPECIFICATION Spec
CONSTANTS
    Ceiling = 2
    SuccessFloor = 1
    SuccessesPerWorker = 1
    MaxRuns = 2
    Workers = {w1, w2}
    Totals <- MCTotals
    JobBuffer = 1
    RecordBuffer = 1
    DefaultWorkers = 1
    Adaptive = {TRUE}
    Faults = {"panic", "write"}
    None = None
SYMMETRY MCSymmetry
INVARIANTS OneRunAtATime NoSendOnClosed EndIsToldRight QuitSavesRows
CHECK_DEADLOCK FALSE
