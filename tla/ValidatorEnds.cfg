SPECIFICATION FairSpec
CONSTANTS
    Ceiling = 2
    SuccessFloor = 1
    SuccessesPerWorker = 1
    MaxRuns = 1
    Workers = {w1, w2}
    Totals <- MCOneRun
    JobBuffer = 1
    RecordBuffer = 1
    DefaultWorkers = 1
    Adaptive = {TRUE}
    Faults = {"panic"}
    None = None
PROPERTIES ScanEnds
CHECK_DEADLOCK FALSE
