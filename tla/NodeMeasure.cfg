SPECIFICATION FairSpec
CONSTANTS
    l1 = l1
    l2 = l2
    all = all
    All = all
    Lists <- MCLists
    NodeCount = 2
    Hidden <- MCHidden
    NoAddress <- MCNoAddress
    Bodies <- MCBodies
    Requests <- MCRequests
    Workers = 1
    SpeedNodes = 1
    MaxRuns = 2
    MaxActs = 1
    Absent = Absent
    None = None
INVARIANTS EngineMeasuresItsList RunIsComplete PageShowsTheRun
PROPERTIES MeasuredStaysMeasured TestEnds
CHECK_DEADLOCK FALSE
