SPECIFICATION FairEngineSpec
CONSTANTS
    Calls = {c1}
    StopCalls = {s1}
    EventBuffer = 1
    Faults <- MCFaults
    Nobody = Nobody
INVARIANTS TableServesTheReader
PROPERTIES HandleIsKept NoCallOutlivesConnection StopsEnd
CHECK_DEADLOCK FALSE
