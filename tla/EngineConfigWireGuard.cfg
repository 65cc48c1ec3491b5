CONSTANTS
    Texts <- AllTexts
    Worlds <- StoredAlone
    Stale = FALSE
SPECIFICATION Spec
INVARIANT StoredWireGuardReachesEngine
CHECK_DEADLOCK FALSE
