CONSTANTS
    Texts <- AllTexts
    Worlds <- AllWorlds
    Stale = FALSE
SPECIFICATION Spec
INVARIANTS ListsAreWhole ProtectionIsKept OneServerEveryWay TrafficGoesAsAsked RuntimeSettingsHold
CHECK_DEADLOCK FALSE
