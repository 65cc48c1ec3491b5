SPECIFICATION FairSpec
CONSTANTS
    n1 = n1
    n2 = n2
    n3 = n3
    Nodes <- MCNodes
    Choices <- MCChoices
    Variants = 2
    MaxAttempts = 2
    LiveSwitchAttempts = 2
    WatchAttempts = 2
    WatchFailures = 2
    Worlds <- MCWorlds
    AutoGroup = AutoGroup
    None = None
INVARIANTS OnlyLastEngineRuns SessionAgrees
PROPERTIES HandPickedIsKept SessionSettles
