SPECIFICATION FairSpec
CONSTANTS
    Subs = {s1}
    Catalogues = {private}
    Home = private
    Manual = manual
    All = all
    Addresses = {u1}
    n1 = n1
    n2 = n2
    Nodes <- MCNodes
    Bodies <- MCBodies
    Threads = {t1}
    Retrier = retrier
    MaxActs = 4
    MaxNesting = 2
    None = None
INVARIANTS SourcesAreSound
PROPERTIES GoodCopyStays HiddenStaysOut FetchingEnds
CHECK_DEADLOCK FALSE
