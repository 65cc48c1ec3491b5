SPECIFICATION FairSpec
CONSTANTS
    Callers = {c1}
    Platforms = {"windows", "darwin", "linux"}
    OurServers <- MCOurServers
    UserServers <- MCUserServers
    UserBypasses = {"theirs"}
    Faults = {"apply", "read", "write"}
    NoFile = NoFile
    Corrupt = Corrupt
    MaxFailures = 2
    MaxCrashes = 1
    MaxServices = 2
INVARIANTS NothingLost RecordIsTheirs BadgeTruth
PROPERTIES LoanSpec StartupGivesBack
