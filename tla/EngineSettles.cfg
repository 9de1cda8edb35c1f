CONSTANTS
    d1 = d1
    d2 = d2
    d3 = d3
    f = f
    g = g
    x = x
    Devices <- MCDevices
    Paths <- OnePath
    Dirs <- OneDir
    Versions <- MCTimes
    Mtimes <- MCTimes
    NoFile = NoFile
    NoHash = NoHash
    NoPeer = NoPeer
    Watched <- NoOne
    Answers <- NoOne
    SkewTolerance = 0
    MassDeletionMin = 2
    MaxClock = 3
    MaxFaults = 1
    MaxReports = 1
SPECIFICATION FairSpec
CHECK_DEADLOCK FALSE
PROPERTY SettledUnlessPassesKeepOverlapping
