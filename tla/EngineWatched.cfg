CONSTANTS
    d1 = d1
    d2 = d2
    d3 = d3
    f = f
    g = g
    x = x
    Devices <- MCDevices
    Paths <- OnePath
    Dirs <- NoDirs
    Versions <- MCTimes
    Mtimes <- MCTimes
    NoFile = NoFile
    NoHash = NoHash
    NoPeer = NoPeer
    Watched <- MCDevices
    Answers <- NoOne
    SkewTolerance = 0
    MassDeletionMin = 2
    MaxClock = 4
    MaxFaults = 0
    MaxReports = 0
SPECIFICATION Spec
SYMMETRY DeviceSymmetry
VIEW ReadState
CHECK_DEADLOCK FALSE
PROPERTY JudgesCapturedFiles
