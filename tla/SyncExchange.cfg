CONSTANTS
    f = f
    g = g
    x = x
    Paths <- MCPaths
    Dirs <- MCDirs
    Versions <- MCVersions
    Mtimes <- MCMtimes
    NoFile = NoFile
    NoHash = NoHash
    NoBase = NoBase
    SkewTolerance = 1
    MassDeletionMin = 2
    BaseVersion = 0
    BaseMtime = 2
SPECIFICATION Spec
CHECK_DEADLOCK FALSE
INVARIANT TypeOK
 
INVARIANT ChangedSideWins
 
 
