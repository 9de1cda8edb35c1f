CONSTANTS
    user = user
    watcher = watcher
    cli = cli
    app = app
    main = main
    alt = alt
    Actors <- UserAndWatcher
    Processes <- OneProcess
    ProcessOf <- InOneProcess
    Does <- UserDoesAll
    Branches <- TwoBranches
    Main = main
    NoBranch = NoBranch
    Leftovers <- AltIsLeftover
    MaxAuto = 2
    MaxManual = 1
    MaxClock = 2
    MaxId = 4
    MaxSave = 3
    MaxTasks = 3
    MaxFaults = 1
SPECIFICATION Spec
CHECK_DEADLOCK FALSE
INVARIANT SnapshotsKeepTheirContent
 
 
 
INVARIANT SeededBranchHasSave
 
