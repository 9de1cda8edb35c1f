SPECIFICATION FairSpec
CONSTANTS
    local = local
    google_drive = google_drive
    Push = Push
    Clean = Clean
    Fetch = Fetch
    Providers <- BothKinds
    SignIn <- OnlyDrive
    Overwrites <- OnlyFolder
    ShowsParts <- OnlyFolder
    Ids <- TwoSnapshots
    Callers <- Goroutines
    Keep = 1
    MaxParts = 1
    MaxFlows = 2
    MaxOps = 2
    MaxFaults = 1
 
PROPERTY DeadSessionForgotten
PROPERTY ManualCopiesStay
PROPERTY TrimmingSparesKeep
CHECK_DEADLOCK FALSE
