CONSTANTS
    d1 = d1
    d2 = d2
    g = g
    h = h
    f1 = f1
    f2 = f2
    Devices <- TwoDevices
    Ids <- TwoIds
    NoId = NoId
    Folders <- TwoFolders
    NoFolder = NoFolder
    MatchByAppID = TRUE
    Starts <- OneTitle
    MaxAsked = 1
    MaxOps = 2
    MaxFaults = 1
SPECIFICATION Spec
CHECK_DEADLOCK FALSE
 
INVARIANT MergedCanComeBack
INVARIANT TombstonesFollowTheLastWord
 
