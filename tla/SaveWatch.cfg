SPECIFICATION FairSpec
CONSTANTS
    Slots <- TwoSlots
    Tracker = Tracker
    Handler = Handler
    Quitter = Quitter
    MaxContent = 2
    MaxRequests = 1
    MaxTries = 2
 
INVARIANT DrainedBeforeClose
PROPERTY ShutdownEnds
CHECK_DEADLOCK FALSE
