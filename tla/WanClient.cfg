\* One room to join and leave, two settings changes; the timers' own calls race them.
SPECIFICATION ClientSpec
CONSTANTS
    Rooms = {r1}
    Handlers = {h1}
    MaxLoops = 4
    MaxChanges = 2
INVARIANTS
    LiveLoopOwnsConnection
PROPERTIES
    Reconnects
    QuietPeerGoesOffline
    
