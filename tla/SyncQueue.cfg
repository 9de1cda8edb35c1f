CONSTANTS
    p = p
    q = q
    c1 = c1
    c2 = c2
    f1 = f1
    Peers <- TwoPeers
    NoPeer = NoPeer
    Callers <- OneCaller
    Loop = Loop
    FollowUps <- OneFollowUp
    ReconcileEvery = 3
    MaxChanges = 2
    MaxFaults = 1
SPECIFICATION FairSpec
INVARIANT TypeOK
INVARIANT OneSyncAtATime
INVARIANT QueuedChangesArrive
PROPERTY BackstopDelivers
