\* Two devices that reconnect, calls in both directions, tight budgets.
SPECIFICATION Spec
CONSTANTS
    Devices = {d1, d2}
    Calls = {c1, c2}
    MaxSessions = 2
    MaxPerRoom = 3
    ClientBudget = 3
    TotalBudget = 4
    SendSlots = 1
    MaxFaults = 1
    Size <- Bulk
INVARIANTS
    RelayBooks
PROPERTIES
    WedgedMemberLeaves
    KeepsContract
CHECK_DEADLOCK FALSE
