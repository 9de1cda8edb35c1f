\* Two devices, two things their users do.
SPECIFICATION Spec
CONSTANTS
    Devices = {d1, d2}
    Relayed = TRUE
    MaxAsks = 2
    MaxHellos = 1
    MaxPipe = 2
PROPERTIES
    PairingSettles
