SPECIFICATION FairSpec
CONSTANTS
    MaxCommands = 2
    MaxReloads = 1
    Environment = {"change", "refuse", "fail", "cloudRaises", "disconnectRaises", "cutOff", "reload"}
INVARIANTS
    OneConnection
    OtherWayTried
    SuccessIsReal
PROPERTIES
    EveryCommandEnds
