SPECIFICATION Spec
CONSTANTS
    MaxCommands = 2
    MaxReloads = 0
    Environment = {"cloudRaises", "disconnectRaises"}
INVARIANTS
    EveryWayTried
