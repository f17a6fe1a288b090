SPECIFICATION Spec
CONSTANTS
    MaxCommands = 2
    MaxReloads = 1
    Environment = {"reload"}
INVARIANTS
    OneConnectionEver
