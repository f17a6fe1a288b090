SPECIFICATION Spec
CONSTANTS
    MaxCommands = 3
    MaxReloads = 1
    Environment = {"fail", "cutOff"}
INVARIANTS
    OneConnectionEver
