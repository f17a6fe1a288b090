SPECIFICATION Spec
CONSTANTS
    Settings <- Ahead
    Duration = 2
    KeepDuration = 2
    Latency = 1
    None = None
INVARIANTS
    BoltIsKnown
