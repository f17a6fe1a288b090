SPECIFICATION Spec
CONSTANTS
    Settings <- Reordered
    Duration = 2
    KeepDuration = 2
    Latency = 1
    None = None
INVARIANTS
    ActivationIsKnown
