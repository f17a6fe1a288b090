SPECIFICATION Spec
CONSTANTS
    Settings <- Overlapping
    Duration = 2
    KeepDuration = 2
    Latency = 1
    None = None
INVARIANTS
    ActivationIsKnown
