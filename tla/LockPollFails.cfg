SPECIFICATION Spec
CONSTANTS
    Settings <- FailedPolls
    Duration = 2
    KeepDuration = 2
    Latency = 1
    None = None
INVARIANTS
    ActivationIsKnown
