SPECIFICATION Spec
CONSTANTS
    Settings <- Settling
    Duration = 2
    KeepDuration = 3
    Latency = 1
    None = None
INVARIANTS
    ShownIsCurrent
    BoltSettles
    NoLongerThanAnActivation
    ActivationSettles
