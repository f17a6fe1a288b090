SPECIFICATION Spec
CONSTANTS
    Settings <- Crash
    Duration = 2
    KeepDuration = 2
    Latency = 1
    None = None
INVARIANTS
    ShowsWhatItKnows
