SPECIFICATION Spec
CONSTANTS
    Devices = {d1, d2}
    Types = {locked}
    PushedTypes = {locked}
    Overlap = 1
    Lookback = 2
    CatchUpInterval = 2
    ScanInterval = 1
    PushScanInterval = 2
    Latency = 1
    MaxDelay = 1
    MaxAhead = 0
    MaxPushAge = 2
    MaxTime = 4
    MaxEvents = 2
    Environment = {"register", "push", "deviceChange"}
    None = None
    d1 = d1
    d2 = d2
    locked = locked
SYMMETRY DeviceSymmetry
INVARIANTS
    FiredOnce
PROPERTIES
    HistoryNotReplayed
    FeedImplemented
