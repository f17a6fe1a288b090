SPECIFICATION Spec
CONSTANTS
    Devices = {d1}
    Types = {locked}
    PushedTypes = {locked}
    Overlap = 1
    Lookback = 2
    CatchUpInterval = 2
    ScanInterval = 1
    PushScanInterval = 2
    Latency = 1
    MaxDelay = 1
    MaxAhead = 0
    MaxPushAge = 2
    MaxTime = 5
    MaxEvents = 2
    Environment = {"fail"}
    None = None
    d1 = d1
    locked = locked
INVARIANTS
    FiredOnce
