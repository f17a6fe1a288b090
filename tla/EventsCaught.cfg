SPECIFICATION Spec
CONSTANTS
    Devices = {d1}
    Types = {locked}
    PushedTypes = {locked}
    Overlap = 2
    Lookback = 6
    CatchUpInterval = 2
    ScanInterval = 1
    PushScanInterval = 2
    Latency = 1
    MaxDelay = 3
    MaxAhead = 1
    MaxPushAge = 2
    MaxTime = 8
    MaxEvents = 2
    Environment = {"register"}
    None = None
    d1 = d1
    locked = locked
INVARIANTS
    TimelyUploadsFire
    LateUploadsFire
    CatchUpsKeepComing
