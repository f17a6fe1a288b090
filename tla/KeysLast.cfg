SPECIFICATION Spec
CONSTANTS
    Locks = {l1, l2}
    Interval = 2
    Latency = 1
    Handshake = 6
    Command = 7
    MaxFailures = 1
    MaxTime = 9
    Environment = {"fail", "partial", "noCommand", "devices", "restart"}
    None = None
    l1 = l1
    l2 = l2
SYMMETRY LockSymmetry
INVARIANTS
    StoreAgrees
    KeysOutlastFailures
