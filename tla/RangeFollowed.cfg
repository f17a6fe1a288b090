SPECIFICATION Spec
CONSTANTS
    Addresses = {a1, a2}
    Stale = 2
    IssueAfter = 3
    ScanInterval = 2
    MaxTime = 9
    Environment = {"moves", "method", "expire", "fail", "reload"}
    None = None
    a1 = a1
    a2 = a2
INVARIANTS
    SilentIsUnreachable
    HeardIsReachable
    ShownAsAvailable
PROPERTIES
    ToldWhileSilent
    ToldWhenPolled
