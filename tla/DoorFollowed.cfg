SPECIFICATION Spec
CONSTANTS
    MaxTime = 3
    Environment = {"stop", "crash", "reload", "relink", "slowSensor", "unseenSave", "unknown", "removed"}
    None = None
INVARIANTS
    DatedWhenLastClosed
    OpeningCounts
PROPERTIES
    NotForgotten
