SPECIFICATION Spec
CONSTANTS
    Organizations = {o1, o2}
    HomeUrls = {here}
    CloudUrls = {}
    MaxWebhooks = 3
    MaxLate = 0
    Environment = {"remove"}
    None = None
    o1 = o1
    o2 = o2
    here = here
INVARIANTS
    NothingLeftBehind
