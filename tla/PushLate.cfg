SPECIFICATION Spec
CONSTANTS
    Organizations = {o1}
    HomeUrls = {here}
    CloudUrls = {}
    MaxWebhooks = 3
    MaxLate = 1
    Environment = {"reload", "late"}
    None = None
    o1 = o1
    here = here
INVARIANTS
    OneWebhookEver
