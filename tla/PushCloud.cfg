SPECIFICATION Spec
CONSTANTS
    Organizations = {o1}
    HomeUrls = {here}
    CloudUrls = {cloud}
    MaxWebhooks = 3
    MaxLate = 0
    Environment = {"reload", "cloud"}
    None = None
    o1 = o1
    here = here
    cloud = cloud
INVARIANTS
    OneWebhookEach
