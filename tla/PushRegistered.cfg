SPECIFICATION Spec
CONSTANTS
    Organizations = {o1, o2}
    HomeUrls = {here, moved}
    CloudUrls = {cloud}
    MaxWebhooks = 3
    MaxLate = 1
    Environment = {"fail", "reload", "url", "devices", "remove", "late"}
    None = None
    o1 = o1
    o2 = o2
    here = here
    cloud = cloud
    moved = moved
INVARIANTS
    OneWebhookEach
PROPERTIES
    OthersLeftAlone
