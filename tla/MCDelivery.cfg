SPECIFICATION DeliverySpec
CONSTANTS
    v1 = v1
    v2 = v2
    i1 = i1
    i2 = i2
    old = old
    None = None
    Junk = Junk
    Installations = {i1, i2, old}
    Legacy = {old}
    Versions = {v1, v2}
    SignedReleases <- MCReleases
INVARIANTS
    DeliveryTypeOK
    BootsOneRelease
PROPERTIES
    HandoffNeedsImages
    AttemptsEnd
CHECK_DEADLOCK FALSE
