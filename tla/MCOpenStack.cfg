SPECIFICATION Spec
CONSTANTS
    c1 = c1
    c2 = c2
    Nobody = Nobody
    Callers <- MCCallers
    Uses <- MCUses
    Ids <- MCIds
    Names <- MCNames
    Similar <- MCSimilar
    Stock <- MCStock
    Topics <- MCTopics
    PageSize = 2
    Limits <- MCLimits
    MaxCalls = 3
    MaxFaults = 1
PROPERTIES
    LookupIsExact
    ListingIsExact
CHECK_DEADLOCK FALSE
