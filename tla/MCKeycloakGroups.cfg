SPECIFICATION FairSpec
CONSTANTS
    c1 = c1
    c2 = c2
    Clients <- MCClients
    Persistent <- MCPersistent
    Names <- MCNames
    Paths <- MCPaths
    RawPaths <- MCRawPaths
    PageSize = 1
    LegacySubGroups = TRUE
    MaxDeletes = 1
    MaxFaults = 1
INVARIANTS
    ResultIsOnPath
    RefusedMeansThere
PROPERTIES
    OnlyAskedForIsCreated
    PersistentCallerSucceeds
