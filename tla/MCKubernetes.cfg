SPECIFICATION FairSpec
CONSTANTS
    Topics = {"lookups", "roles", "storage", "objects"}
    Retry = 2
    PortTables <- MCPortTables
    TargetPorts = {8080, 9090}
    MaxChanges = 1
    Workers = {w1, w2}
    Spaces = {"ns1", "ns2"}
    AllSpaces = ""
    Users = {"u1", "u2"}
    Bindings <- MCBindings
    Requests <- MCRequests
    MaxCalls = 2
    Admins = {a1, a2}
    Classes = {"gold", "silver", "late"}
    Late = {"late"}
    MaxSwitches = 3
    Callers = {c1, c2}
    Places = {"ns1", "ns2"}
    Manifests <- MCManifests
    MaxWrites = 4
    MaxLapses = 1
    MaxFaults = 1
    Replicas = {r1}
    Nobody = Nobody
    MaxLost = 0
    MaxStops = 0
INVARIANTS
    NothingMeansAllTrialsFailed
    DeletesOnlyMeant
    OkMeansGone
    DeletesAPrefix
    SwitchesLeaveADefault
    NoLostUpdate
    ManifestIsAPrefix
PROPERTY
    RetriesSettle
CHECK_DEADLOCK FALSE
