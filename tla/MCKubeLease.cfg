SPECIFICATION LeaseSpec
CONSTANTS
    Topics = {"lease"}
    Retry = 0
    PortTables = {{}}
    TargetPorts = {}
    MaxChanges = 0
    Workers = {}
    Spaces = {"ns1"}
    AllSpaces = ""
    Users = {}
    Bindings = {}
    Requests = {}
    MaxCalls = 0
    Admins = {}
    Classes = {}
    Late = {}
    MaxSwitches = 0
    Callers = {}
    Places = {"ns1"}
    Manifests = {}
    MaxWrites = 0
    MaxLapses = 0
    MaxFaults = 0
    Replicas = {r1, r2}
    Nobody = Nobody
    MaxLost = 1
    MaxStops = 1
INVARIANTS
    OneLeader
    SecondScheduleIsAnOldOne
PROPERTY
    ScheduleResumes
