SPECIFICATION Spec
CONSTANTS
    Retry = 2
    PortTables <- MCPortTables
    TargetPorts = {8080, 9090}
    MaxChanges = 1
INVARIANT
    NodePortIsForTarget
CHECK_DEADLOCK FALSE
