SPECIFICATION Spec
CONSTANTS
    c1 = c1
    c2 = c2
    Callers <- MCCallers
    Uses <- MCUses
    RetryCount = 1
    Attempts = 2
    MaxCalls = 4
    MaxFaults = 2
    MaxEvents = 2
INVARIANTS
    CreationsAreAccountedFor
    DeletedIsGone
    WaitToleratesFaults
CHECK_DEADLOCK FALSE
