SPECIFICATION FairSpec
CONSTANTS
    d1 = d1
    p1 = p1
    p2 = p2
    u1 = u1
    Device = {d1}
    Punch = {p1, p2}
    User = {u1}
    UserOf <- MCUserOf
    PunchesAt <- MCPunchesAt
    StatusTicks = 2
    SafetyTicks = 2
    SerialFails = FALSE
    EventLoss = TRUE
    Busy = TRUE
    QueueCap = 1
    MaxFaults = 1
    MaxToggles = 2
    MaxRestarts = 1
INVARIANTS TypeOK PunchesAccounted
PROPERTIES ImplementsDeviceThreads RowsPermanent EveryPunchStoredIfQuiet DeactivationNoticed StopObeyed
CHECK_DEADLOCK FALSE
