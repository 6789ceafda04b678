SPECIFICATION FairSpec
CONSTANTS
    d1 = d1
    p1 = p1
    p2 = p2
    u1 = u1
    Device = {d1}
    Punch = {p1}
    User = {u1}
    UserOf <- MCUserOf
    PunchesAt <- MCPunchesAt
    StatusTicks = 1
    SafetyTicks = 1
    SerialFails = FALSE
    EventLoss = FALSE
    Busy = TRUE
    QueueCap = 1
    MaxFaults = 0
    MaxToggles = 0
    MaxRestarts = 0
PROPERTIES EveryPunchStored
CHECK_DEADLOCK FALSE
