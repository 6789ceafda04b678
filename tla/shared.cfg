SPECIFICATION FairSpec
CONSTANTS
    d1 = d1
    d2 = d2
    p1 = p1
    p2 = p2
    u1 = u1
    Device = {d1, d2}
    Punch = {p1, p2}
    User = {u1}
    UserOf <- MCUserOf
    PunchesAt <- MCPunchesAt
    StatusTicks = 1
    SafetyTicks = 1
    SerialFails = FALSE
    Busy = FALSE
    QueueCap = 0
    EventLoss = FALSE
    MaxFaults = 0
    MaxToggles = 0
    MaxRestarts = 0
PROPERTIES EveryPunchStored
CHECK_DEADLOCK FALSE
