SPECIFICATION Spec
CONSTANTS
    d1 = d1
    p1 = p1
    p2 = p2
    u1 = u1
    Device = {d1}
    Punch = {p1}
    User = {u1}
    UserOf <- MCUserOf
    PunchesAt <- MCPunchesAt
    StatusTicks = 1
    SafetyTicks = 1
    SerialFails = TRUE
    EventLoss = FALSE
    Busy = FALSE
    QueueCap = 0
    MaxFaults = 1
    MaxToggles = 0
    MaxRestarts = 0
INVARIANTS ResyncAccepted
CHECK_DEADLOCK FALSE
