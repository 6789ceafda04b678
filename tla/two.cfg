SPECIFICATION Spec
CONSTANTS
    d1 = d1
    d2 = d2
    p1 = p1
    p2 = p2
    u1 = u1
    Device = {d1, d2}
    Punch = {p1, p2}
    User = {u1}
    UserOf <- MCUserOf
    PunchesAt <- MCPunchesAt
    StatusTicks = 1
    SafetyTicks = 1
    SerialFails = TRUE
    Busy = FALSE
    QueueCap = 0
    EventLoss = TRUE
    MaxFaults = 1
    MaxToggles = 0
    MaxRestarts = 0
INVARIANTS StoredOnce RejectionExplained NamesFilled
PROPERTIES ImplementsLedger
CHECK_DEADLOCK FALSE
