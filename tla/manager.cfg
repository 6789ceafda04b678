SPECIFICATION FairSpec
CONSTANTS
    d1 = d1
    d2 = d2
    t1 = t1
    t2 = t2
    t3 = t3
    Device = {d1, d2}
    Thread = {t1, t2, t3}
    NoThread = NoThread
    MaxFaults = 1
    MaxToggles = 3
INVARIANTS TypeOK OneThreadPerDevice RunningDevicesExact
PROPERTIES ImplementsDeviceThreads ActiveDeviceRuns InactiveDeviceStops StopEndsAll
CHECK_DEADLOCK FALSE
