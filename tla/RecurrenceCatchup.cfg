SPECIFICATION RestartingSpec
CONSTANTS
    Processes = {p1, p2}
    Sessions = {s1}
    Legacy = {s1}
    NoProcess = NoProcess
    NoItem = NoItem
    FixesRecorded = TRUE
    MaxCatchupFaults = 2
INVARIANTS
    ReadyIsEarned
PROPERTIES
    MonitoringBecomesReady
CHECK_DEADLOCK FALSE
