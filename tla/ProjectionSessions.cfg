SPECIFICATION Spec
CONSTANTS
    r1 = r1
    r2 = r2
    local = local
    cli = cli
    Sessions = {s1, s2}
    Reconcilers = {r1}
    Processes = {local}
    ProcessOf <- SingleHandle
    Starters = {r1}
    Importer = local
    Scopes <- TwoProjects
    FixesRecorded = TRUE
    StoreErrors = TRUE
    MaxEvents = 1
    MaxChanges = 0
    MaxFaults = 1
INVARIANTS
    
    JobPerCompletedRevision
PROPERTIES
    ScopeNeverReassigned
CHECK_DEADLOCK FALSE
