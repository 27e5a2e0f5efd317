SPECIFICATION FairSpec
CONSTANTS
    r1 = r1
    r2 = r2
    local = local
    cli = cli
    Sessions = {s1}
    Reconcilers = {r1, r2}
    Processes = {local, cli}
    ProcessOf <- TwoProcesses
    Starters = {r1, r2}
    Importer = local
    Scopes <- NoScopes
    FixesRecorded = TRUE
    StoreErrors = FALSE
    MaxEvents = 1
    MaxChanges = 1
    MaxFaults = 1
INVARIANTS
    CurrentIsComplete
    FindingsCovered
PROPERTIES
    DirtySettles
    FindingsAreAnalysed
CHECK_DEADLOCK FALSE
