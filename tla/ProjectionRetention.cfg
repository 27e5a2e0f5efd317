SPECIFICATION RetentionSpec
CONSTANTS
    r1 = r1
    r2 = r2
    local = local
    Sessions = {s1, s2}
    Reconcilers = {r1}
    Processes = {local}
    ProcessOf <- SingleHandle
    Starters = {r1}
    Importer = local
    Scopes <- NoScopes
    FixesRecorded = TRUE
    StoreErrors = FALSE
    MaxEvents = 2
    MaxChanges = 0
    MaxFaults = 0
    MaxPrunes = 1
INVARIANTS
    CitationsResolve
    RetainedRevisionAgrees
PROPERTIES
    PendingEvidenceIsKept
    RetainedSnapshotsAreStable
CHECK_DEADLOCK FALSE
