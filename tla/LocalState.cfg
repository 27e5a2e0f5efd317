SPECIFICATION HomeSpec
CONSTANTS
    Processes = {p1, p2, p3}
    Payloads = {e1, e2}
    MaxFaults = 2
    Tailers = {t1, t2}
    MaxTail = 2
    MaxLines = 3
    MaxFiles = 2
    MaxTailFaults = 1
    Commands = {c1, c2}
    FileTargets = {"cursor"}
    ClaudeTargets = {"claude"}
    CodexTargets = {"codex"}
    Builds = {"build 1", "build 2"}
    MaxRuns = 2
    MaxEdits = 1
    MaxRefusals = 1
    MaxMishaps = 1
    Checks = {k1, k2}
    Current = 1
    MaxRelease = 3
    MaxClock = 3
INVARIANTS
    OneKey
    OpenIsClean
    SpoolIsNotSkipped
    OwnershipAgrees
PROPERTIES
    NoReplacementKey
    
    
CHECK_DEADLOCK FALSE
