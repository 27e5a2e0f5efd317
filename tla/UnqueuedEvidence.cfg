SPECIFICATION Spec
CONSTANTS
    s1 = s1
    s2 = s2
    Sessions = {s1, s2}
    Edging <- FirstBatches
    MaxBatches = 3
    MaxFaults = 0
PROPERTY EvidenceReachesIssues
CHECK_DEADLOCK FALSE
