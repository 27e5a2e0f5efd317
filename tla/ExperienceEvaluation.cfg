SPECIFICATION Spec
CONSTANTS
    Processes = {p1, p2}
    Probers = {q1}
    Workers = {"transcripts", "issues"}
    DiesWithHolder = TRUE
    MaxFaults = 2
    Applications = {a1, a2}
    Unevaluable = {a1}
    Immaterial = {2}
    Scans = {w1, w2}
    MaxWrites = 3
    Batch = 2
INVARIANTS
    WorkersHoldLease
    OnlyEarlierWritesAreMissed
PROPERTIES
    EvaluationsCatchUp
CHECK_DEADLOCK FALSE
