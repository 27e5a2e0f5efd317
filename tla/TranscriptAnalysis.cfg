SPECIFICATION Spec
CONSTANTS
    s1 = s1
    s2 = s2
    Sessions = {s1, s2}
    Edging <- FirstBatches
    MaxBatches = 3
    MaxFaults = 1
INVARIANTS
    IssuesAreOfTheGeneration
    DerivationsAreWhole
PROPERTY AnalysisSettles
CHECK_DEADLOCK FALSE
