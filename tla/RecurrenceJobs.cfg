SPECIFICATION FairJobsSpec
CONSTANTS
    Workers = {w1, w2}
    Occurrences = {o1}
    BatchLimit = 2
    MaxFixes = 3
    MaxJobs = 1
    MaxFaults = 2
INVARIANTS
    LedgerAgrees
PROPERTIES
    EvaluatesOnce
    JobsComplete
CHECK_DEADLOCK FALSE
