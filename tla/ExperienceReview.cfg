SPECIFICATION Spec
CONSTANTS
    c1 = c1
    p1 = p1
    p2 = p2
    Candidates = {c1}
    Proposals = {p1, p2}
    CandidateOf <- OneCandidate
    Clients = {k1, k2}
    Lifetime = 1
    MaxTime = 2
    MaxApprovalTokens = 2
    MaxLifecycleTokens = 2
INVARIANTS
    LifecycleProjected
    ReviewBeatsApproval
PROPERTIES
    LifecycleIsRespected
CHECK_DEADLOCK FALSE
