SPECIFICATION Spec
CONSTANTS
    e1 = e1
    e2 = e2
    Experiences = {e1, e2}
    Sessions = {s1, s2}
    ExpiresAt <- OneExpires
    PreviewLife = 2
    Window = 2
    MaxTime = 3
    MaxGeneration = 2
    MaxEvents = 4
    BatchLimit = 1
INVARIANTS
    GenerationFollowsLifecycle
    BoundWithinWindow
    
PROPERTIES
    DeliveredIsInForce
    ReceiptsComplete
CHECK_DEADLOCK FALSE
