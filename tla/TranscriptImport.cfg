SPECIFICATION Spec
CONSTANTS
    Sources = {session, subagent}
    session = session
    subagent = subagent
    tailer = tailer
    scan = scan
    Importers = {tailer, scan}
    OwnerOf <- TwoOwners
    Chunk <- ChunkSizes
    MaxLines <- LineBounds
    MaxFaults = 1
INVARIANT NothingSkipped
PROPERTIES
    CompleteIsEarned
    EveryTurnIsImported
CHECK_DEADLOCK FALSE
