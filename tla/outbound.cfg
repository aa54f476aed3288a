CONSTANTS
    m1 = m1
    m2 = m2
    d1 = d1
    d2 = d2
    None = None
    Msgs = {m1, m2}
    Drains = {d1, d2}
    Limit = 1
    MaxAttempts = 2
    ChunkSize = 1
    MaxTasks = 2
    MaxFaults = 1
    Scenes <- AllScenes
SPECIFICATION FairSpec
INVARIANTS TypeOK AcceptedOnce AcceptedIsCounted Counted
PROPERTIES NothingStays
CHECK_DEADLOCK FALSE
