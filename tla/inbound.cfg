CONSTANTS
    e1 = e1
    e2 = e2
    m1 = m1
    m2 = m2
    None = None
    Events = {e1, e2}
    Msgs = {m1, m2}
    Carries <- Batches
    Workers = {1, 2}
    MaxAttempts = 2
    MaxTasks = 1
    MaxFaults = 1
    Scenes <- AllScenes
SPECIFICATION FairSpec
INVARIANTS TypeOK HandledOnce ProcessedIsHandled
PROPERTIES EventsSettle
CHECK_DEADLOCK FALSE
