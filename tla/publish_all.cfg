SPECIFICATION Spec
CONSTANTS
    None = None w1 = w1 w2 = w2
    Workers = {w1, w2}
    Scenes <- AllScenes
    MaxRetries = 1
    MaxQueue = 1
    MaxBoxes = 2
    MaxFaults = 1
SYMMETRY WorkerSymmetry
CHECK_DEADLOCK FALSE
INVARIANTS TypeOK PublishedOnce 
