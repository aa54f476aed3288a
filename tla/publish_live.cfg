SPECIFICATION FairSpec
CONSTANTS
    None = None w1 = w1 w2 = w2
    Workers = {w1}
    Scenes <- LiveScenes
    MaxRetries = 0
    MaxQueue = 1
    MaxBoxes = 1
    MaxFaults = 1
CHECK_DEADLOCK FALSE
PROPERTIES Settles
