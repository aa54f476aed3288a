SPECIFICATION FairSpec
CONSTANTS
    None = None d1 = d1 d2 = d2
    Drainers = {d1, d2}
    MaxAttempts = 2
    MaxOcc = 4
    Scenes <- AllScenes
CHECK_DEADLOCK FALSE
INVARIANTS TypeOK  SeriesWhole
PROPERTIES JobEnds
