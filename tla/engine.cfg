SPECIFICATION FairSpec
CONSTANTS
    None = None End = End
    p1 = p1 p2 = p2 p3 = p3 hello = hello pause = pause menu = menu chips = chips again = again
    Steps = {hello, pause, menu, chips, again}
    Procs = {p1, p2}
    FirstStep = hello
    KindOf <- KindDef
    NextOf <- NextDef
    OnTimeout <- ToEnd
    Modes <- SafeModes
    MaxCrashes = 1
CHECK_DEADLOCK FALSE
INVARIANTS TypeOK QueuedOnce NeverStranded
PROPERTIES NothingAfterTheEnd MovesOn
