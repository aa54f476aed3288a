CONSTANTS
    a = a
    b = b
    d1 = d1
    d2 = d2
    s1 = s1
    s2 = s2
    None = None
    Recs = {a, b}
    Dispatchers = {d1, d2}
    Senders = {s1, s2}
    MaxTries = 2
    MaxCopies = 2
    Scenes <- LastTries
SPECIFICATION Spec
PROPERTIES FailedIsFinal
CHECK_DEADLOCK FALSE
