SPECIFICATION Spec
CONSTANTS
    None = None End = End Timeout = Timeout
    r1 = r1 r2 = r2 c1 = c1 c2 = c2 buttons = buttons ask = ask
    m1 = m1 m2 = m2 m3 = m3 p1 = p1 p2 = p2 p3 = p3
    Runs = {r1, r2}
    Convs = {c1}
    Msgs = {m1, m2}
    Procs = {p1, p2}
    Steps = {buttons, ask}
    FirstStep = buttons
    ConvOf <- BothToOne
    Ask = {ask}
    FreeText = {ask}
    Routes <- RoutesDef
    NextOf <- NextDef
    OnTimeout <- AskAgain
    OnInvalid <- ToEnd
    OnError <- NoErrorStep
    MaxAttempts = 2
    MsgConv <- AllToC1
    Reply <- TypedLabels
    OuterTx = TRUE
    MaxSteps = 2
    MaxDeliveries = 2
    MaxCrashes = 0
SYMMETRY RunSymmetry
CHECK_DEADLOCK FALSE
INVARIANTS OneRunPerMessage  AnswersMatchExits
PROPERTIES EndedStaysEnded
