SPECIFICATION FairSpec
CONSTANTS
    None = None End = End Timeout = Timeout
    r1 = r1 r2 = r2 c1 = c1 c2 = c2 buttons = buttons ask = ask
    m1 = m1 m2 = m2 m3 = m3 p1 = p1 p2 = p2 p3 = p3
    Runs = {r1}
    Convs = {c1}
    Msgs = {m1, m2}
    Procs = {p1, p2}
    Steps = {buttons, ask}
    FirstStep = buttons
    ConvOf <- BothToOne
    Ask = {ask}
    FreeText = {ask}
    Routes <- RoutesDef
    NextOf <- NextDef
    OnTimeout <- NextDef
    OnInvalid <- ToEnd
    OnError <- AskErrorStep
    MaxAttempts = 1
    MsgConv <- AllToC1
    Reply <- TapThenWrong
    OuterTx = FALSE
    MaxSteps = 5
    MaxDeliveries = 2
    MaxCrashes = 1
CHECK_DEADLOCK FALSE
INVARIANTS TypeOK OneExitPerQuestion
PROPERTIES KeepsPromise MovesOn
