CONSTANTS
    r1 = r1
    r2 = r2
    t1 = t1
    t2 = t2
    Renewal = Renewal
    None = None
    Runs = {r1, r2}
    Tabs = {t1, t2}
    Price = 2
    MaxFaults = 1
    Scenes <- AllScenes
SPECIFICATION FairSpec
INVARIANTS TypeOK OncePerPayment CreditKept
PROPERTIES MoneyGranted NothingHangs
CHECK_DEADLOCK FALSE
