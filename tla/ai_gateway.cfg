SPECIFICATION Spec
CONSTANTS
    m1 = m1
    m2 = m2
    r1 = r1
    r2 = r2
    t1 = t1
    t2 = t2
    MaxBody = 2
    Mails = {m1, m2}
    Opened = {m1}
    Requests = {r1, r2}
    Rounds = {t1}
    Providers <- TwoProviders
    Serves <- ServesJobs
    Priority <- Order
    Keys <- TwoProviders
    Documents <- Files
    Urls <- SomeUrls
    Servers <- Behaviours
    Cap = 1
    Threshold = 2
    Cooldown = 1
    PerRound = 2
    BacklogLimit = 2
    MaxBilled = 3
    MaxFaults = 1
INVARIANTS EveryCallIsAccounted OverrunIsBounded
SYMMETRY RequestSymmetry
CHECK_DEADLOCK FALSE
