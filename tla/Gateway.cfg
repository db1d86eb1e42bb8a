SPECIFICATION SumSpec
CONSTANTS
    NumCandidates = 2
    NumProviders = 1
    Requests = {r1, r2}
    Ceiling <- Uncapped
    GrowAfter = 2
    ForgetAfter = 2
    RetryAfters = {0, 1}
    Surfaces <- Chat
    MaxLimit = 3
    Handler = {r1, r2}
    Threshold = 3
    MaxProbes = 1
    MissingScanThreshold = 2
    Input = {"text"}
    Output = {}
    MaxOps = 1
    MaxScans = 3
    MaxFaults = 1
    Reader = {poll, n1}
    Nudge = {n1}
    Loop = poll
    Writer = {w1, w2}
    TxWriter = {w2}
    Setting = {"off"}
    Absent = absent
    Capacity = 1
    MaxWrites = 2
    MaxDBFaults = 1
    MaxUpset = 2
    MaxNudges = 1
    Readings = {"spent", "fine"}
    r1 = r1
    r2 = r2
    n1 = n1
    poll = poll
    w1 = w1
    w2 = w2
    absent = absent
INVARIANTS
    TrailNamesEveryLaunch
    PromptChargedOnce
    LosingIsNoFault
    WinnerUncut
    SlotsAccounted
    CleanMeansServed
    OperatorObeyed
    CacheFresh
    OffLoopIsWoken
PROPERTIES
    PoolSpec
    RaceLedgerSpec
    RaceReleases
    CutMatchesLoad
    WidensOnEvidence
    StandsOnEvidence
    ModelRetires
    IntervalAdopted
CHECK_DEADLOCK FALSE
