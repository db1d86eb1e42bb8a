SPECIFICATION FairSpec
CONSTANTS
    Models = {m1}
    Seed = seed
    Callers = {}
    Configs <- Spanning
    Hints = {0, 2}
    Readings <- Spent
    Jitters = {1}
    Spread = 2
    SeedSteps = 1
    MaxCircuits = 2
    ReopenWindow = 2
    OpensBeforeEscalation = 2
    HalfOpenMaxProbes = 1
    Horizon = 3
    MaxFailedProbes = 1
    m1 = m1
    seed = seed
PROPERTIES
    NoPermanentDarkness
    SeedRetired
    ReportedOncePerWindow
