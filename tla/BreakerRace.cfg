SPECIFICATION Spec
CONSTANTS
    Models = {m1}
    Seed = seed
    Callers = {a1}
    Configs <- Spanning
    Hints = {0}
    Readings <- NoReadings
    Jitters = {0}
    Spread = 20
    SeedSteps = 1
    MaxCircuits = 2
    ReopenWindow = 0
    OpensBeforeEscalation = 1
    HalfOpenMaxProbes = 1
    Horizon = 2
    MaxFailedProbes = 1
    m1 = m1
    seed = seed
    a1 = a1
PROPERTIES
    AdmittedOnlyWhenUnblocked
