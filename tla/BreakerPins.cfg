SPECIFICATION Spec
CONSTANTS
    Models = {m1}
    Seed = seed
    Callers = {}
    Configs <- Switched
    Hints = {0, 3}
    Readings <- SpentOrUndated
    Jitters = {0, 1}
    Spread = 2
    SeedSteps = 1
    MaxCircuits = 2
    ReopenWindow = 0
    OpensBeforeEscalation = 1
    HalfOpenMaxProbes = 1
    Horizon = 4
    MaxFailedProbes = 2
    m1 = m1
    seed = seed
INVARIANTS
    TypeOK
    NoResidue
    SeedOnlyCarriesPin
PROPERTIES
    WaitBounded
    AccountPinNeedsEvidence
