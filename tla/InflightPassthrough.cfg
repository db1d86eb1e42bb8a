SPECIFICATION Spec
CONSTANTS
    NumProviders = 1
    Requests = {r1}
    Ceiling <- Uncapped
    GrowAfter = 2
    ForgetAfter = 2
    RetryAfters = {0, 1}
    Surfaces <- Passthrough
    MaxLimit = 2
    r1 = r1
INVARIANTS
    CleanMeansServed
SYMMETRY RequestSymmetry
