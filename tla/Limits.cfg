SPECIFICATION SumSpec
CONSTANTS
    Rows = {r1}
    Askers = {a1, a2}
    NumReloads = 2
    Budgets <- OneBudget
    LastDay = 2
    RefreshInterval = 3
    RetryInterval = 1
    SourceTimeout = 1
    MaxOverlapped = 1
    Request = {keyed, session}
    Key = {key}
    Owner = {owner}
    None = none
    KeyOf <- KeyOfRequest
    OwnerOf <- SameOwner
    Cap <- Caps
    Cost = {3}
    IdleCutoff = 2
    Timeout = {1, 3}
    DefaultTimeout = 1
    MinCapMemoTTL = 2
    MaxCapMemoTTL = 5
    MaxArrivals = 2
    MaxUpset = 2
    r1 = r1
    a1 = a1
    a2 = a2
    keyed = keyed
    session = session
    key = key
    owner = owner
    none = none
INVARIANTS
    NeverMisses
    OneReload
    DebitLands
    SpendCounted
PROPERTIES
    Settles
    Answers
