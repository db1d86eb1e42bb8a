SPECIFICATION FairSpec
CONSTANTS
    Member = {a, b}
    Released = {a, b}
    None = None
    MaxGen = 2
    MaxEdit = 1
    MaxFault = 1
    MaxManual = 1
    MaxUpset = 3
    MaxReq = 2
    a = a
    b = b
INVARIANTS
    TypeOK
    LastImportStands
PROPERTIES
    SourceSpec
    FleetConverges
CHECK_DEADLOCK FALSE
