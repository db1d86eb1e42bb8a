SPECIFICATION FairSpec
CONSTANTS
    Member = {a, b}
    Released = {}
    None = None
    MaxGen = 2
    MaxEdit = 1
    MaxFault = 0
    MaxManual = 0
    MaxUpset = 3
    MaxReq = 2
    a = a
    b = b
PROPERTIES
    NoFlagStays
CHECK_DEADLOCK FALSE
