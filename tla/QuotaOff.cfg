SPECIFICATION FairPollSpec
CONSTANTS
    Reader = {loop, n1}
    Nudge = {n1}
    Loop = loop
    Writer = {w1, w2}
    Setting = {"off"}
    Absent = absent
    Capacity = 1
    MaxWrites = 2
    MaxDBFaults = 0
    MaxUpset = 2
    TxWriter = {w2}
    MaxNudges = 1
    Readings = {"spent", "fine", "unknown"}
    absent = absent
    loop = loop
    n1 = n1
    w1 = w1
    w2 = w2
PROPERTIES
    OffDropsAdvice
CHECK_DEADLOCK FALSE
