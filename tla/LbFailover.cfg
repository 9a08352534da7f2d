\* Three nodes, three changes, any calls failing.
CONSTANTS
    Nodes = {1, 2, 3}
    NoEni = NoEni
    NoIp = NoIp
    UnknownFails = FALSE
    MaxGen = 1
    MaxChanges = 3
SPECIFICATION FairSpec
INVARIANTS
    TypeOK
PROPERTIES
    NeverOffLive
    FailsOver
CHECK_DEADLOCK FALSE
