\* The same with an AWS that answers a deleted ENI with an error.
CONSTANTS
    Nodes = {1, 2, 3}
    NoEni = NoEni
    NoIp = NoIp
    UnknownFails = TRUE
    MaxGen = 1
    MaxChanges = 3
SPECIFICATION FairSpec
PROPERTIES
    FailsOver
CHECK_DEADLOCK FALSE
