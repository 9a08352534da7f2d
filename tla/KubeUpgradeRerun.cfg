\* The same, asking for what the rescue's message says.
CONSTANTS
    LastNode = 3
    LastCP = 2
    MayMiss = {}
    MaxFaults = 1
SPECIFICATION Spec
PROPERTIES
    RerunFinishes
