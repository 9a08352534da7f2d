\* Two instances and two volumes that move between them; three changes.
CONSTANTS
    Instances = {i1, i2}
    Volumes = {vol1, vol2}
    InstanceType <- MCInstanceType
    VolumeType <- MCVolumeType
    Size <- MCSize
    IPv4Hourly = 1
    PriceLists <- MCPriceLists
    MaxChanges = 3
SPECIFICATION CostSpec
INVARIANTS
    CostTypeOK
    NeverGuessed
PROPERTIES
    CatchesUp
