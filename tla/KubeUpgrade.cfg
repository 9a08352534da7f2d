\* Two control planes and two workers, which play 0 may miss; three failures.
CONSTANTS
    LastNode = 4
    LastCP = 2
    MayMiss = {3, 4}
    MaxFaults = 3
SPECIFICATION Spec
INVARIANTS
    TypeOK
    PassedMeansUpgraded
    KubeletNotAhead
PROPERTIES
    RerunRepairs
