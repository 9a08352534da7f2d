\* Two replicas, two records, a clock that ages the first, and two restarts or
\* lost connections.
CONSTANTS
    Replicas = {r1, r2}
    Keys = {k1}
    NoKey = NoKey
    MaxAge = 0
    MaxRecords = 2
    MaxNow = 1
    MaxFaults = 2
SPECIFICATION Spec
INVARIANTS
    TypeOK
    ReplicasAgree
PROPERTIES
    Converges
CHECK_DEADLOCK FALSE
